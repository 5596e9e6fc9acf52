-------------------------- MODULE GatewayProperties --------------------------
(***************************************************************************)
(* What the gateway guarantees, and the statements of its documentation     *)
(* that the code does not keep.                                             *)
(***************************************************************************)
EXTENDS Gateway

Answered(id) == answer[id] # Pending
Settled == \A w \in Workers : job[w] = IdleJob

\* The role is trusted with the sensitivity of the tool it calls.
AboveFloor(req) == Trust(req.role) >= TrustFloor(SensitivityOf(req.call.tool))

\* The pipeline's decision on a request, apart from faults and the monitor's
\* state: the facts a policy may rely on whatever the agent did before.
PolicyAllows(req) ==
    /\ IsPermitted(req.role, req.call.tool)
    /\ IsGuarded(req.call.tool) =>
         /\ AboveFloor(req)
         /\ InjectionScore(req) < Config.thresholds.injection_sanitize

\* A call of an unguarded tool that its role may make and is not trusted with: it
\* is isolated, unscored (enforcer.py:55-63).
SoftFailure(req) == HasCall(req) /\ PolicyCheck(req.role, req.call.tool) = "soft"

\* "SANITIZE can no longer return a live injection" (CHANGELOG.md:68): suspicious
\* content passes only scrubbed, and if nothing is identified in what is left.
ContentPasses(req) ==
    /\ ~HasCall(req)
    /\ InjectionScore(req) < Config.thresholds.injection_block
    /\ InjectionScore(req) >= Config.thresholds.injection_sanitize => ~StillInjected(req)

-----------------------------------------------------------------------------
\* Type invariant of the gateway's own state; the monitor's is TypeOK.
GatewayTypeOK ==
    /\ asked \in Seq(Requests) /\ Len(asked) <= MaxRequests
    /\ effect \in Seq(Effect) /\ Len(effect) = Len(asked)
    /\ answer \in Seq(Decision \cup {Pending}) /\ Len(answer) = Len(asked)
    /\ audited \in Seq(SUBSET AuditRecords) /\ Len(audited) = Len(asked)
    /\ counters \in [CounterKeys -> Nat]
    /\ job \in [Workers -> Job \cup {IdleJob}]
    /\ faults \in 0..MaxFaults

\* "a payload carrying a secret/PII pattern that leaves the box to an external
\* destination in protected mode" (SECURITY.md:32-33) never happens, whatever
\* the tool, the tier and the order of the workers.
NoLeak == Enforce => \A id \in Ids : ~effect[id].leaked

\* A call outside the RBAC matrix never runs; one "below the floor [...] is
\* blocked (or quarantined for medium)" (config.py:80-81): if it runs, its tool is
\* unguarded and it is isolated; and no guarded tool runs on a suspicious request
\* (enforcer.py:76-82).  That no call below its floor runs at all is NoRunBelowFloor.
RunsArePermitted ==
    Enforce => \A id \in Ids : effect[id].ran =>
        /\ PolicyAllows(asked[id])
        /\ AboveFloor(asked[id]) \/ effect[id].isolated

\* "injection_block: >= -> BLOCK outright" (config.py:168): no request that
\* scores that much runs its tool or passes its content, except that a call of an
\* unguarded tool below its trust floor is isolated before its score is read.
\* Wherever the role and trust tables leave such calls, that exception is real.
BlockWorthyRefused ==
    Enforce => \A id \in Ids :
        /\ InjectionScore(asked[id]) >= Config.thresholds.injection_block
        /\ ~SoftFailure(asked[id])
        => ~effect[id].ran /\ (Answered(id) => ~answer[id].allowed)

\* "a blocked attack can never train the baseline" (behavior.py:21-24): an
\* agent's baseline holds only tools it ran outside isolation, and counts no
\* more calls than such runs, however the workers interleave or fail.
BaselineFromRunsOnly ==
    \A a \in Agents :
        LET runs == {id \in Ids : /\ asked[id].agent = a
                                  /\ effect[id].ran /\ ~effect[id].isolated}
        IN  /\ profiles[a].seen_tools \subseteq {asked[id].call.tool : id \in runs}
            /\ profiles[a].total_calls <= Cardinality(runs)

\* Every blocked tool call reaches the agent's block history
\* (gateway.py:302-303): none is lost between the workers (with room in the
\* deque and the store, and no time-out of the profile).
BlocksRemembered ==
    \A a \in Agents :
        Len(profiles[a].block_times) >=
            Cardinality({id \in Ids : /\ asked[id].agent = a /\ HasCall(asked[id])
                                      /\ Answered(id) /\ ~answer[id].error
                                      /\ answer[id].verdict = "block"})

Count(P(_)) == Cardinality({id \in Ids : Answered(id) /\ P(answer[id])})

\* Whenever a snapshot is taken (telemetry.py:64-69), no total is behind its
\* parts: the counters are incremented one by one, total first.
TotalsCoverParts ==
    /\ counters["requests"] >=
         counters["verdict.allow"] + counters["verdict.sanitize"]
           + counters["verdict.quarantine"] + counters["verdict.block"]
    /\ counters["tool_calls"] >= counters["tool_executed"] + counters["tool_denied"]
    /\ counters["requests"] >= counters["tool_calls"]
    /\ counters["requests"] >= counters["would_block"]
    /\ counters["exfil_attempts"] >= counters["exfil_success"]

\* Once no request is in flight and none failed, the counters are exactly what
\* the returned decisions say (gateway.py:316-322, 256-259); until then no total
\* is behind its parts.
CountersMatchAnswers ==
    /\ TotalsCoverParts
    /\ Settled /\ faults = 0 =>
             /\ counters["requests"] = Len(asked)
             /\ counters["errors"] = 0
             /\ \A v \in Verdicts :
                  counters[VerdictKey(v)] = Count(LAMBDA d : d.verdict = v)
             /\ counters["would_block"] = Count(LAMBDA d : d.would_block)
             /\ counters["tool_executed"] = Count(LAMBDA d : d.executed)
             /\ counters["exfil_attempts"] = Count(LAMBDA d : d.attempt)
             /\ counters["exfil_success"] = Count(LAMBDA d : d.exfiltrated)

\* The audit trail holds one record per answered request, with the answer's
\* content; a record may only be missing when auditing an internal error itself
\* failed (gateway.py:283-287).
AuditMatchesAnswers ==
    \A id \in Ids : Answered(id) =>
        \/ audited[id] = {AuditRecord(answer[id])}
        \/ audited[id] = {} /\ answer[id].error

\* Telemetry.health from one snapshot of the counters.
Health ==
    LET total == counters["requests"] + counters["errors"]
    IN  [ok |-> counters["errors"] = 0, requests |-> counters["requests"],
         errors |-> counters["errors"], total |-> total]

\* "an orchestrator can surface a degraded guard rather than silently trusting
\* it" (telemetry.py:115-118): whenever health is read, every fail-closed answer
\* already shows, and no returned answer is missing from its totals.
HealthShowsErrors ==
    LET failed == Cardinality({id \in Ids : Answered(id) /\ answer[id].error})
    IN  /\ failed > 0 => ~Health.ok
        /\ Health.errors >= failed
        /\ Health.total >= Cardinality({id \in Ids : Answered(id)})

\* The gateway implements Guard in protected mode.  MayRun and MayPass are the
\* policy; a leak or an untruthful answer has no counterpart in Guard.
AbstractEffect ==
    [id \in Ids |-> CASE effect[id].leaked -> "leaked"
                      [] ~effect[id].leaked /\ effect[id].ran -> "ran"
                      [] OTHER -> "none"]

AbstractAnswer ==
    [id \in Ids |-> IF Answered(id)
                    THEN [allowed |-> answer[id].allowed,
                          executed |-> answer[id].executed,
                          error |-> answer[id].error]
                    ELSE [open |-> TRUE]]

G == INSTANCE Guard WITH MayRun <- PolicyAllows, MayPass <- ContentPasses,
                         effect <- AbstractEffect, answer <- AbstractAnswer

\* Protected mode implements the abstract guard: every step of every worker is
\* a step of Guard or invisible to it.
ImplementsGuard == G!Spec

\* "always returns a Decision" (gateway.py:67): a submitted request is answered,
\* by a decision of the pipeline or by the fail-closed one.
EveryRequestAnswered ==
    \A id \in 1..MaxRequests :
        (id <= Len(asked)) ~> (id <= Len(asked) /\ Answered(id))

-----------------------------------------------------------------------------
\* Monitor-only mode denies nothing it inspects (gateway.py:155-157): it runs
\* every tool call and passes every content within max_content_length.
MonitorRunsWhatItInspects ==
    ~Enforce => \A id \in Ids :
        Answered(id) /\ ~answer[id].error /\ ~Oversized(asked[id])
          => answer[id].allowed /\ (HasCall(asked[id]) => answer[id].executed)

\* A request that leaks in monitor-only mode, the mode in which an operator tries
\* the guard out, is reported as one enforcement would have blocked
\* (gateway.py:243-245), whatever the tier the call ran in.
MonitorFlagsLeaks ==
    ~Enforce => \A id \in Ids :
        Answered(id) /\ effect[id].leaked => answer[id].would_block

-----------------------------------------------------------------------------
(* Statements of the documentation that the code does not keep. *)

\* "would_block records whether enforcement would have blocked"
\* (types.py:205-207): an allowed call it does not flag passes the sandbox when
\* the tier and egress rules are enforced.
WouldBlockPredicts ==
    ~Enforce => \A id \in Ids :
        /\ Answered(id) /\ answer[id].executed
        /\ answer[id].verdict = "allow" /\ ~answer[id].would_block
        => ~Execute(answer[id].tier, asked[id].call, TRUE).blocked

\* "a tool call that violates the RBAC matrix or a trust floor but executes" is
\* out of the question (SECURITY.md:31): nothing runs below its floor, not even
\* isolated.
NoRunBelowFloor ==
    Enforce => \A id \in Ids : effect[id].ran => AboveFloor(asked[id])

\* "BLOCK -> refuse execution entirely" (types.py:42): the tool of a request
\* answered with BLOCK did not run.
BlockMeansRefused ==
    \A id \in Ids :
        Answered(id) /\ answer[id].verdict = "block" => ~effect[id].ran

\* "a sensitive read followed within a window by a risky egress" is a dangerous
\* sequence (behavior.py:12-13): a risky egress does not run once a sensitive read
\* of the same agent has run (the runs keep the clock within the window).
NoEgressAfterRead ==
    [][\A id \in Ids :
         /\ effect'[id].ran /\ ~effect[id].ran
         /\ IsRisky(asked[id].call)
         => ~\E other \in Ids : /\ asked[other].agent = asked[id].agent
                                /\ asked[other].call.tool \in SensitiveReads
                                /\ effect[other].ran]_allvars
=============================================================================
