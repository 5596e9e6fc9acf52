------------------------------- MODULE Gateway -------------------------------
(***************************************************************************)
(* aegis/gateway.py: worker threads (aprocess offloads each request to one)  *)
(* run requests through the pipeline sanitize, enforce, scrub, route,       *)
(* execute, commit, account, audit.  The workers share the behaviour        *)
(* monitor, the telemetry counters and the audit sink; the rest of a        *)
(* request's state is local to its worker (job).                            *)
(***************************************************************************)
EXTENDS Sandbox, Enforcement, BehaviorMonitor

CONSTANTS
    Enforce,        \* the gateway's enforce flag (FALSE: monitor-only)
    Requests,       \* the requests callers may submit
    MaxRequests,    \* bound on the requests of a behaviour
    MaxFaults       \* bound on the exceptions raised inside the pipeline

VARIABLES
    asked,      \* the requests submitted so far; a request id is an index
    effect,     \* what executing each request did to the outside world
    answer,     \* the Decision returned for each request, or Pending
    audited,    \* the audit records emitted for each request
    counters,   \* Telemetry._counters
    job,        \* what each worker is doing
    faults      \* exceptions raised so far

gvars == <<asked, effect, answer, audited, counters, job, faults>>
allvars == <<vars, gvars>>

Workers == Threads
Ids == 1..Len(asked)

-----------------------------------------------------------------------------
(* Requests.  A text is [over, model, rule]: whether it is longer than       *)
(* max_content_length, and the scores the classifier and the rules give it.  *)
(* An empty text scores zero.                                                *)

NoCall == [tool |-> "none", dests |-> {}, text_hosts |-> {}, secret |-> FALSE]
HasCall(req) == req.call # NoCall

Text == [over : BOOLEAN, model : Percent, rule : Percent]

\* AgentRequest: untrusted says the source is not the user's own message;
\* scrubbed is what IntentScrubber makes of the content, args the text of the
\* tool arguments.
Request ==
    [agent : Agents, role : STRING, untrusted : BOOLEAN, content : Text,
     scrubbed : Text, args : Text, call : Calls(Tools) \cup {NoCall}]

ASSUME GatewayAssumption ==
    /\ Enforce \in BOOLEAN
    /\ Requests \subseteq Request
    /\ MaxRequests \in Nat /\ MaxFaults \in Nat

\* SanitizationPipeline.inspect: the stronger view, nudged for borderline text
\* from a channel other than the user.
InspectText(text, untrusted) ==
    LET score == IF text.model >= text.rule THEN text.model ELSE text.rule
    IN  IF untrusted /\ score >= 30 /\ score < 85 THEN score + 5 ELSE score

ContentScore(req) == InspectText(req.content, req.untrusted)

\* Tool arguments are never inspected as user text.
InjectionScore(req) ==
    LET arg == InspectText(req.args, TRUE)
    IN  IF HasCall(req) /\ arg > ContentScore(req) THEN arg ELSE ContentScore(req)

Oversized(req) == req.content.over \/ (HasCall(req) /\ req.args.over)

\* The scrubbed content still carries an identified injection.
StillInjected(req) ==
    \/ InspectText(req.scrubbed, req.untrusted) >= Config.thresholds.injection_block
    \/ req.scrubbed.rule >= Config.thresholds.injection_sanitize

\* Mutant: what the scrubber leaves is not inspected again.
TrustsScrubber(req, verdict) == verdict = "block"

Refused(req, verdict) ==
    verdict = "block" \/ (verdict = "sanitize" /\ StillInjected(req))

-----------------------------------------------------------------------------
(* Decisions and jobs *)

NoTier == "none"
Pending == [pending |-> TRUE]

Decision ==
    [verdict : Verdicts, allowed : BOOLEAN, executed : BOOLEAN,
     tier : Tiers \cup {NoTier}, would_block : BOOLEAN, scrubbed : BOOLEAN,
     attempt : BOOLEAN, exfiltrated : BOOLEAN, error : BOOLEAN]

Undecided ==
    [verdict |-> "allow", allowed |-> FALSE, executed |-> FALSE, tier |-> NoTier,
     would_block |-> FALSE, scrubbed |-> FALSE, attempt |-> FALSE,
     exfiltrated |-> FALSE, error |-> FALSE]

\* Mutant: an internal error lets the request pass.
FailOpenDecision == [Undecided EXCEPT !.allowed = TRUE, !.error = TRUE]

FailClosedDecision ==
    [Undecided EXCEPT !.verdict = "block", !.would_block = TRUE, !.error = TRUE]

\* audit.decision_record: the fields of a decision the audit trail shows.
AuditRecords ==
    [verdict : Verdicts, allowed : BOOLEAN, executed : BOOLEAN,
     tier : Tiers \cup {NoTier}, attempt : BOOLEAN, exfil_blocked : BOOLEAN,
     error : BOOLEAN]

AuditRecord(dec) ==
    [verdict |-> dec.verdict, allowed |-> dec.allowed, executed |-> dec.executed,
     tier |-> dec.tier, attempt |-> dec.attempt,
     exfil_blocked |-> dec.attempt /\ ~dec.exfiltrated, error |-> dec.error]

\* What executing a request did: its tool ran, in forced isolation, and secret
\* bytes reached an external host.
Effect == [ran : BOOLEAN, isolated : BOOLEAN, leaked : BOOLEAN]

NoEffect == [ran |-> FALSE, isolated |-> FALSE, leaked |-> FALSE]

CounterKeys ==
    {"requests", "verdict.allow", "verdict.sanitize", "verdict.quarantine",
     "verdict.block", "would_block", "tool_calls", "tool_executed", "tool_denied",
     "errors", "exfil_attempts", "exfil_success"}

\* Mutant: the key without its prefix.
BareKey(verdict) == verdict

VerdictKey(verdict) ==
    CASE verdict = "allow" -> "verdict.allow"
      [] verdict = "sanitize" -> "verdict.sanitize"
      [] verdict = "quarantine" -> "verdict.quarantine"
      [] verdict = "block" -> "verdict.block"

When(cond, keys) == IF cond THEN keys ELSE <<>>

\* Mutant: the verdict is counted before the request.
VerdictFirst(req, dec) ==
    <<VerdictKey(dec.verdict), "requests">>
      \o When(dec.would_block, <<"would_block">>)
      \o When(HasCall(req),
              <<"tool_calls", IF dec.executed THEN "tool_executed" ELSE "tool_denied">>)

\* The increments of _finalize, in the order of the code.
FinalizeKeys(req, dec) ==
    <<"requests", VerdictKey(dec.verdict)>>
      \o When(dec.would_block, <<"would_block">>)
      \o When(HasCall(req),
              <<"tool_calls", IF dec.executed THEN "tool_executed" ELSE "tool_denied">>)

\* The increments _process makes once _finalize has returned.
ExfilKeys(dec) ==
    When(dec.attempt, <<"exfil_attempts">>
                        \o When(dec.exfiltrated, <<"exfil_success">>))

Stages == {"sanitize", "enforce", "observe", "judge", "resolve", "execute",
           "commit", "locked", "account", "emit", "count_exfil", "fail_closed"}

IdleJob == [stage |-> "idle"]

\* A worker in the pipeline: keep is the anomaly outcome (1 - keep/Scale), force
\* the outcome's force_min_isolation, todo the counters still to increment.
Job ==
    [stage : Stages, id : Ids, keep : Nat, force : BOOLEAN, dec : Decision,
     todo : Seq(CounterKeys)]

At(w, stage) == job[w].stage = stage
Req(w) == asked[job[w].id]

Goto(w, j, stage) == job' = [job EXCEPT ![w] = [j EXCEPT !.stage = stage]]

World == <<asked, effect>>                      \* callers and tools
Record == <<answer, audited, counters>>         \* what the gateway reports

-----------------------------------------------------------------------------
(* The pipeline *)

\* process is called with a request.
Submit(w, req) ==
    /\ job[w] = IdleJob
    /\ Len(asked) < MaxRequests
    /\ asked' = Append(asked, req)
    /\ effect' = Append(effect, NoEffect)
    /\ answer' = Append(answer, Pending)
    /\ audited' = Append(audited, {})
    /\ job' = [job EXCEPT ![w] =
                 [stage |-> "sanitize", id |-> Len(asked) + 1, keep |-> Scale,
                  force |-> FALSE, dec |-> Undecided, todo |-> <<>>]]
    /\ UNCHANGED <<vars, counters, faults>>

\* Oversized content or arguments are blocked without being inspected.
Sanitize(w) ==
    LET j == job[w]
    IN  /\ At(w, "sanitize")
        /\ IF Oversized(Req(w))
           THEN Goto(w, [j EXCEPT !.dec.verdict = "block",
                                  !.dec.would_block = TRUE], "commit")
           ELSE Goto(w, j, "enforce")
        /\ UNCHANGED <<vars, World, Record, faults>>

\* PolicyEnforcementPoint.evaluate up to its call of the behaviour monitor.
EnforcePolicy(w) ==
    LET j == job[w]
        req == Req(w)
        check == PolicyCheck(req.role, req.call.tool)
        Settle(verdict, force) ==
            /\ Goto(w, [j EXCEPT !.dec.verdict = verdict, !.force = force], "resolve")
            /\ UNCHANGED vars
    IN  /\ At(w, "enforce")
        /\ \/ ~HasCall(req) /\ Settle(JudgeContent(InjectionScore(req)), FALSE)
           \/ HasCall(req) /\ check = "hard" /\ Settle("block", FALSE)
           \/ HasCall(req) /\ check = "soft" /\ Settle("quarantine", TRUE)
           \/ /\ HasCall(req) /\ check = "ok"
              /\ CallObserve(w, req.agent, req.call.tool, IsRisky(req.call))
              /\ Goto(w, j, "observe")
        /\ UNCHANGED <<World, Record, faults>>

ObserveAttempt(w) ==
    /\ At(w, "observe")
    /\ Observe(w)
    /\ Goto(w, job[w], "judge")
    /\ UNCHANGED <<World, Record, faults>>

\* The rest of evaluate, with the anomaly score observe returned.
JudgeAttempt(w) ==
    LET j == job[w]
        verdict == Judge(Req(w).call.tool, InjectionScore(Req(w)), op[w].keep, Scale)
    IN  /\ At(w, "judge")
        /\ Goto(w, [j EXCEPT !.keep = op[w].keep, !.dec.verdict = verdict,
                             !.force = verdict = "quarantine"], "resolve")
        /\ UNCHANGED <<vars, World, Record, faults>>

(***************************************************************************)
(* Monitor-only mode turns a BLOCK into an ALLOW; a SANITIZE verdict scrubs *)
(* the content and inspects it again; a BLOCK, or a request without a tool  *)
(* call, ends here.                                                         *)
(***************************************************************************)
Resolve(w) ==
    LET j == job[w]
        req == Req(w)
        scrub == j.dec.verdict = "sanitize"
        denied == Refused(req, j.dec.verdict)
        verdict == CASE denied -> IF Enforce THEN "block" ELSE "allow"
                     [] scrub /\ ~denied -> "allow"
                     [] OTHER -> j.dec.verdict
        ends == verdict = "block" \/ ~HasCall(req)
    IN  /\ At(w, "resolve")
        /\ Goto(w, [j EXCEPT !.dec.verdict = verdict,
                             !.dec.would_block = denied,
                             !.dec.scrubbed = scrub,
                             !.dec.allowed = ends /\ verdict # "block"],
                IF ends THEN "commit" ELSE "execute")
        /\ UNCHANGED <<vars, World, Record, faults>>

\* Routing, then the executor: the only step that touches the outside world.
RouteAndExecute(w) ==
    LET j == job[w]
        req == Req(w)
        isolate == j.force \/ j.dec.verdict = "quarantine"
        tier == Route(req.role, req.call.tool, InjectionScore(req), j.keep, Scale, isolate)
        out == Execute(tier, req.call, Enforce)
        verdict == IF out.blocked /\ j.dec.verdict # "quarantine" THEN "block"
                                                              ELSE j.dec.verdict
    IN  /\ At(w, "execute")
        /\ effect' = [effect EXCEPT ![j.id] =
                        [ran |-> ~out.blocked, isolated |-> isolate,
                         leaked |-> out.exfiltrated]]
        /\ Goto(w, [j EXCEPT !.dec =
                       [j.dec EXCEPT !.verdict = verdict,
                                     !.allowed = ~out.blocked,
                                     !.executed = ~out.blocked,
                                     !.tier = tier,
                                     !.would_block = j.dec.would_block \/ out.attempt,
                                     !.attempt = out.attempt,
                                     !.exfiltrated = out.exfiltrated]], "commit")
        /\ UNCHANGED <<vars, asked, Record, faults>>

-----------------------------------------------------------------------------
(* _finalize *)

\* Mutant: an isolated run teaches the baseline.
LearnsIsolated(req, dec) ==
    CASE HasCall(req) /\ dec.verdict = "block" -> "block"
      [] HasCall(req) /\ dec.verdict # "block" /\ dec.executed -> "allow"
      [] OTHER -> "nothing"

\* Mutant: a block by the sandbox is not reported.
ForgetsSandbox(req, dec) ==
    CASE HasCall(req) /\ dec.verdict = "block" /\ dec.tier = NoTier -> "block"
      [] HasCall(req) /\ dec.verdict = "allow" /\ dec.executed -> "allow"
      [] OTHER -> "nothing"

\* What _commit_behaviour tells the monitor about a decision.
CommitKind(req, dec) ==
    CASE HasCall(req) /\ dec.verdict = "block" -> "block"
      [] HasCall(req) /\ dec.verdict \in {"allow", "sanitize"} /\ dec.executed -> "allow"
      [] /\ HasCall(req) /\ dec.verdict = "quarantine" /\ dec.executed
         /\ req.call.tool \in SensitiveReads -> "quarantined"
      [] OTHER -> "nothing"

CommitBehaviour(w) ==
    LET j == job[w]
        req == Req(w)
        kind == CommitKind(req, j.dec)
        counting == [j EXCEPT !.todo = FinalizeKeys(req, j.dec)]
        tool == req.call.tool
    IN  /\ At(w, "commit")
        /\ \/ kind = "nothing" /\ UNCHANGED vars
           \/ kind = "block" /\ CallRecordBlock(w, req.agent, tool)
           \/ kind = "allow" /\ CallRecordAllow(w, req.agent, tool)
           \/ kind = "quarantined" /\ CallRecordQuarantined(w, req.agent, tool)
        /\ Goto(w, counting, IF kind = "nothing" THEN "account" ELSE "locked")
        /\ UNCHANGED <<World, Record, faults>>

CommitLocked(w) ==
    /\ At(w, "locked")
    /\ RecordBlock(w) \/ RecordAllow(w) \/ RecordQuarantined(w)
    /\ Goto(w, job[w], "account")
    /\ UNCHANGED <<World, Record, faults>>

\* One Telemetry.incr: each takes the counter lock on its own.
Incr(w, stage, next) ==
    LET j == job[w]
        rest == [j EXCEPT !.todo = Tail(j.todo)]
    IN  /\ At(w, stage) /\ j.todo # <<>>
        /\ counters' = [counters EXCEPT ![Head(j.todo)] = @ + 1]
        /\ Goto(w, rest, IF rest.todo = <<>> THEN next ELSE stage)
        /\ UNCHANGED <<vars, World, answer, audited, faults>>

Account(w) == Incr(w, "account", "emit")

\* Mutant: only denials are audited.
EmitDenial(w) ==
    LET j == job[w]
    IN  /\ At(w, "emit")
        /\ audited' = IF j.dec.allowed THEN audited
                      ELSE [audited EXCEPT ![j.id] = @ \cup {AuditRecord(j.dec)}]
        /\ Goto(w, [j EXCEPT !.todo = ExfilKeys(j.dec)], "count_exfil")
        /\ UNCHANGED <<vars, World, answer, counters, faults>>

\* The Decision is built and its record emitted.
Emit(w) ==
    LET j == job[w]
    IN  /\ At(w, "emit")
        /\ audited' = [audited EXCEPT ![j.id] = @ \cup {AuditRecord(j.dec)}]
        /\ Goto(w, [j EXCEPT !.todo = ExfilKeys(j.dec)], "count_exfil")
        /\ UNCHANGED <<vars, World, answer, counters, faults>>

CountExfil(w) == Incr(w, "count_exfil", "count_exfil")

Conclude(w, dec) ==
    /\ answer' = [answer EXCEPT ![job[w].id] = dec]
    /\ job' = [job EXCEPT ![w] = IdleJob]

Return(w) ==
    /\ At(w, "count_exfil") /\ job[w].todo = <<>>
    /\ Conclude(w, job[w].dec)
    /\ UNCHANGED <<vars, World, audited, counters, faults>>

-----------------------------------------------------------------------------
(* _fail_closed *)

\* Stages that call a component which may raise.
RaisingStages == {"sanitize", "enforce", "resolve", "execute", "commit", "emit"}

Raise(w) ==
    /\ job[w].stage \in RaisingStages
    /\ faults < MaxFaults
    /\ faults' = faults + 1
    /\ Goto(w, job[w], "fail_closed")
    /\ UNCHANGED <<vars, World, Record>>

\* Mutant: an exception while auditing escapes, and the caller gets no decision.
AuditErrorEscapes(w) ==
    LET id == job[w].id
    IN  /\ At(w, "fail_closed")
        /\ counters' = [counters EXCEPT !["errors"] = @ + 1]
        /\ \/ /\ audited' = [audited EXCEPT ![id] = @ \cup {AuditRecord(FailClosedDecision)}]
              /\ Conclude(w, FailClosedDecision)
              /\ UNCHANGED faults
           \/ /\ faults < MaxFaults
              /\ faults' = faults + 1
              /\ job' = [job EXCEPT ![w] = IdleJob]
              /\ UNCHANGED <<answer, audited>>
        /\ UNCHANGED <<vars, World>>

\* Mutant: an error is counted only if it could be audited.
CountsAudited(w) ==
    LET id == job[w].id
    IN  /\ At(w, "fail_closed")
        /\ \/ /\ audited' = [audited EXCEPT ![id] = @ \cup {AuditRecord(FailClosedDecision)}]
              /\ counters' = [counters EXCEPT !["errors"] = @ + 1]
              /\ UNCHANGED faults
           \/ /\ faults < MaxFaults
              /\ faults' = faults + 1
              /\ UNCHANGED <<audited, counters>>
        /\ Conclude(w, FailClosedDecision)
        /\ UNCHANGED <<vars, World>>

\* The error is counted and audited; an exception while auditing is swallowed.
FailClosed(w) ==
    LET id == job[w].id
    IN  /\ At(w, "fail_closed")
        /\ counters' = [counters EXCEPT !["errors"] = @ + 1]
        /\ \/ /\ audited' = [audited EXCEPT ![id] = @ \cup {AuditRecord(FailClosedDecision)}]
              /\ UNCHANGED faults
           \/ /\ faults < MaxFaults
              /\ faults' = faults + 1
              /\ UNCHANGED audited
        /\ Conclude(w, FailClosedDecision)
        /\ UNCHANGED <<vars, World>>

-----------------------------------------------------------------------------
GInit ==
    /\ Init
    /\ asked = <<>> /\ effect = <<>> /\ answer = <<>> /\ audited = <<>>
    /\ counters = [key \in CounterKeys |-> 0]
    /\ job = [w \in Workers |-> IdleJob]
    /\ faults = 0

Step(w) ==
    \/ Sanitize(w) \/ EnforcePolicy(w) \/ ObserveAttempt(w) \/ JudgeAttempt(w)
    \/ Resolve(w) \/ RouteAndExecute(w) \/ CommitBehaviour(w) \/ CommitLocked(w)
    \/ Account(w) \/ Emit(w) \/ CountExfil(w) \/ Return(w) \/ FailClosed(w)

GTick == Tick /\ UNCHANGED gvars

GNext ==
    \/ GTick
    \/ \E w \in Workers : \/ \E req \in Requests : Submit(w, req)
                          \/ Step(w)
                          \/ Raise(w)

GSpec == GInit /\ [][GNext]_allvars

\* A worker that runs is scheduled and its locks are free again: it goes on.
FairGSpec == GSpec /\ \A w \in Workers : WF_allvars(Step(w))
=============================================================================
