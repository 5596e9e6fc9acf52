---------------------------- MODULE GatewayProofs ----------------------------
(***************************************************************************)
(* The gateway's guarantees for every configuration, set of requests,       *)
(* number of workers and bound on the faults.  The first half follows a      *)
(* request to its execution: types, leaks, the policy.  The second follows    *)
(* it to its answer, whatever the other workers do: the answer is truthful,   *)
(* its record is the answer's, the counters add the answers up, and the       *)
(* monitor's profiles hold what the requests did.                             *)
(***************************************************************************)
EXTENDS GatewayProperties, BehaviorMonitorProofs

-----------------------------------------------------------------------------
(* The sandbox: what the egress filter, the executor and the router guarantee *)

\* A permitted call carries no secret to an external host: whichever rule of
\* EgressFilter.inspect permits it, the executor's ground truth agrees.
LEMMA PermittedCallDoesNotLeak ==
    ASSUME NEW tier, NEW call, Inspect(tier, call).allowed
    PROVE  ~GroundTruthExfil(call)
<1>1. CASE IsEgressTool(call.tool)
  <2>1. Inspect(tier, call) = InspectEgressTool(tier, call)
    BY <1>1 DEF Inspect
  <2>2. ~(call.secret /\ External(call.dests) # {})
    BY <2>1 DEF InspectEgressTool, Denied, Permitted
  <2> QED BY <1>1, <2>2 DEF GroundTruthExfil
<1>2. CASE ~IsEgressTool(call.tool)
  <2>1. Inspect(tier, call) = InspectOtherTool(call)
    BY <1>2 DEF Inspect
  <2>2. ~(call.secret /\ External(call.text_hosts) # {})
    BY <2>1 DEF InspectOtherTool, Denied, Permitted
  <2> QED BY <1>2, <2>2 DEF GroundTruthExfil
<1> QED BY <1>1, <1>2

\* In protected mode (enforce_egress) no execution leaks a secret
\* (executor.py:104-133), whatever tier the router chose.
THEOREM ProtectedExecutionNeverLeaks ==
    \A tier, call : ~Execute(tier, call, TRUE).exfiltrated
<1> SUFFICES ASSUME NEW tier, NEW call
             PROVE  ~Execute(tier, call, TRUE).exfiltrated
  OBVIOUS
<1>1. CASE ~TierPermits(tier, call.tool)
  BY <1>1 DEF Execute
<1>2. CASE TierPermits(tier, call.tool) /\ ~Inspect(tier, call).allowed
  BY <1>2 DEF Execute
<1>3. CASE TierPermits(tier, call.tool) /\ Inspect(tier, call).allowed
  BY <1>3, PermittedCallDoesNotLeak DEF Execute
<1> QED BY <1>1, <1>2, <1>3

\* A tier without egress executes no egress tool (egress.py:270-277): isolating
\* a call (force_min_isolation) is enough to keep it off the network.
THEOREM NoNetTierBlocksEgress ==
    ASSUME NEW call, NEW tier,
           IsEgressTool(call.tool), Config.tier_caps[tier].egress = "none"
    PROVE  Execute(tier, call, TRUE).blocked
<1>1. ~Inspect(tier, call).allowed
  BY DEF Inspect, InspectEgressTool, Denied
<1> QED BY <1>1 DEF Execute

\* The router never grants more than the role's trust does, and isolates a
\* forced call (router.py:54-88).
THEOREM RouteRespectsTrust ==
    ASSUME NEW role, NEW tool, NEW injection \in Percent, NEW keep \in Nat,
           NEW scale \in Nat, NEW force \in BOOLEAN
    PROVE  LET tier == Route(role, tool, injection, keep, scale, force)
           IN  /\ tier \in Tiers
               /\ Rank[tier] <= Rank[TrustTier(Trust(role))]
               /\ force => tier = "no_net"
<1> DEFINE trusted == TrustTier(Trust(role))
<1>1. Trust(role) \in Percent
  BY ConfigIsValid DEF Trust, Validate, Percent
<1>2. trusted \in Tiers
  BY <1>1 DEF TrustTier, Tiers, Percent
<1>3. BaseTier(role, tool) \in Tiers /\ Rank[BaseTier(role, tool)] <= Rank[trusted]
  BY <1>2 DEF BaseTier, MinTier, Rank, Tiers
<1>4. MinTier(BaseTier(role, tool), "read_only") \in Tiers
      /\ Rank[MinTier(BaseTier(role, tool), "read_only")] <= Rank[trusted]
  BY <1>2, <1>3 DEF MinTier, Rank, Tiers
<1>5. "no_net" \in Tiers /\ Rank["no_net"] <= Rank[trusted]
  BY <1>2 DEF Rank, Tiers
<1> QED BY <1>3, <1>4, <1>5 DEF Route

-----------------------------------------------------------------------------
(* Types of the operators the pipeline is built from *)

LEMMA InspectTextType ==
    ASSUME NEW text \in Text, NEW untrusted \in BOOLEAN
    PROVE  InspectText(text, untrusted) \in Percent
BY DEF InspectText, Text, Percent

LEMMA InjectionScoreType ==
    ASSUME NEW req \in Requests
    PROVE  InjectionScore(req) \in Percent
<1>1. req.content \in Text /\ req.args \in Text /\ req.untrusted \in BOOLEAN
  BY GatewayAssumption DEF Request
<1>2. ContentScore(req) \in Percent /\ InspectText(req.args, TRUE) \in Percent
  BY <1>1, InspectTextType DEF ContentScore
<1> QED BY <1>2 DEF InjectionScore

LEMMA CallType ==
    ASSUME NEW req \in Requests
    PROVE  /\ req.agent \in Agents
           /\ req.call.secret \in BOOLEAN
           /\ HasCall(req) => req.call.tool \in Tools
<1>1. req.agent \in Agents /\ req.call \in Calls(Tools) \cup {NoCall}
  BY GatewayAssumption DEF Request
<1>2. CASE req.call = NoCall
  BY <1>1, <1>2 DEF NoCall, HasCall
<1>3. CASE req.call \in Calls(Tools)
  BY <1>1, <1>3 DEF Calls
<1> QED BY <1>1, <1>2, <1>3

LEMMA ThresholdFacts ==
    /\ Config.thresholds.injection_block \in Percent
    /\ Config.thresholds.injection_sanitize \in Percent
    /\ Config.thresholds.injection_sanitize <= Config.thresholds.injection_block
BY ConfigIsValid DEF Validate, ThresholdsValid

LEMMA ExecuteType ==
    ASSUME NEW tier, NEW call, call.secret \in BOOLEAN, NEW enforce \in BOOLEAN
    PROVE  Execute(tier, call, enforce) \in ExecOutcome
<1>1. Inspect(tier, call).exfil \in BOOLEAN
  BY DEF Inspect, InspectEgressTool, InspectOtherTool, Permitted, Denied
<1>2. GroundTruthExfil(call) \in BOOLEAN
  BY DEF GroundTruthExfil
<1> QED BY <1>1, <1>2 DEF Execute, ExecOutcome

-----------------------------------------------------------------------------
(* The gateway uses the monitor as its specification says *)

\* What a worker in the pipeline works on.
LEMMA JobFacts ==
    ASSUME GatewayTypeOK, NEW w \in Workers, job[w].stage \in Stages
    PROVE  /\ job[w] \in Job
           /\ job[w].id \in Ids
           /\ Req(w) \in Requests
<1>1. job[w] \in Job \cup {IdleJob}
  BY DEF GatewayTypeOK
<1>2. job[w] # IdleJob
  BY DEF IdleJob, Stages
<1>3. job[w] \in Job /\ job[w].id \in Ids
  BY <1>1, <1>2 DEF Job
<1> QED BY <1>3 DEF GatewayTypeOK, Ids, Req

LEMMA GatewayStepIsMonitorStep ==
    ASSUME GatewayTypeOK, [GNext]_allvars
    PROVE  [Next]_vars
<1>1. CASE GTick
  BY <1>1 DEF GTick, Next
<1>2. ASSUME NEW w \in Workers, NEW req \in Requests, Submit(w, req)
      PROVE  [Next]_vars
  BY <1>2 DEF Submit
<1>3. ASSUME NEW w \in Workers, Raise(w)
      PROVE  [Next]_vars
  BY <1>3 DEF Raise
<1>4. ASSUME NEW w \in Workers, Step(w)
      PROVE  [Next]_vars
  <2>1. CASE EnforcePolicy(w)
    <3>1. Req(w) \in Requests
      BY <2>1, JobFacts DEF EnforcePolicy, At, Stages
    <3>2. \/ UNCHANGED vars
          \/ /\ HasCall(Req(w))
             /\ CallObserve(w, Req(w).agent, Req(w).call.tool, IsRisky(Req(w).call))
      BY <2>1 DEF EnforcePolicy
    <3>3. IsRisky(Req(w).call) \in BOOLEAN
          /\ (IsRisky(Req(w).call) => IsEgressTool(Req(w).call.tool))
      BY DEF IsRisky
    <3>4. CASE /\ HasCall(Req(w))
               /\ CallObserve(w, Req(w).agent, Req(w).call.tool, IsRisky(Req(w).call))
      <4>1. Call(w)
        BY <3>1, <3>3, <3>4, CallType DEF Call
      <4> QED BY <4>1 DEF Next, Workers
    <3> QED BY <3>2, <3>4
  <2>2. CASE ObserveAttempt(w)
    BY <2>2 DEF ObserveAttempt, Next, Locked, Workers
  <2>3. CASE CommitBehaviour(w)
    <3>1. Req(w) \in Requests
      BY <2>3, JobFacts DEF CommitBehaviour, At, Stages
    <3> DEFINE req == Req(w)
               kind == CommitKind(req, job[w].dec)
    <3>2. \/ UNCHANGED vars
          \/ kind = "block" /\ CallRecordBlock(w, req.agent, req.call.tool)
          \/ kind = "allow" /\ CallRecordAllow(w, req.agent, req.call.tool)
          \/ kind = "quarantined" /\ CallRecordQuarantined(w, req.agent, req.call.tool)
      BY <2>3 DEF CommitBehaviour
    <3>3. kind \in {"block", "allow", "quarantined"} => HasCall(req)
      BY DEF CommitKind
    <3> HIDE DEF req, kind
    <3>4. CASE ~UNCHANGED vars
      <4>1. req.agent \in Agents /\ req.call.tool \in Tools
        BY <3>1, <3>2, <3>3, <3>4, CallType DEF req
      <4>2. Call(w)
        BY SMTT(60), <3>2, <3>4, <4>1 DEF Call
      <4> QED BY <4>2 DEF Next, Workers
    <3> QED BY <3>4
  <2>4. CASE CommitLocked(w)
    BY SMTT(60), <2>4 DEF CommitLocked, Next, Locked, Workers
  <2>5. CASE \/ Sanitize(w) \/ JudgeAttempt(w) \/ Resolve(w) \/ RouteAndExecute(w)
             \/ Account(w) \/ Emit(w) \/ CountExfil(w) \/ Return(w) \/ FailClosed(w)
    BY <2>5 DEF Sanitize, JudgeAttempt, Resolve, RouteAndExecute, Account, Emit,
                CountExfil, Incr, Return, FailClosed
  <2> QED BY <1>4, <2>1, <2>2, <2>3, <2>4, <2>5 DEF Step
<1>5. CASE UNCHANGED allvars
  BY <1>5 DEF allvars
<1> QED BY <1>1, <1>2, <1>3, <1>4, <1>5 DEF GNext

-----------------------------------------------------------------------------
(* Type correctness of the gateway *)

\* Between the monitor and the pipeline: a worker is inside an operation of the
\* monitor exactly in the two stages that call one.
OpMatchesJob ==
    \A w \in Workers :
        /\ job[w].stage = "observe" => op[w].kind = "observe"
        /\ job[w].stage = "locked" => op[w].kind \in {"allow", "quarantined", "block"}
        /\ job[w].stage \notin {"observe", "locked"} => op[w].kind = "idle"

\* The inductive invariant behind the types.
TypeInv == TypeOK /\ StoreBounded /\ GatewayTypeOK /\ OpMatchesJob

\* A step that moves one worker on and touches neither the effects nor the
\* answers keeps the types.
LEMMA MoveType ==
    ASSUME GatewayTypeOK, NEW w \in Workers, NEW x \in Job \cup {IdleJob},
           job' = [job EXCEPT ![w] = x], UNCHANGED asked
    PROVE  job' \in [Workers -> (Job \cup {IdleJob})'] /\ Ids' = Ids
BY DEF GatewayTypeOK, Job, Ids

LEMMA GotoType ==
    ASSUME NEW j \in Job, NEW stage \in Stages
    PROVE  [j EXCEPT !.stage = stage] \in Job
BY DEF Job

LEMMA DecideType ==
    ASSUME NEW j \in Job, NEW d \in Decision, NEW keep \in Nat, NEW force \in BOOLEAN
    PROVE  [j EXCEPT !.keep = keep, !.force = force, !.dec = d] \in Job
BY DEF Job

LEMMA SubmitType ==
    ASSUME GatewayTypeOK, NEW w \in Workers, NEW req \in Requests, Submit(w, req)
    PROVE  GatewayTypeOK'
<1>1. asked' \in Seq(Requests) /\ Len(asked') = Len(asked) + 1 /\ Len(asked') <= MaxRequests
  BY GatewayAssumption DEF Submit, GatewayTypeOK
<1>2. effect' \in Seq(Effect) /\ Len(effect') = Len(asked')
  BY <1>1 DEF Submit, GatewayTypeOK, Effect, NoEffect
<1>3. answer' \in Seq(Decision \cup {Pending}) /\ Len(answer') = Len(asked')
  BY <1>1 DEF Submit, GatewayTypeOK
<1>4. audited' \in Seq(SUBSET AuditRecords) /\ Len(audited') = Len(asked')
  BY <1>1 DEF Submit, GatewayTypeOK
<1> DEFINE x == [stage |-> "sanitize", id |-> Len(asked) + 1, keep |-> Scale,
                 force |-> FALSE, dec |-> Undecided, todo |-> <<>>]
<1>5. Undecided \in Decision
  BY DEF Undecided, Decision, Verdicts
<1>6. x \in Job'
  BY <1>1, <1>5, ScaleType DEF Job, Ids, Stages, GatewayTypeOK
<1>7. Job \subseteq Job'
  BY <1>1 DEF Job, Ids, GatewayTypeOK
<1>8. job' = [job EXCEPT ![w] = x]
  BY DEF Submit
<1> HIDE DEF x
<1>9. job' \in [Workers -> (Job \cup {IdleJob})']
  BY <1>6, <1>7, <1>8 DEF GatewayTypeOK, IdleJob
<1> QED BY <1>1, <1>2, <1>3, <1>4, <1>9 DEF Submit, GatewayTypeOK

\* A step that only moves a worker on (the monitor's variables apart).
LEMMA MoveOnlyType ==
    ASSUME GatewayTypeOK, NEW w \in Workers, NEW x \in Job \cup {IdleJob},
           job' = [job EXCEPT ![w] = x],
           UNCHANGED <<asked, effect, answer, audited, counters, faults>>
    PROVE  GatewayTypeOK'
<1>1. job' \in [Workers -> (Job \cup {IdleJob})']
  BY MoveType
<1> QED BY <1>1 DEF GatewayTypeOK

LEMMA SanitizeType ==
    ASSUME GatewayTypeOK, NEW w \in Workers, Sanitize(w)
    PROVE  GatewayTypeOK'
<1> DEFINE j == job[w]
           blocked == [j.dec EXCEPT !.verdict = "block", !.would_block = TRUE]
<1>1. j \in Job
  BY JobFacts DEF Sanitize, At, Stages
<1>2. j.dec \in Decision
  BY <1>1 DEF Job
<1>3. blocked \in Decision
  BY <1>2 DEF Decision, Verdicts
<1>4. [j EXCEPT !.dec = blocked] \in Job
  BY <1>1, <1>3 DEF Job
<1>5. PICK x \in Job : job' = [job EXCEPT ![w] = x]
  <2>1. CASE Oversized(Req(w))
    <3>1. job' = [job EXCEPT ![w] = [[j EXCEPT !.dec = blocked] EXCEPT !.stage = "commit"]]
      BY <2>1 DEF Sanitize, Goto
    <3> HIDE DEF j, blocked
    <3> QED BY <1>4, <3>1, GotoType DEF Stages
  <2>2. CASE ~Oversized(Req(w))
    <3>1. job' = [job EXCEPT ![w] = [j EXCEPT !.stage = "enforce"]]
      BY <2>2 DEF Sanitize, Goto
    <3> QED BY <1>1, <3>1, GotoType DEF Stages
  <2> QED BY <2>1, <2>2
<1> QED BY <1>5, MoveOnlyType DEF Sanitize, World, Record

LEMMA EnforcePolicyType ==
    ASSUME GatewayTypeOK, NEW w \in Workers, EnforcePolicy(w)
    PROVE  GatewayTypeOK'
<1> DEFINE j == job[w]
           req == Req(w)
           Settles(verdict, force) ==
               job' = [job EXCEPT ![w] =
                 [[j EXCEPT !.dec.verdict = verdict, !.force = force]
                    EXCEPT !.stage = "resolve"]]
<1>1. j \in Job
  BY JobFacts DEF EnforcePolicy, At, Stages
<1>2. ASSUME NEW verdict \in Verdicts, NEW force \in BOOLEAN
      PROVE  [j EXCEPT !.dec.verdict = verdict, !.force = force] \in Job
  <2>1. [j.dec EXCEPT !.verdict = verdict] \in Decision
    BY <1>1 DEF Job, Decision
  <2> QED BY ZenonT(60), <1>1, <2>1 DEF Job
<1>3. JudgeContent(InjectionScore(req)) \in Verdicts
  BY SMTT(60) DEF JudgeContent, Verdicts
<1>4. \/ \E verdict \in Verdicts, force \in BOOLEAN : Settles(verdict, force)
      \/ job' = [job EXCEPT ![w] = [j EXCEPT !.stage = "observe"]]
  BY ZenonT(60), <1>3 DEF EnforcePolicy, Goto, Verdicts
<1>5. PICK x \in Job : job' = [job EXCEPT ![w] = x]
  <2> HIDE DEF j
  <2> QED BY <1>1, <1>2, <1>4, GotoType DEF Stages
<1> QED BY <1>5, MoveOnlyType DEF EnforcePolicy, World, Record

LEMMA ObserveAttemptType ==
    ASSUME GatewayTypeOK, NEW w \in Workers, ObserveAttempt(w)
    PROVE  GatewayTypeOK'
<1>1. job[w] \in Job
  BY JobFacts DEF ObserveAttempt, At, Stages
<1>2. [job[w] EXCEPT !.stage = "judge"] \in Job
  BY <1>1, GotoType DEF Stages
<1> QED BY <1>2, MoveOnlyType DEF ObserveAttempt, Goto, World, Record

LEMMA JudgeAttemptType ==
    ASSUME TypeInv, NEW w \in Workers, JudgeAttempt(w)
    PROVE  GatewayTypeOK'
<1> DEFINE j == job[w]
           verdict == Judge(Req(w).call.tool, InjectionScore(Req(w)), op[w].keep, Scale)
           force == verdict = "quarantine"
           dec == [j.dec EXCEPT !.verdict = verdict]
           x == [j EXCEPT !.keep = op[w].keep, !.force = force, !.dec = dec]
<1>1. j \in Job
  BY JobFacts DEF JudgeAttempt, At, Stages, TypeInv
<1>2. op[w].keep \in Nat
  BY DEF TypeInv, OpMatchesJob, TypeOK, Op, Kinds, JudgeAttempt, At, Workers
<1>3. verdict \in Verdicts
  BY DEF Judge, Verdicts
<1>4. job' = [job EXCEPT ![w] = [x EXCEPT !.stage = "resolve"]]
  BY DEF JudgeAttempt, Goto
<1> HIDE DEF verdict
<1>5. dec \in Decision /\ force \in BOOLEAN
  BY <1>1, <1>3 DEF Job, Decision
<1> HIDE DEF dec, force
<1>6. x \in Job
  BY <1>1, <1>2, <1>5, DecideType
<1> HIDE DEF x
<1>7. [x EXCEPT !.stage = "resolve"] \in Job
  BY <1>6, GotoType DEF Stages
<1> QED BY <1>4, <1>7, MoveOnlyType DEF JudgeAttempt, World, Record, TypeInv

LEMMA ResolveType ==
    ASSUME GatewayTypeOK, NEW w \in Workers, Resolve(w)
    PROVE  GatewayTypeOK'
<1> DEFINE j == job[w]
<1>1. j \in Job
  BY JobFacts DEF Resolve, At, Stages
<1>2. PICK verdict \in Verdicts, wb \in BOOLEAN, sc \in BOOLEAN, al \in BOOLEAN,
           stage \in {"commit", "execute"} :
          job' = [job EXCEPT ![w] =
            [[j EXCEPT !.dec.verdict = verdict, !.dec.would_block = wb,
                       !.dec.scrubbed = sc, !.dec.allowed = al]
               EXCEPT !.stage = stage]]
  <2> DEFINE scrub == j.dec.verdict = "sanitize"
             denied == Refused(Req(w), j.dec.verdict)
             verdict == CASE denied -> IF Enforce THEN "block" ELSE "allow"
                          [] scrub /\ ~denied -> "allow"
                          [] OTHER -> j.dec.verdict
             ends == verdict = "block" \/ ~HasCall(Req(w))
  <2>1. verdict \in Verdicts
    BY <1>1 DEF Job, Decision, Verdicts
  <2>2. job' = [job EXCEPT ![w] =
            [[j EXCEPT !.dec.verdict = verdict, !.dec.would_block = denied,
                       !.dec.scrubbed = scrub,
                       !.dec.allowed = ends /\ verdict # "block"]
               EXCEPT !.stage = IF ends THEN "commit" ELSE "execute"]]
    BY DEF Resolve, Goto
  <2>3. scrub \in BOOLEAN /\ denied \in BOOLEAN /\ ends \in BOOLEAN
    BY DEF Refused
  <2> HIDE DEF verdict, denied, scrub, ends
  <2>4. (ends /\ verdict # "block") \in BOOLEAN
    OBVIOUS
  <2> QED BY <2>1, <2>2, <2>3, <2>4
<1> HIDE DEF j
<1> DEFINE dec == [j.dec EXCEPT !.verdict = verdict, !.would_block = wb,
                                !.scrubbed = sc, !.allowed = al]
           x == [j EXCEPT !.dec = dec]
<1>3. dec \in Decision
  BY <1>1 DEF Job, Decision
<1>4. x = [j EXCEPT !.dec.verdict = verdict, !.dec.would_block = wb,
                    !.dec.scrubbed = sc, !.dec.allowed = al]
  BY <1>1 DEF Job, Decision
<1> HIDE DEF dec
<1>5. x \in Job
  BY <1>1, <1>3 DEF Job
<1> HIDE DEF x
<1>6. [x EXCEPT !.stage = stage] \in Job
  BY <1>5, GotoType DEF Stages
<1>7. job' = [job EXCEPT ![w] = [x EXCEPT !.stage = stage]]
  BY <1>2, <1>4
<1> QED BY <1>6, <1>7, MoveOnlyType DEF Resolve, World, Record

\* A Decision stays one when the outcome of the execution is entered in it.
Entered(d, verdict, allowed, tier, would_block, attempt, leaked) ==
    [d EXCEPT !.verdict = verdict, !.allowed = allowed, !.executed = allowed,
              !.tier = tier, !.would_block = would_block,
              !.attempt = attempt, !.exfiltrated = leaked]

LEMMA EnteredType ==
    ASSUME NEW d \in Decision, NEW verdict \in Verdicts, NEW allowed \in BOOLEAN,
           NEW tier \in Tiers, NEW would_block \in BOOLEAN,
           NEW attempt \in BOOLEAN, NEW leaked \in BOOLEAN
    PROVE  Entered(d, verdict, allowed, tier, would_block, attempt, leaked) \in Decision
BY ZenonT(60) DEF Decision, Entered

LEMMA RouteAndExecuteType ==
    ASSUME GatewayTypeOK, NEW w \in Workers, RouteAndExecute(w)
    PROVE  GatewayTypeOK'
<1> DEFINE j == job[w]
           req == Req(w)
           isolate == j.force \/ j.dec.verdict = "quarantine"
           tier == Route(req.role, req.call.tool, InjectionScore(req), j.keep, Scale,
                         isolate)
           out == Execute(tier, req.call, Enforce)
           verdict == IF out.blocked /\ j.dec.verdict # "quarantine" THEN "block"
                                                              ELSE j.dec.verdict
           e == [ran |-> ~out.blocked, isolated |-> isolate, leaked |-> out.exfiltrated]
           dec == Entered(j.dec, verdict, ~out.blocked, tier,
                          j.dec.would_block \/ out.attempt, out.attempt, out.exfiltrated)
           x == [j EXCEPT !.dec = dec]
<1>1. j \in Job /\ j.id \in Ids /\ req \in Requests
  BY SMTT(60), JobFacts DEF RouteAndExecute, At, Stages
<1>2. isolate \in BOOLEAN /\ j.keep \in Nat
  BY SMTT(60), <1>1 DEF Job
<1>3. effect' = [effect EXCEPT ![j.id] = e]
  BY DEF RouteAndExecute
<1>4. job' = [job EXCEPT ![w] = [x EXCEPT !.stage = "commit"]]
  BY DEF RouteAndExecute, Goto, Entered
<1> HIDE DEF isolate
<1>5. tier \in Tiers
  BY <1>1, <1>2, InjectionScoreType, ScaleType, RouteRespectsTrust
<1> HIDE DEF tier
<1>6. out \in ExecOutcome
  BY <1>1, CallType, GatewayAssumption, ExecuteType
<1> HIDE DEF out
<1>7. e \in Effect
  BY <1>2, <1>6 DEF Effect, ExecOutcome
<1>8. verdict \in Verdicts
  BY <1>1 DEF Job, Decision, Verdicts
<1> HIDE DEF verdict, e
<1>9. dec \in Decision
  <2>1. j.dec \in Decision
    BY <1>1 DEF Job
  <2>2. out.attempt \in BOOLEAN /\ out.exfiltrated \in BOOLEAN
    BY <1>6 DEF ExecOutcome
  <2> QED BY ZenonT(60), <2>1, <2>2, <1>5, <1>8, EnteredType
<1> HIDE DEF dec
<1>10. x \in Job
  BY <1>1, <1>9 DEF Job
<1> HIDE DEF x
<1>11. [x EXCEPT !.stage = "commit"] \in Job
  BY <1>10, GotoType DEF Stages
<1>12. job' \in [Workers -> (Job \cup {IdleJob})'] /\ Ids' = Ids
  BY <1>4, <1>11, MoveType DEF RouteAndExecute
<1>13. effect' \in Seq(Effect) /\ Len(effect') = Len(asked)
  BY <1>1, <1>3, <1>7 DEF GatewayTypeOK, Ids
<1> QED BY SMTT(60), <1>12, <1>13 DEF RouteAndExecute, Record, GatewayTypeOK

LEMMA WhenType ==
    ASSUME NEW cond, NEW keys \in Seq(CounterKeys)
    PROVE  When(cond, keys) \in Seq(CounterKeys)
BY DEF When

LEMMA KeysType ==
    ASSUME NEW req, NEW d \in Decision
    PROVE  FinalizeKeys(req, d) \in Seq(CounterKeys) /\ ExfilKeys(d) \in Seq(CounterKeys)
<1>1. VerdictKey(d.verdict) \in CounterKeys
  BY DEF Decision, Verdicts, VerdictKey, CounterKeys
<1> DEFINE first == <<"requests", VerdictKey(d.verdict)>>
           second == When(d.would_block, <<"would_block">>)
           third == When(HasCall(req),
                  <<"tool_calls", IF d.executed THEN "tool_executed" ELSE "tool_denied">>)
           exfil == When(d.exfiltrated, <<"exfil_success">>)
<1>2. first \in Seq(CounterKeys)
  BY <1>1 DEF CounterKeys
<1>3. second \in Seq(CounterKeys) /\ exfil \in Seq(CounterKeys)
  <2>1. <<"would_block">> \in Seq(CounterKeys) /\ <<"exfil_success">> \in Seq(CounterKeys)
    BY DEF CounterKeys
  <2> QED BY <2>1, WhenType
<1>4. third \in Seq(CounterKeys)
  <2> DEFINE last == IF d.executed THEN "tool_executed" ELSE "tool_denied"
  <2>1. last \in CounterKeys /\ "tool_calls" \in CounterKeys
    BY DEF CounterKeys
  <2> HIDE DEF last
  <2>2. <<"tool_calls", last>> \in Seq(CounterKeys)
    BY <2>1
  <2> QED BY <2>2, WhenType DEF last
<1>5. FinalizeKeys(req, d) = first \o second \o third
  BY DEF FinalizeKeys
<1>6. ExfilKeys(d) = When(d.attempt, <<"exfil_attempts">> \o exfil)
  BY DEF ExfilKeys
<1>7. <<"exfil_attempts">> \in Seq(CounterKeys)
  BY DEF CounterKeys
<1> HIDE DEF first, second, third, exfil
<1>8. first \o second \in Seq(CounterKeys)
  BY <1>2, <1>3, ConcatProperties
<1>9. first \o second \o third \in Seq(CounterKeys)
  BY <1>4, <1>8, ConcatProperties
<1>10. <<"exfil_attempts">> \o exfil \in Seq(CounterKeys)
  BY <1>3, <1>7, ConcatProperties
<1>11. When(d.attempt, <<"exfil_attempts">> \o exfil) \in Seq(CounterKeys)
  BY <1>10 DEF When
<1> QED BY <1>5, <1>6, <1>9, <1>11

LEMMA CommitBehaviourType ==
    ASSUME GatewayTypeOK, NEW w \in Workers, CommitBehaviour(w)
    PROVE  GatewayTypeOK'
<1> DEFINE j == job[w]
           keys == FinalizeKeys(Req(w), j.dec)
           x == [j EXCEPT !.todo = keys]
<1>1. j \in Job
  BY JobFacts DEF CommitBehaviour, At, Stages
<1>2. PICK stage \in {"account", "locked"} :
          job' = [job EXCEPT ![w] = [x EXCEPT !.stage = stage]]
  BY DEF CommitBehaviour, Goto
<1>3. keys \in Seq(CounterKeys)
  BY <1>1, KeysType DEF Job
<1> HIDE DEF keys
<1>4. x \in Job
  BY <1>1, <1>3 DEF Job
<1> HIDE DEF x
<1>5. [x EXCEPT !.stage = stage] \in Job
  BY <1>4, GotoType DEF Stages
<1> QED BY <1>2, <1>5, MoveOnlyType DEF CommitBehaviour, World, Record

LEMMA CommitLockedType ==
    ASSUME GatewayTypeOK, NEW w \in Workers, CommitLocked(w)
    PROVE  GatewayTypeOK'
<1>1. job[w] \in Job
  BY JobFacts DEF CommitLocked, At, Stages
<1>2. [job[w] EXCEPT !.stage = "account"] \in Job
  BY <1>1, GotoType DEF Stages
<1> QED BY <1>2, MoveOnlyType DEF CommitLocked, Goto, World, Record

LEMMA IncrType ==
    ASSUME GatewayTypeOK, NEW w \in Workers, NEW stage \in Stages, NEW next \in Stages,
           Incr(w, stage, next)
    PROVE  GatewayTypeOK'
<1> DEFINE j == job[w]
           rest == [j EXCEPT !.todo = Tail(j.todo)]
           after == IF rest.todo = <<>> THEN next ELSE stage
<1>1. j \in Job /\ j.todo \in Seq(CounterKeys) /\ j.todo # <<>>
  BY JobFacts DEF Incr, At, Job
<1>2. Head(j.todo) \in CounterKeys /\ Tail(j.todo) \in Seq(CounterKeys)
  BY <1>1
<1>3. rest \in Job
  BY <1>1, <1>2 DEF Job
<1>4. job' = [job EXCEPT ![w] = [rest EXCEPT !.stage = after]]
  BY DEF Incr, Goto
<1>5. counters' \in [CounterKeys -> Nat]
  <2> DEFINE key == Head(j.todo)
  <2>1. counters' = [counters EXCEPT ![key] = @ + 1]
    BY DEF Incr
  <2>2. key \in CounterKeys
    BY <1>2
  <2> HIDE DEF key
  <2> QED BY <2>1, <2>2 DEF GatewayTypeOK
<1> HIDE DEF rest
<1>6. [rest EXCEPT !.stage = after] \in Job
  BY <1>3, GotoType
<1>7. job' \in [Workers -> (Job \cup {IdleJob})']
  BY <1>4, <1>6, MoveType DEF Incr, World
<1> QED BY <1>5, <1>7 DEF GatewayTypeOK, Incr, World

LEMMA AuditRecordType ==
    ASSUME NEW d \in Decision
    PROVE  AuditRecord(d) \in AuditRecords
BY DEF AuditRecord, AuditRecords, Decision

\* Emitting a record for one request keeps the audit trail's type.
LEMMA AuditedType ==
    ASSUME GatewayTypeOK, NEW id \in Ids, NEW d \in Decision,
           audited' = [audited EXCEPT ![id] = @ \cup {AuditRecord(d)}]
    PROVE  audited' \in Seq(SUBSET AuditRecords) /\ Len(audited') = Len(asked)
<1> DEFINE records == audited[id] \cup {AuditRecord(d)}
<1>1. audited' = [audited EXCEPT ![id] = records]
  OBVIOUS
<1>2. records \in SUBSET AuditRecords
  BY AuditRecordType DEF GatewayTypeOK, Ids
<1> HIDE DEF records
<1> QED BY <1>1, <1>2 DEF GatewayTypeOK, Ids

LEMMA EmitType ==
    ASSUME GatewayTypeOK, NEW w \in Workers, Emit(w)
    PROVE  GatewayTypeOK'
<1> DEFINE j == job[w]
           keys == ExfilKeys(j.dec)
           x == [j EXCEPT !.todo = keys]
<1>1. j \in Job /\ j.id \in Ids /\ j.dec \in Decision
  BY JobFacts DEF Emit, At, Stages, Job
<1>2. job' = [job EXCEPT ![w] = [x EXCEPT !.stage = "count_exfil"]]
  BY DEF Emit, Goto
<1>3. keys \in Seq(CounterKeys)
  BY <1>1, KeysType
<1>4. audited' = [audited EXCEPT ![j.id] = @ \cup {AuditRecord(j.dec)}]
  BY DEF Emit
<1>5. audited' \in Seq(SUBSET AuditRecords) /\ Len(audited') = Len(asked)
  BY <1>1, <1>4, AuditedType
<1> HIDE DEF keys
<1>6. x \in Job
  BY <1>1, <1>3 DEF Job
<1> HIDE DEF x
<1>7. [x EXCEPT !.stage = "count_exfil"] \in Job
  BY <1>6, GotoType DEF Stages
<1>8. job' \in [Workers -> (Job \cup {IdleJob})']
  BY <1>2, <1>7, MoveType DEF Emit, World
<1> QED BY <1>5, <1>8 DEF GatewayTypeOK, Emit, World

LEMMA ConcludeType ==
    ASSUME GatewayTypeOK, NEW w \in Workers, NEW d \in Decision, job[w].stage \in Stages,
           Conclude(w, d), UNCHANGED asked
    PROVE  /\ answer' \in Seq(Decision \cup {Pending}) /\ Len(answer') = Len(asked)
           /\ job' \in [Workers -> (Job \cup {IdleJob})']
<1>1. job[w].id \in Ids
  BY JobFacts
<1>2. answer' \in Seq(Decision \cup {Pending}) /\ Len(answer') = Len(asked)
  BY <1>1 DEF Conclude, GatewayTypeOK, Ids
<1> QED BY <1>2, MoveType DEF Conclude

LEMMA ReturnType ==
    ASSUME GatewayTypeOK, NEW w \in Workers, Return(w)
    PROVE  GatewayTypeOK'
<1>1. job[w] \in Job /\ job[w].dec \in Decision /\ job[w].stage \in Stages
  BY JobFacts DEF Return, At, Stages, Job
<1> QED BY <1>1, ConcludeType DEF GatewayTypeOK, Return, World

LEMMA RaiseType ==
    ASSUME GatewayTypeOK, NEW w \in Workers, Raise(w)
    PROVE  GatewayTypeOK'
<1>1. job[w] \in Job
  BY JobFacts DEF Raise, RaisingStages, Stages
<1>2. [job[w] EXCEPT !.stage = "fail_closed"] \in Job
  BY <1>1, GotoType DEF Stages
<1>3. job' \in [Workers -> (Job \cup {IdleJob})']
  BY <1>2, MoveType DEF Raise, Goto, World
<1>4. faults' \in 0..MaxFaults
  BY GatewayAssumption DEF Raise, GatewayTypeOK
<1> QED BY <1>3, <1>4 DEF GatewayTypeOK, Raise, World, Record

LEMMA FailClosedType ==
    ASSUME GatewayTypeOK, NEW w \in Workers, FailClosed(w)
    PROVE  GatewayTypeOK'
<1>1. job[w].stage \in Stages /\ job[w].id \in Ids
  BY JobFacts DEF FailClosed, At, Stages
<1>2. FailClosedDecision \in Decision
  BY DEF FailClosedDecision, Undecided, Decision, Verdicts
<1>3. /\ answer' \in Seq(Decision \cup {Pending}) /\ Len(answer') = Len(asked)
      /\ job' \in [Workers -> (Job \cup {IdleJob})']
  BY <1>1, <1>2, ConcludeType DEF FailClosed, World
<1>4. counters' \in [CounterKeys -> Nat]
  BY SMTT(60) DEF FailClosed, GatewayTypeOK, CounterKeys
<1>5. audited' \in Seq(SUBSET AuditRecords) /\ Len(audited') = Len(asked)
  <2>1. CASE UNCHANGED audited
    BY <2>1 DEF GatewayTypeOK
  <2>2. CASE audited' = [audited EXCEPT ![job[w].id] =
                           @ \cup {AuditRecord(FailClosedDecision)}]
    BY <1>1, <1>2, <2>2, AuditedType
  <2> QED BY <2>1, <2>2 DEF FailClosed
<1>6. faults' \in 0..MaxFaults
  BY GatewayAssumption DEF FailClosed, GatewayTypeOK
<1> QED BY <1>3, <1>4, <1>5, <1>6 DEF GatewayTypeOK, FailClosed, World

-----------------------------------------------------------------------------
(* The workers and the monitor stay in step *)

\* The three facts of OpMatchesJob for one worker.
Matches(stage, kind) ==
    /\ stage = "observe" => kind = "observe"
    /\ stage = "locked" => kind \in {"allow", "quarantined", "block"}
    /\ stage \notin {"observe", "locked"} => kind = "idle"

LEMMA WorkerMoves ==
    ASSUME TypeInv, NEW w \in Workers,
           \A v \in Workers \ {w} : op'[v] = op[v] /\ job'[v] = job[v],
           Matches(job'[w].stage, op'[w].kind)
    PROVE  OpMatchesJob'
BY DEF TypeInv, OpMatchesJob, Matches

\* A step outside the monitor: from and to stages that hold no operation of it.
LEMMA WorkerMovesOutside ==
    ASSUME TypeInv, NEW w \in Workers,
           \A v \in Workers \ {w} : job'[v] = job[v],
           op' = op,
           job[w].stage \notin {"observe", "locked"},
           job'[w].stage \notin {"observe", "locked"}
    PROVE  OpMatchesJob'
<1>1. Matches(job'[w].stage, op'[w].kind)
  BY DEF TypeInv, OpMatchesJob, Matches
<1> QED BY <1>1, WorkerMoves

\* The stage a worker is in after each of its steps.
LEMMA StageAfter ==
    ASSUME GatewayTypeOK, NEW w \in Workers, job[w].stage \in Stages, Step(w)
    PROVE  /\ Sanitize(w) => job'[w].stage \in {"commit", "enforce"}
           /\ EnforcePolicy(w) => job'[w].stage \in {"resolve", "observe"}
           /\ ObserveAttempt(w) => job'[w].stage = "judge"
           /\ JudgeAttempt(w) => job'[w].stage = "resolve"
           /\ Resolve(w) => job'[w].stage \in {"commit", "execute"}
           /\ RouteAndExecute(w) => job'[w].stage = "commit"
           /\ CommitBehaviour(w) => job'[w].stage \in {"account", "locked"}
           /\ CommitLocked(w) => job'[w].stage = "account"
           /\ Account(w) => job'[w].stage \in {"account", "emit"}
           /\ Emit(w) => job'[w].stage = "count_exfil"
           /\ CountExfil(w) => job'[w].stage = "count_exfil"
           /\ Return(w) => job'[w].stage = "idle"
           /\ FailClosed(w) => job'[w].stage = "idle"
<1>1. job[w] \in Job /\ DOMAIN job = Workers
  BY JobFacts DEF GatewayTypeOK
<1>2. Sanitize(w) => job'[w].stage \in {"commit", "enforce"}
  BY <1>1 DEF Sanitize, Goto, Job
<1>3. EnforcePolicy(w) => job'[w].stage \in {"resolve", "observe"}
  BY <1>1 DEF EnforcePolicy, Goto, Job
<1>4. ObserveAttempt(w) => job'[w].stage = "judge"
  BY <1>1 DEF ObserveAttempt, Goto, Job
<1>5. JudgeAttempt(w) => job'[w].stage = "resolve"
  BY <1>1 DEF JudgeAttempt, Goto, Job
<1>6. Resolve(w) => job'[w].stage \in {"commit", "execute"}
  BY <1>1 DEF Resolve, Goto, Job
<1>7. RouteAndExecute(w) => job'[w].stage = "commit"
  BY <1>1 DEF RouteAndExecute, Goto, Job
<1>8. CommitBehaviour(w) => job'[w].stage \in {"account", "locked"}
  BY <1>1 DEF CommitBehaviour, Goto, Job
<1>9. CommitLocked(w) => job'[w].stage = "account"
  BY <1>1 DEF CommitLocked, Goto, Job
<1>10. Account(w) => job'[w].stage \in {"account", "emit"}
  BY <1>1 DEF Account, Incr, Goto, Job
<1>11. Emit(w) => job'[w].stage = "count_exfil"
  BY <1>1 DEF Emit, Goto, Job
<1>12. CountExfil(w) => job'[w].stage = "count_exfil"
  BY SMTT(60), <1>1 DEF CountExfil, Incr, Goto, Job
<1>13. Return(w) \/ FailClosed(w) => job'[w].stage = "idle"
  BY SMTT(60), <1>1 DEF Return, FailClosed, Conclude, IdleJob
<1> QED BY <1>2, <1>3, <1>4, <1>5, <1>6, <1>7, <1>8, <1>9, <1>10, <1>11, <1>12, <1>13

LEMMA OthersStay ==
    ASSUME TypeInv, NEW w \in Workers, Step(w)
    PROVE  \A v \in Workers \ {w} : job'[v] = job[v] /\ op'[v] = op[v]
<1>1. \A v \in Workers \ {w} : job'[v] = job[v]
  BY SMTT(60) DEF TypeInv, GatewayTypeOK, Step, Sanitize, EnforcePolicy, ObserveAttempt,
         JudgeAttempt, Resolve, RouteAndExecute, CommitBehaviour, CommitLocked, Account,
         Emit, CountExfil, Incr, Return, FailClosed, Conclude, Goto
<1>2. \A v \in Workers \ {w} : op'[v] = op[v]
  BY ZenonT(60) DEF TypeInv, TypeOK, Workers, Step, Sanitize, EnforcePolicy, ObserveAttempt, Observe,
         JudgeAttempt, Resolve, RouteAndExecute, CommitBehaviour, CommitLocked, Account,
         Emit, CountExfil, Incr, Return, FailClosed, CallObserve, CallRecordAllow,
         CallRecordBlock, CallRecordQuarantined, Begin, RecordAllow, RecordBlock,
         RecordQuarantined, Finish, vars
<1> QED BY SMTT(60), <1>1, <1>2

\* A locked section leaves its worker idle in the monitor.
LEMMA LockedLeavesIdle ==
    ASSUME TypeOK, NEW w \in Threads, Locked(w)
    PROVE  op'[w].kind = "idle"
<1>1. PICK keep \in Nat : Finish(w, keep)
  BY LockedSection
<1> QED BY <1>1 DEF Finish, TypeOK, Returned

LEMMA OpMatchesJobStep ==
    ASSUME TypeInv, NEW w \in Workers, job[w].stage \in Stages, Step(w)
    PROVE  OpMatchesJob'
<1>1. /\ \A v \in Workers \ {w} : job'[v] = job[v] /\ op'[v] = op[v]
      /\ GatewayTypeOK /\ TypeOK /\ w \in Threads
  BY OthersStay DEF TypeInv, Workers
<1>2. CASE EnforcePolicy(w)
  <2>1. \/ job'[w].stage = "resolve" /\ op' = op /\ job[w].stage = "enforce"
        \/ job'[w].stage = "observe" /\ op'[w].kind = "observe"
    <3>1. job[w] \in Job /\ DOMAIN job = Workers
      BY <1>1, JobFacts DEF GatewayTypeOK
    <3>2. \/ UNCHANGED vars /\ job[w].stage = "enforce"
             /\ \E verdict, force :
                  Goto(w, [job[w] EXCEPT !.dec.verdict = verdict, !.force = force], "resolve")
          \/ /\ Goto(w, job[w], "observe")
             /\ CallObserve(w, Req(w).agent, Req(w).call.tool, IsRisky(Req(w).call))
      BY <1>2 DEF EnforcePolicy, At
    <3>3. ASSUME NEW verdict, NEW force,
                 Goto(w, [job[w] EXCEPT !.dec.verdict = verdict, !.force = force], "resolve")
          PROVE  job'[w].stage = "resolve"
      BY <3>1, <3>3 DEF Goto, Job
    <3>4. CASE /\ Goto(w, job[w], "observe")
               /\ CallObserve(w, Req(w).agent, Req(w).call.tool, IsRisky(Req(w).call))
      BY <1>1, <3>1, <3>4 DEF Goto, Job, CallObserve, Begin, TypeOK
    <3> QED BY <3>2, <3>3, <3>4 DEF vars
  <2>2. CASE job'[w].stage = "resolve" /\ op' = op /\ job[w].stage = "enforce"
    BY <1>1, <2>2, WorkerMovesOutside
  <2>3. CASE job'[w].stage = "observe" /\ op'[w].kind = "observe"
    BY <1>1, <2>3, WorkerMoves DEF Matches
  <2> QED BY <2>1, <2>2, <2>3
<1>3. CASE ObserveAttempt(w)
  <2>1. op'[w].kind = "idle"
    BY <1>1, <1>3, LockedLeavesIdle DEF ObserveAttempt, Locked
  <2>2. job'[w].stage = "judge"
    BY <1>1, <1>3, StageAfter
  <2> QED BY <1>1, <2>1, <2>2, WorkerMoves DEF Matches
<1>4. CASE CommitBehaviour(w)
  <2> DEFINE kind == CommitKind(Req(w), job[w].dec)
  <2>1. job[w] \in Job /\ DOMAIN job = Workers
    BY <1>1, JobFacts DEF GatewayTypeOK
  <2>2. \/ kind = "nothing" /\ UNCHANGED vars
        \/ kind = "block" /\ CallRecordBlock(w, Req(w).agent, Req(w).call.tool)
        \/ kind = "allow" /\ CallRecordAllow(w, Req(w).agent, Req(w).call.tool)
        \/ kind = "quarantined" /\ CallRecordQuarantined(w, Req(w).agent, Req(w).call.tool)
    BY <1>4 DEF CommitBehaviour
  <2>3. job'[w].stage = IF kind = "nothing" THEN "account" ELSE "locked"
    BY <1>4, <2>1 DEF CommitBehaviour, Goto, Job
  <2> HIDE DEF kind
  <2>4. CASE kind = "nothing" /\ UNCHANGED vars
    BY <1>1, <1>4, <2>3, <2>4, WorkerMovesOutside DEF CommitBehaviour, At, vars
  <2>5. CASE kind # "nothing"
    <3>1. op'[w].kind = kind /\ kind \in {"block", "allow", "quarantined"}
      BY <1>1, <2>2, <2>5 DEF CallRecordBlock, CallRecordAllow, CallRecordQuarantined,
                              Begin, TypeOK
    <3> QED BY <1>1, <2>3, <2>5, <3>1, WorkerMoves DEF Matches
  <2> QED BY <2>2, <2>4, <2>5
<1>5. CASE CommitLocked(w)
  <2>1. op'[w].kind = "idle"
    BY <1>1, <1>5, LockedLeavesIdle DEF CommitLocked, Locked
  <2>2. job'[w].stage = "account"
    BY <1>1, <1>5, StageAfter
  <2> QED BY <1>1, <2>1, <2>2, WorkerMoves DEF Matches
<1>6. CASE \/ Sanitize(w) \/ JudgeAttempt(w) \/ Resolve(w) \/ RouteAndExecute(w)
           \/ Account(w) \/ Emit(w) \/ CountExfil(w) \/ Return(w) \/ FailClosed(w)
  <2>1. job'[w].stage \in {"commit", "enforce", "resolve", "execute", "account", "emit",
                           "count_exfil", "idle"}
    BY SMTT(60), <1>1, <1>6, StageAfter
  <2>2. job[w].stage \notin {"observe", "locked"} /\ op' = op
    BY SMTT(60), <1>6 DEF Sanitize, JudgeAttempt, Resolve, RouteAndExecute, Account, Emit,
                CountExfil, Incr, Return, FailClosed, At, vars
  <2> QED BY <1>1, <2>1, <2>2, WorkerMovesOutside
<1> QED BY <1>2, <1>3, <1>4, <1>5, <1>6 DEF Step

\* Every action but Submit belongs to a worker in the pipeline.
LEMMA StepStage ==
    ASSUME NEW w \in Workers, Step(w) \/ Raise(w)
    PROVE  job[w].stage \in Stages
BY DEF Step, Raise, RaisingStages, Sanitize, EnforcePolicy, ObserveAttempt, JudgeAttempt,
       Resolve, RouteAndExecute, CommitBehaviour, CommitLocked, Account, Emit, CountExfil,
       Incr, Return, FailClosed, At, Stages

LEMMA StepType ==
    ASSUME TypeInv, NEW w \in Workers, Step(w)
    PROVE  GatewayTypeOK'
<1>1. GatewayTypeOK
  BY DEF TypeInv
<1>2. CASE Account(w)
  BY <1>1, <1>2, IncrType DEF Account, Stages
<1>3. CASE CountExfil(w)
  BY <1>1, <1>3, IncrType DEF CountExfil, Stages
<1> QED BY <1>1, <1>2, <1>3, SanitizeType, EnforcePolicyType, ObserveAttemptType,
           JudgeAttemptType, ResolveType, RouteAndExecuteType, CommitBehaviourType,
           CommitLockedType, EmitType, ReturnType, FailClosedType DEF Step

LEMMA TypeInvInit == GInit => TypeInv
<1> SUFFICES ASSUME GInit PROVE TypeInv
  OBVIOUS
<1>1. TypeOK /\ StoreBounded
  BY MonitorInit DEF GInit
<1>2. GatewayTypeOK
  BY GatewayAssumption DEF GInit, GatewayTypeOK
<1>3. OpMatchesJob
  BY DEF GInit, Init, OpMatchesJob, IdleJob, Returned, Workers
<1> QED BY <1>1, <1>2, <1>3 DEF TypeInv

LEMMA TypeInvStep == TypeInv /\ [GNext]_allvars => TypeInv'
<1> SUFFICES ASSUME TypeInv, [GNext]_allvars PROVE TypeInv'
  OBVIOUS
<1>1. TypeOK' /\ StoreBounded'
  BY GatewayStepIsMonitorStep, MonitorStep DEF TypeInv
<1>2. GatewayTypeOK' /\ OpMatchesJob'
  <2>1. CASE GTick
    BY <2>1 DEF GTick, Tick, gvars, TypeInv, GatewayTypeOK, OpMatchesJob, Job, Ids
  <2>2. ASSUME NEW w \in Workers, NEW req \in Requests, Submit(w, req)
        PROVE  GatewayTypeOK' /\ OpMatchesJob'
    <3>1. GatewayTypeOK'
      BY <2>2, SubmitType DEF TypeInv
    <3>2. \A v \in Workers \ {w} : job'[v] = job[v]
      BY <2>2 DEF Submit, TypeInv, GatewayTypeOK
    <3>3. job[w].stage = "idle" /\ job'[w].stage = "sanitize" /\ op' = op
      BY <2>2 DEF Submit, TypeInv, GatewayTypeOK, IdleJob, vars
    <3> QED BY <3>1, <3>2, <3>3, WorkerMovesOutside
  <2>3. ASSUME NEW w \in Workers, Raise(w)
        PROVE  GatewayTypeOK' /\ OpMatchesJob'
    <3>1. GatewayTypeOK' /\ job[w] \in Job
      BY <2>3, RaiseType, StepStage, JobFacts DEF TypeInv
    <3>2. \A v \in Workers \ {w} : job'[v] = job[v]
      BY <2>3 DEF Raise, Goto, TypeInv, GatewayTypeOK
    <3>3. /\ job[w].stage \notin {"observe", "locked"}
          /\ job'[w].stage = "fail_closed" /\ op' = op
      BY <2>3, <3>1 DEF Raise, RaisingStages, Goto, TypeInv, GatewayTypeOK, Job, vars
    <3> QED BY <3>1, <3>2, <3>3, WorkerMovesOutside
  <2>4. ASSUME NEW w \in Workers, Step(w)
        PROVE  GatewayTypeOK' /\ OpMatchesJob'
    BY <2>4, StepType, StepStage, OpMatchesJobStep
  <2>5. CASE UNCHANGED allvars
    BY <2>5 DEF allvars, vars, gvars, TypeInv, GatewayTypeOK, OpMatchesJob, Job, Ids
  <2> QED BY <2>1, <2>2, <2>3, <2>4, <2>5 DEF GNext
<1> QED BY <1>1, <1>2 DEF TypeInv

\* Type correctness of the whole gateway: the monitor's and its own variables
\* keep their types in every interleaving of the workers, with faults.
THEOREM GatewayTypeCorrect == GSpec => [](TypeOK /\ GatewayTypeOK)
<1>1. GSpec => []TypeInv
  BY TypeInvInit, TypeInvStep, PTL DEF GSpec
<1>2. TypeInv => TypeOK /\ GatewayTypeOK
  BY DEF TypeInv
<1> QED BY <1>1, <1>2, PTL

\* The gateway calls the behaviour monitor only as the monitor's specification
\* allows (gateway.py:290-308, enforcer.py:66-68): what is proved of the monitor
\* alone holds of the monitor inside the gateway.
THEOREM GatewayImplementsMonitor == GSpec => Spec
<1>1. GInit => Init
  BY DEF GInit
<1>2. TypeInv /\ [GNext]_allvars => [Next]_vars
  BY SMTT(60), GatewayStepIsMonitorStep DEF TypeInv
<1> QED BY <1>1, <1>2, TypeInvInit, TypeInvStep, PTL DEF GSpec, Spec

-----------------------------------------------------------------------------
(* Protected mode leaks nothing *)

\* What executing a request adds to the world.
LEMMA ExecutionEffect ==
    ASSUME GatewayTypeOK, NEW w \in Workers, RouteAndExecute(w)
    PROVE  \E e \in Effect : /\ effect' = [effect EXCEPT ![job[w].id] = e]
                             /\ Enforce => ~e.leaked
                             /\ job[w].force => e.isolated
<1> DEFINE j == job[w]
           req == Req(w)
           isolate == j.force \/ j.dec.verdict = "quarantine"
           tier == Route(req.role, req.call.tool, InjectionScore(req), j.keep, Scale,
                         isolate)
           out == Execute(tier, req.call, Enforce)
           e == [ran |-> ~out.blocked, isolated |-> isolate, leaked |-> out.exfiltrated]
<1>1. effect' = [effect EXCEPT ![j.id] = e]
  BY DEF RouteAndExecute
<1>2. req \in Requests /\ j \in Job
  BY JobFacts DEF RouteAndExecute, At, Stages
<1>3. isolate \in BOOLEAN /\ (j.force => isolate)
  BY <1>2 DEF Job
<1> HIDE DEF isolate, tier
<1>4. out \in ExecOutcome
  BY <1>2, CallType, GatewayAssumption, ExecuteType
<1>5. Enforce = TRUE => ~out.exfiltrated
  BY ProtectedExecutionNeverLeaks
<1> HIDE DEF out
<1>6. e \in Effect /\ e.leaked = out.exfiltrated /\ e.isolated = isolate
  BY <1>3, <1>4 DEF Effect, ExecOutcome
<1>7. Enforce => ~e.leaked
  BY <1>5, GatewayAssumption
<1> HIDE DEF e
<1> QED BY <1>1, <1>3, <1>6, <1>7

LEMMA NoLeakStep ==
    ASSUME GatewayTypeOK, NoLeak, [GNext]_allvars
    PROVE  NoLeak'
<1>1. CASE UNCHANGED <<asked, effect>>
  BY <1>1 DEF NoLeak, Ids
<1>2. ASSUME NEW w \in Workers, NEW req \in Requests, Submit(w, req)
      PROVE  NoLeak'
  <2>1. asked' = Append(asked, req) /\ effect' = Append(effect, NoEffect)
    BY <1>2 DEF Submit
  <2> QED BY <2>1 DEF NoLeak, NoEffect, Ids, GatewayTypeOK
<1>3. ASSUME NEW w \in Workers, RouteAndExecute(w)
      PROVE  NoLeak'
  <2>1. job[w].id \in Ids
    BY SMTT(60), <1>3, JobFacts DEF RouteAndExecute, At, Stages
  <2>2. PICK e \in Effect : /\ effect' = [effect EXCEPT ![job[w].id] = e]
                            /\ Enforce => ~e.leaked
    BY SMTT(60), <1>3, ExecutionEffect
  <2>3. asked' = asked
    BY <1>3 DEF RouteAndExecute
  <2>4. ASSUME Enforce, NEW id \in Ids
        PROVE  ~effect'[id].leaked
    <3>1. ~e.leaked /\ ~effect[id].leaked
      BY <2>2, <2>4 DEF NoLeak
    <3>2. effect'[id] = e \/ effect'[id] = effect[id]
      BY SMTT(60), <2>2 DEF GatewayTypeOK
    <3> QED BY <3>1, <3>2
  <2> QED BY SMTT(60), <2>3, <2>4 DEF NoLeak, Ids
<1>4. ASSUME NEW w \in Workers, Step(w), ~RouteAndExecute(w)
      PROVE  UNCHANGED <<asked, effect>>
  BY <1>4 DEF Step, Sanitize, EnforcePolicy, ObserveAttempt, JudgeAttempt, Resolve,
              CommitBehaviour, CommitLocked, Account, Emit, CountExfil, Incr, Return,
              FailClosed, World
<1>5. ASSUME NEW w \in Workers, Raise(w)
      PROVE  UNCHANGED <<asked, effect>>
  BY <1>5 DEF Raise, World
<1>6. GTick \/ UNCHANGED allvars => UNCHANGED <<asked, effect>>
  BY DEF GTick, gvars, allvars
<1> QED BY <1>1, <1>2, <1>3, <1>4, <1>5, <1>6 DEF GNext

\* In protected mode no secret reaches an external host (SECURITY.md:32-33),
\* for every configuration that validate accepts, every set of requests and any
\* number of workers and faults.
THEOREM GatewayNeverLeaks == GSpec => []NoLeak
<1>1. GInit => NoLeak
  BY DEF GInit, NoLeak, Ids
<1>2. TypeInv /\ NoLeak /\ [GNext]_allvars => NoLeak'
  BY NoLeakStep DEF TypeInv
<1> QED BY <1>1, <1>2, TypeInvInit, TypeInvStep, PTL DEF GSpec

-----------------------------------------------------------------------------
(* Protected mode runs only permitted calls *)

\* What a worker's stage says about its request: past the policy check of the
\* enforcement point, the call is permitted and trusted; with a verdict other
\* than BLOCK, the whole policy allows it, and isolates it below its floor.
MayExecute(j, req) == PolicyAllows(req) /\ (AboveFloor(req) \/ j.force)

Cleared(j, req) ==
    /\ j.stage \in {"observe", "judge"} => PolicyCheck(req.role, req.call.tool) = "ok"
    /\ j.stage = "resolve" /\ HasCall(req) /\ j.dec.verdict # "block" => MayExecute(j, req)
    /\ j.stage = "execute" => MayExecute(j, req)

\* Each request in flight is cleared for what its stage may do with it.
JobPolicy == \A w \in Workers : Cleared(job[w], Req(w))

\* A tool below its trust floor that may run isolated is not a guarded one.
LEMMA SoftFailureIsAllowed ==
    ASSUME NEW req, PolicyCheck(req.role, req.call.tool) = "soft"
    PROVE  PolicyAllows(req)
BY DEF PolicyCheck, PolicyAllows, AboveFloor

LEMMA PercentOrder == \A m, n \in Percent : m >= n \/ m < n
BY DEF Percent

\* Once the policy check has passed, a verdict other than BLOCK means that the
\* policy allows the call.
LEMMA JudgedIsAllowed ==
    ASSUME NEW req \in Requests, NEW keep, NEW scale,
           PolicyCheck(req.role, req.call.tool) = "ok",
           Judge(req.call.tool, InjectionScore(req), keep, scale) # "block"
    PROVE  PolicyAllows(req) /\ AboveFloor(req)
<1>1. IsPermitted(req.role, req.call.tool) /\ AboveFloor(req)
  BY DEF PolicyCheck, AboveFloor
<1>2. IsGuarded(req.call.tool) =>
        ~(InjectionScore(req) >= Config.thresholds.injection_sanitize)
  BY DEF Judge, MustBlock
<1>3. InjectionScore(req) \in Percent /\ Config.thresholds.injection_sanitize \in Percent
  BY InjectionScoreType, ThresholdFacts
<1>4. InjectionScore(req) >= Config.thresholds.injection_sanitize
      \/ InjectionScore(req) < Config.thresholds.injection_sanitize
  BY <1>3, PercentOrder
<1> QED BY <1>1, <1>2, <1>4 DEF PolicyAllows

\* Each step of a worker in protected mode leaves it with a cleared request.
LEMMA ClearedStep ==
    ASSUME TypeInv, Enforce, JobPolicy, NEW w \in Workers, Step(w)
    PROVE  Cleared(job'[w], Req(w))
<1> DEFINE j == job[w]
           req == Req(w)
<1>1. /\ j \in Job /\ req \in Requests /\ DOMAIN job = Workers
      /\ GatewayTypeOK /\ j.stage \in Stages
  BY StepStage, JobFacts DEF TypeInv, GatewayTypeOK
<1>2. Cleared(j, req)
  BY DEF JobPolicy
<1>3. ASSUME job'[w].stage \notin {"observe", "judge", "resolve", "execute"}
      PROVE  Cleared(job'[w], req)
  BY <1>3 DEF Cleared
<1>4. CASE EnforcePolicy(w)
  <2>1. \/ /\ job'[w].stage = "resolve"
           /\ \/ ~HasCall(req)
              \/ job'[w].dec.verdict = "block"
              \/ PolicyCheck(req.role, req.call.tool) = "soft" /\ job'[w].force
        \/ job'[w].stage = "observe" /\ PolicyCheck(req.role, req.call.tool) = "ok"
    <3>1. \/ \E verdict, force :
               /\ Goto(w, [j EXCEPT !.dec.verdict = verdict, !.force = force], "resolve")
               /\ \/ ~HasCall(req) \/ verdict = "block"
                  \/ PolicyCheck(req.role, req.call.tool) = "soft" /\ force = TRUE
          \/ Goto(w, j, "observe") /\ PolicyCheck(req.role, req.call.tool) = "ok"
      BY <1>4 DEF EnforcePolicy
    <3>2. ASSUME NEW verdict, NEW force,
                 Goto(w, [j EXCEPT !.dec.verdict = verdict, !.force = force], "resolve")
          PROVE  /\ job'[w].stage = "resolve" /\ job'[w].dec.verdict = verdict
                 /\ job'[w].force = force
      <4>1. DOMAIN j = {"stage", "id", "keep", "force", "dec", "todo"}
            /\ "verdict" \in DOMAIN j.dec
        BY <1>1 DEF Job, Decision
      <4> HIDE DEF j
      <4> QED BY <1>1, <3>2, <4>1 DEF Goto
    <3>3. ASSUME Goto(w, j, "observe") PROVE job'[w].stage = "observe"
      BY <1>1, <3>3 DEF Goto, Job
    <3> QED BY <3>1, <3>2, <3>3
  <2> QED BY <2>1, SoftFailureIsAllowed DEF Cleared, MayExecute
<1>5. CASE ObserveAttempt(w)
  <2>1. j.stage = "observe" /\ job'[w].stage = "judge"
    BY <1>1, <1>5, StageAfter DEF ObserveAttempt, At
  <2> QED BY <1>2, <2>1 DEF Cleared
<1>6. CASE JudgeAttempt(w)
  <2> DEFINE verdict == Judge(req.call.tool, InjectionScore(req), op[w].keep, Scale)
  <2>1. j.stage = "judge"
    BY <1>6 DEF JudgeAttempt, At
  <2>2. Goto(w, [j EXCEPT !.keep = op[w].keep, !.dec.verdict = verdict,
                          !.force = verdict = "quarantine"], "resolve")
    BY <1>6 DEF JudgeAttempt
  <2>3. verdict # "block" => PolicyAllows(req) /\ AboveFloor(req)
    BY <1>1, <1>2, <2>1, JudgedIsAllowed DEF Cleared
  <2>4. DOMAIN j = {"stage", "id", "keep", "force", "dec", "todo"}
        /\ "verdict" \in DOMAIN j.dec
    BY <1>1 DEF Job, Decision
  <2> HIDE DEF j, verdict
  <2>5. job'[w].stage = "resolve" /\ job'[w].dec.verdict = verdict
    BY <1>1, <2>2, <2>4 DEF Goto
  <2> QED BY <2>3, <2>5 DEF Cleared, MayExecute
<1>7. CASE Resolve(w)
  <2>1. j.stage = "resolve"
    BY <1>7 DEF Resolve, At
  <2>2. job'[w].stage \in {"commit", "execute"}
    BY <1>1, <1>7, StageAfter
  <2>3. job'[w].stage = "execute" => HasCall(req) /\ j.dec.verdict # "block"
    BY <1>1, <1>7 DEF Resolve, Refused, Goto, Job
  <2>4. job'[w].force = j.force
    BY SMTT(60), <1>1, <1>7 DEF Resolve, Goto, Job
  <2> QED BY <1>2, <2>1, <2>2, <2>3, <2>4 DEF Cleared, MayExecute
<1>8. CASE \/ Sanitize(w) \/ RouteAndExecute(w) \/ CommitBehaviour(w) \/ CommitLocked(w)
           \/ Account(w) \/ Emit(w) \/ CountExfil(w) \/ Return(w) \/ FailClosed(w)
  BY <1>1, <1>3, <1>8, StageAfter
<1> QED BY <1>4, <1>5, <1>6, <1>7, <1>8 DEF Step

LEMMA AskedOnlyGrows ==
    ASSUME GatewayTypeOK, [GNext]_allvars
    PROVE  Ids \subseteq Ids' /\ \A id \in Ids : asked'[id] = asked[id]
<1>1. ASSUME NEW w \in Workers, NEW req \in Requests, Submit(w, req)
      PROVE  Ids \subseteq Ids' /\ \A id \in Ids : asked'[id] = asked[id]
  BY SMTT(60), <1>1 DEF Submit, Ids, GatewayTypeOK
<1>2. CASE UNCHANGED asked
  BY SMTT(60), <1>2 DEF Ids
<1>3. ASSUME NEW w \in Workers, Step(w) \/ Raise(w)
      PROVE  UNCHANGED asked
  BY <1>3 DEF Step, Raise, Sanitize, EnforcePolicy, ObserveAttempt, JudgeAttempt, Resolve,
              RouteAndExecute, CommitBehaviour, CommitLocked, Account, Emit, CountExfil,
              Incr, Return, FailClosed, World
<1>4. GTick \/ UNCHANGED allvars => UNCHANGED asked
  BY DEF GTick, gvars, allvars
<1> QED BY <1>1, <1>2, <1>3, <1>4 DEF GNext

\* Outside the four stages nothing is claimed of the request.
LEMMA ClearedElsewhere ==
    ASSUME NEW j, NEW req, j.stage \notin {"observe", "judge", "resolve", "execute"}
    PROVE  Cleared(j, req)
BY DEF Cleared

\* A worker keeps its request until it concludes.
LEMMA SameRequest ==
    ASSUME GatewayTypeOK, NEW w \in Workers, Step(w)
    PROVE  job'[w].stage = "idle" \/ job'[w].id = job[w].id
<1>1. job[w] \in Job /\ DOMAIN job = Workers
  BY StepStage, JobFacts DEF GatewayTypeOK
<1>2. CASE Sanitize(w) \/ EnforcePolicy(w) \/ ObserveAttempt(w) \/ JudgeAttempt(w)
  BY ZenonT(60), <1>1, <1>2 DEF Sanitize, EnforcePolicy, ObserveAttempt, JudgeAttempt, Goto, Job
<1>3. CASE CommitBehaviour(w) \/ CommitLocked(w)
  BY <1>1, <1>3 DEF CommitBehaviour, CommitLocked, Goto, Job
<1>4. CASE Account(w) \/ Emit(w) \/ CountExfil(w)
  BY ZenonT(60), <1>1, <1>4 DEF Account, Emit, CountExfil, Incr, Goto, Job
<1>5. CASE Return(w) \/ FailClosed(w)
  BY <1>1, <1>5 DEF Return, FailClosed, Conclude, IdleJob
<1>6. CASE Resolve(w)
  BY SMTT(60), <1>1, <1>6 DEF Resolve, Goto, Job
<1>7. CASE RouteAndExecute(w)
  <2>1. PICK d, stage : Goto(w, [job[w] EXCEPT !.dec = d], stage)
    BY <1>7 DEF RouteAndExecute
  <2> QED BY SMTT(60), <1>1, <2>1 DEF Goto, Job
<1> QED BY <1>2, <1>3, <1>4, <1>5, <1>6, <1>7 DEF Step

LEMMA JobPolicyStep ==
    ASSUME TypeInv, Enforce, JobPolicy, [GNext]_allvars
    PROVE  JobPolicy'
<1>1. GatewayTypeOK
  BY DEF TypeInv
<1>2. ASSUME NEW v \in Workers, job'[v] = job[v]
      PROVE  Cleared(job'[v], Req(v)')
  <2>1. CASE job[v].stage \in Stages
    BY <1>1, <1>2, <2>1, JobFacts, AskedOnlyGrows DEF JobPolicy, Req
  <2>2. CASE job[v].stage \notin Stages
    BY <1>2, <2>2, ClearedElsewhere DEF Stages
  <2> QED BY <2>1, <2>2
<1>3. ASSUME NEW w \in Workers,
             \A v \in Workers \ {w} : job'[v] = job[v],
             Cleared(job'[w], Req(w)')
      PROVE  JobPolicy'
  BY <1>2, <1>3 DEF JobPolicy
<1>4. ASSUME NEW w \in Workers, NEW req \in Requests, Submit(w, req)
      PROVE  JobPolicy'
  <2>1. \A v \in Workers \ {w} : job'[v] = job[v]
    BY <1>1, <1>4 DEF Submit, GatewayTypeOK
  <2>2. job'[w].stage = "sanitize"
    BY <1>1, <1>4 DEF Submit, GatewayTypeOK
  <2> QED BY <1>3, <2>1, <2>2, ClearedElsewhere
<1>5. ASSUME NEW w \in Workers, Raise(w)
      PROVE  JobPolicy'
  <2>1. \A v \in Workers \ {w} : job'[v] = job[v]
    BY <1>1, <1>5 DEF Raise, Goto, GatewayTypeOK
  <2>2. job[w] \in Job
    BY <1>1, <1>5, StepStage, JobFacts
  <2>3. job'[w].stage = "fail_closed"
    BY <1>1, <1>5, <2>2 DEF Raise, Goto, GatewayTypeOK, Job
  <2> QED BY <1>3, <2>1, <2>3, ClearedElsewhere
<1>6. ASSUME NEW w \in Workers, Step(w)
      PROVE  JobPolicy'
  <2>1. \A v \in Workers \ {w} : job'[v] = job[v]
    BY <1>6, OthersStay
  <2>2. job[w].id \in Ids
    BY <1>1, <1>6, StepStage, JobFacts
  <2>3. CASE job'[w].stage = "idle"
    BY <1>3, <2>1, <2>3, ClearedElsewhere
  <2>4. CASE job'[w].id = job[w].id
    <3>1. Req(w)' = Req(w)
      BY <1>1, <2>2, <2>4, AskedOnlyGrows DEF Req
    <3>2. Cleared(job'[w], Req(w))
      BY <1>6, ClearedStep
    <3> QED BY <1>3, <2>1, <3>1, <3>2
  <2> QED BY <1>1, <1>6, <2>3, <2>4, SameRequest
<1>7. CASE GTick \/ UNCHANGED allvars
  <2>1. UNCHANGED job
    BY <1>7 DEF GTick, gvars, allvars
  <2> QED BY <1>2, <2>1 DEF JobPolicy
<1> QED BY <1>4, <1>5, <1>6, <1>7 DEF GNext

LEMMA RunsArePermittedStep ==
    ASSUME TypeInv, Enforce => JobPolicy, RunsArePermitted, [GNext]_allvars
    PROVE  RunsArePermitted'
<1> DEFINE Lawful(i, e) == PolicyAllows(asked'[i]) /\ (AboveFloor(asked'[i]) \/ e.isolated)
<1> SUFFICES ASSUME Enforce, NEW id \in Ids', effect'[id].ran
             PROVE  Lawful(id, effect'[id])
  BY DEF RunsArePermitted
<1>1. GatewayTypeOK /\ JobPolicy
  BY DEF TypeInv
<1>2. ASSUME id \in Ids, effect[id].ran, effect'[id] = effect[id]
      PROVE  Lawful(id, effect'[id])
  BY <1>1, <1>2, AskedOnlyGrows DEF RunsArePermitted
<1>3. CASE UNCHANGED <<asked, effect>>
  BY <1>2, <1>3 DEF Ids
<1>4. ASSUME NEW w \in Workers, NEW req \in Requests, Submit(w, req)
      PROVE  Lawful(id, effect'[id])
  <2>1. asked' = Append(asked, req) /\ effect' = Append(effect, NoEffect)
    BY <1>4 DEF Submit
  <2>2. id \in Ids /\ effect[id].ran /\ effect'[id] = effect[id]
    BY SMTT(60), <1>1, <2>1 DEF NoEffect, Ids, GatewayTypeOK
  <2> QED BY <1>2, <2>2
<1>5. ASSUME NEW w \in Workers, RouteAndExecute(w)
      PROVE  Lawful(id, effect'[id])
  <2>1. /\ job[w].id \in Ids /\ asked' = asked /\ job[w].stage = "execute"
    BY SMTT(60), <1>1, <1>5, JobFacts DEF RouteAndExecute, At, Stages
  <2>2. MayExecute(job[w], asked[job[w].id])
    BY SMTT(60), <1>1, <2>1 DEF JobPolicy, Cleared, Req
  <2>3. PICK e \in Effect : effect' = [effect EXCEPT ![job[w].id] = e] /\ (job[w].force => e.isolated)
    BY <1>1, <1>5, ExecutionEffect
  <2>4. CASE id = job[w].id
    <3>1. effect'[id] = e
      BY <1>1, <2>1, <2>3, <2>4 DEF GatewayTypeOK, Ids
    <3> QED BY <2>1, <2>2, <2>3, <2>4, <3>1 DEF MayExecute
  <2>5. CASE id # job[w].id
    <3>1. effect'[id] = effect[id] /\ id \in Ids
      BY SMTT(60), <1>1, <2>1, <2>3, <2>5 DEF GatewayTypeOK, Ids
    <3> QED BY <1>2, <3>1
  <2> QED BY <2>4, <2>5
<1>6. ASSUME NEW w \in Workers, Step(w) \/ Raise(w), ~RouteAndExecute(w)
      PROVE  UNCHANGED <<asked, effect>>
  BY <1>6 DEF Step, Raise, Sanitize, EnforcePolicy, ObserveAttempt, JudgeAttempt, Resolve,
              CommitBehaviour, CommitLocked, Account, Emit, CountExfil, Incr, Return,
              FailClosed, World
<1>7. GTick \/ UNCHANGED allvars => UNCHANGED <<asked, effect>>
  BY DEF GTick, gvars, allvars
<1> QED BY <1>3, <1>4, <1>5, <1>6, <1>7 DEF GNext

\* In protected mode a tool runs only on behalf of a role the matrix allows; below
\* the trust floor only an unguarded one, isolated; and a guarded one never on a
\* suspicious request (enforcer.py:55-82, config.py:80-81), for every configuration, set of
\* requests, number of workers and bound on the faults.
THEOREM OnlyPermittedCallsRun == GSpec => []RunsArePermitted
<1> DEFINE SafeInv == TypeInv /\ (Enforce => JobPolicy) /\ RunsArePermitted
<1>1. GInit => SafeInv
  BY TypeInvInit DEF GInit, JobPolicy, Cleared, IdleJob, RunsArePermitted, Ids
<1>2. SafeInv /\ [GNext]_allvars => SafeInv'
  <2> SUFFICES ASSUME SafeInv, [GNext]_allvars PROVE SafeInv'
    OBVIOUS
  <2>1. TypeInv'
    BY TypeInvStep
  <2>2. Enforce => JobPolicy'
    BY JobPolicyStep
  <2>3. RunsArePermitted'
    BY RunsArePermittedStep
  <2> QED BY <2>1, <2>2, <2>3
<1>3. SafeInv => RunsArePermitted
  OBVIOUS
<1> HIDE DEF SafeInv
<1> QED BY <1>1, <1>2, <1>3, PTL DEF GSpec

-----------------------------------------------------------------------------
(* From execution to the answer: the invariants *)

\* Worker w has a request in flight.
Busy(w) == job[w] # IdleJob

\* A request in flight belongs to one worker and has no answer yet; every other
\* request has one.
Owned ==
    /\ \A v, w \in Workers : Busy(v) /\ Busy(w) /\ job[v].id = job[w].id => v = w
    /\ \A w \in Workers : Busy(w) => ~Answered(job[w].id)
    /\ \A id \in Ids : ~Answered(id) => \E w \in Workers : Busy(w) /\ job[w].id = id

\* The stages before the tool can have run, and those after it.
Early == {"sanitize", "enforce", "observe", "judge", "resolve", "execute"}
Late == {"commit", "locked", "account", "emit", "count_exfil"}

\* A decision that reports nothing yet.
NothingDone(d) ==
    ~d.allowed /\ ~d.executed /\ ~d.attempt /\ ~d.exfiltrated /\ ~d.error

\* A decision tells what executing its request did, and lets through what it may.
Sound(d, req, e) ==
    /\ ~d.error
    /\ d.executed = e.ran
    /\ d.exfiltrated = e.leaked
    /\ d.exfiltrated => d.attempt
    /\ HasCall(req) => d.allowed = d.executed
    /\ ~HasCall(req) => ~d.executed /\ (Enforce /\ d.allowed => ContentPasses(req))
    /\ ~Enforce =>
         /\ e.leaked => d.would_block
         /\ Oversized(req) \/ (d.allowed /\ (HasCall(req) => d.executed))

\* What is true of a job j with request req and effect e at each stage.
Midway(j, req, e) ==
    /\ j.stage \in Early => e = NoEffect /\ NothingDone(j.dec)
    /\ j.stage \in Early \ {"sanitize"} => ~Oversized(req)
    /\ j.stage = "resolve" /\ ~HasCall(req)
         => j.dec.verdict = JudgeContent(InjectionScore(req))
    /\ j.stage \in {"observe", "judge", "execute"} => HasCall(req)
    /\ j.stage \in Late => Sound(j.dec, req, e)

\* The audit trail of a request in flight.
AuditedSoFar(j, records) ==
    records = IF j.stage = "count_exfil" THEN {AuditRecord(j.dec)} ELSE {}

\* No role of a request holds an unguarded tool above its trust.
TrustedRoles == \A req \in Requests : ~SoftFailure(req)

\* Enforcement owes the caller a refusal of req.
MustStop(req) ==
    /\ Enforce /\ ~SoftFailure(req)
    /\ InjectionScore(req) >= Config.thresholds.injection_block

\* Content that must be blocked does not come near its execution.
Stopped(j, req, e) ==
    MustStop(req) =>
        /\ ~e.ran
        /\ j.stage = "resolve" => j.dec.verdict = "block"
        /\ j.stage # "execute"
        /\ j.stage \in Late => ~j.dec.allowed

\* What is true of a request in flight.
OnCourse(j, req, e, records) ==
    Midway(j, req, e) /\ AuditedSoFar(j, records) /\ Stopped(j, req, e)

\* What is true of an answered request.
Concluded(d, req, e, records) ==
    /\ d = FailClosedDecision \/ Sound(d, req, e)
    /\ records = {AuditRecord(d)} \/ (records = {} /\ d.error)
    /\ MustStop(req) => ~e.ran /\ ~d.allowed

\* The inductive invariant: every request is in flight on course, or concluded.
RequestInv ==
    /\ Owned
    /\ \A w \in Workers : Busy(w) =>
         OnCourse(job[w], Req(w), effect[job[w].id], audited[job[w].id])
    /\ \A id \in Ids : Answered(id) =>
         Concluded(answer[id], asked[id], effect[id], audited[id])

-----------------------------------------------------------------------------
(* What a step does to its worker's job *)

\* A busy worker holds a job with a request number and a decision.
LEMMA BusyFacts ==
    ASSUME GatewayTypeOK, NEW w \in Workers
    PROVE  /\ Busy(w) <=> job[w].stage \in Stages
           /\ Busy(w) => job[w] \in Job /\ job[w].id \in Ids /\ job[w].dec \in Decision
           /\ ~Busy(w) <=> job[w].stage = "idle"
<1>1. job[w] \in Job \cup {IdleJob} /\ IdleJob.stage = "idle" /\ "idle" \notin Stages
  BY DEF GatewayTypeOK, IdleJob, Stages
<1>2. \A j \in Job : j.stage \in Stages /\ j.id \in Ids /\ j.dec \in Decision
  BY DEF Job
<1> QED BY <1>1, <1>2 DEF Busy

\* Every step is one of a busy worker.
LEMMA StepFacts ==
    ASSUME GatewayTypeOK, NEW w \in Workers, Step(w) \/ Raise(w)
    PROVE  /\ job[w] \in Job /\ job[w].id \in Ids /\ job[w].dec \in Decision
           /\ job[w].stage \in Stages /\ Req(w) \in Requests /\ DOMAIN job = Workers
           /\ Busy(w)
<1>1. job[w].stage \in Stages
  BY StepStage
<1> QED BY <1>1, BusyFacts, JobFacts DEF GatewayTypeOK

\* Sanitize blocks the oversized and passes on the others undecided.
LEMMA SanitizeShape ==
    ASSUME GatewayTypeOK, NEW w \in Workers, Sanitize(w)
    PROVE  \/ /\ Oversized(Req(w)) /\ job'[w].stage = "commit"
              /\ job'[w].dec = [job[w].dec EXCEPT !.verdict = "block", !.would_block = TRUE]
           \/ ~Oversized(Req(w)) /\ job'[w].stage = "enforce" /\ job'[w].dec = job[w].dec
<1>1. job[w] \in Job /\ job[w].dec \in Decision /\ DOMAIN job = Workers
  BY StepFacts DEF Step
<1>2. CASE Oversized(Req(w))
  <2> DEFINE d == [job[w].dec EXCEPT !.verdict = "block", !.would_block = TRUE]
             x == [job[w] EXCEPT !.dec = d]
  <2>1. [job[w] EXCEPT !.dec.verdict = "block", !.dec.would_block = TRUE] = x
    BY <1>1 DEF Job, Decision
  <2>2. Goto(w, x, "commit")
    BY <1>2, <2>1 DEF Sanitize
  <2> HIDE DEF d
  <2>3. job'[w].stage = "commit" /\ job'[w].dec = d
    BY <1>1, <2>2 DEF Goto, Job
  <2> QED BY <1>2, <2>3 DEF d
<1>3. CASE ~Oversized(Req(w))
  BY SMTT(60), <1>1, <1>3 DEF Sanitize, Goto, Job
<1> QED BY <1>2, <1>3

\* EnforcePolicy decides by the policy or the content, or asks the monitor.
LEMMA EnforcePolicyShape ==
    ASSUME GatewayTypeOK, NEW w \in Workers, EnforcePolicy(w)
    PROVE  \/ HasCall(Req(w)) /\ job'[w].stage = "observe" /\ job'[w].dec = job[w].dec
           \/ /\ job'[w].stage = "resolve"
              /\ \E verdict :
                   /\ job'[w].dec = [job[w].dec EXCEPT !.verdict = verdict]
                   /\ \/ ~HasCall(Req(w)) /\ verdict = JudgeContent(InjectionScore(Req(w)))
                      \/ HasCall(Req(w)) /\ verdict = "block"
                      \/ HasCall(Req(w)) /\ PolicyCheck(Req(w).role, Req(w).call.tool) = "soft"
<1>1. job[w] \in Job /\ job[w].dec \in Decision /\ DOMAIN job = Workers
  BY StepFacts DEF Step
<1>2. ASSUME NEW verdict, NEW force,
             Goto(w, [job[w] EXCEPT !.dec.verdict = verdict, !.force = force], "resolve")
      PROVE  /\ job'[w].stage = "resolve"
             /\ job'[w].dec = [job[w].dec EXCEPT !.verdict = verdict]
  BY SMTT(60), <1>1, <1>2 DEF Goto, Job, Decision
<1>3. ASSUME Goto(w, job[w], "observe")
      PROVE  job'[w].stage = "observe" /\ job'[w].dec = job[w].dec
  BY <1>1, <1>3 DEF Goto, Job
<1>4. \/ HasCall(Req(w)) /\ Goto(w, job[w], "observe")
      \/ \E verdict, force :
           /\ Goto(w, [job[w] EXCEPT !.dec.verdict = verdict, !.force = force], "resolve")
           /\ \/ ~HasCall(Req(w)) /\ verdict = JudgeContent(InjectionScore(Req(w)))
              \/ HasCall(Req(w)) /\ verdict = "block"
              \/ HasCall(Req(w)) /\ PolicyCheck(Req(w).role, Req(w).call.tool) = "soft"
  BY ZenonT(60) DEF EnforcePolicy
<1> QED BY <1>2, <1>3, <1>4

\* JudgeAttempt decides by the monitor's score.
LEMMA JudgeAttemptShape ==
    ASSUME GatewayTypeOK, NEW w \in Workers, JudgeAttempt(w)
    PROVE  /\ job'[w].stage = "resolve"
           /\ job'[w].dec = [job[w].dec EXCEPT
                !.verdict = Judge(Req(w).call.tool, InjectionScore(Req(w)), op[w].keep, Scale)]
<1> DEFINE verdict == Judge(Req(w).call.tool, InjectionScore(Req(w)), op[w].keep, Scale)
<1>1. job[w] \in Job /\ job[w].dec \in Decision /\ DOMAIN job = Workers
  BY StepFacts DEF Step
<1>2. Goto(w, [job[w] EXCEPT !.keep = op[w].keep, !.dec.verdict = verdict,
                             !.force = verdict = "quarantine"], "resolve")
  BY DEF JudgeAttempt
<1> HIDE DEF verdict
<1>3. job'[w].stage = "resolve" /\ job'[w].dec = [job[w].dec EXCEPT !.verdict = verdict]
  BY SMTT(60), <1>1, <1>2 DEF Goto, Job, Decision
<1> QED BY <1>3 DEF verdict

\* The verdict that ends Resolve.
Resolved(req, verdict) ==
    IF Refused(req, verdict) THEN IF Enforce THEN "block" ELSE "allow"
    ELSE IF verdict = "sanitize" THEN "allow" ELSE verdict

\* Resolve is the last stage that decides: there is nothing to execute.
Ends(req, verdict) == Resolved(req, verdict) = "block" \/ ~HasCall(req)

\* Resolve returns early or sends the call to the sandbox.
LEMMA ResolveShape ==
    ASSUME GatewayTypeOK, NEW w \in Workers, Resolve(w)
    PROVE  LET v == job[w].dec.verdict
               ends == Ends(Req(w), v)
           IN  /\ job'[w].stage = IF ends THEN "commit" ELSE "execute"
               /\ \E scrub \in BOOLEAN :
                    job'[w].dec = [job[w].dec EXCEPT
                      !.verdict = Resolved(Req(w), v),
                      !.would_block = Refused(Req(w), v), !.scrubbed = scrub,
                      !.allowed = ends /\ Resolved(Req(w), v) # "block"]
<1> DEFINE v == job[w].dec.verdict
           scrub == v = "sanitize"
           ends == Ends(Req(w), v)
           verdict == Resolved(Req(w), v)
           denied == Refused(Req(w), v)
           allowed == ends /\ verdict # "block"
           stage == IF ends THEN "commit" ELSE "execute"
<1>1. job[w] \in Job /\ job[w].dec \in Decision /\ DOMAIN job = Workers
  BY StepFacts DEF Step
<1>2. Goto(w, [job[w] EXCEPT !.dec.verdict = verdict, !.dec.would_block = denied,
                             !.dec.scrubbed = scrub, !.dec.allowed = allowed], stage)
  <2> DEFINE raw == CASE denied -> IF Enforce THEN "block" ELSE "allow"
                      [] scrub /\ ~denied -> "allow"
                      [] OTHER -> v
             rawEnds == raw = "block" \/ ~HasCall(Req(w))
  <2>1. Goto(w, [job[w] EXCEPT !.dec.verdict = raw, !.dec.would_block = denied,
                               !.dec.scrubbed = scrub,
                               !.dec.allowed = rawEnds /\ raw # "block"],
             IF rawEnds THEN "commit" ELSE "execute")
    BY DEF Resolve
  <2>2. raw = verdict
    BY DEF Resolved
  <2>3. rawEnds = ends
    BY <2>2 DEF Ends
  <2> HIDE DEF raw, rawEnds, verdict, ends
  <2> QED BY <2>1, <2>2, <2>3
<1> HIDE DEF verdict, denied, scrub, allowed, stage
<1>3. /\ job'[w].stage = stage
      /\ job'[w].dec = [job[w].dec EXCEPT !.verdict = verdict, !.would_block = denied,
                                          !.scrubbed = scrub, !.allowed = allowed]
  BY SMTT(60), <1>1, <1>2 DEF Goto, Job, Decision
<1>4. scrub \in BOOLEAN
  BY DEF scrub
<1> QED BY <1>3, <1>4 DEF verdict, denied, allowed, stage

\* The execution of a job's call, as the executor reports it.
LEMMA RouteAndExecuteShape ==
    ASSUME GatewayTypeOK, NEW w \in Workers, RouteAndExecute(w)
    PROVE  \E tier \in Tiers, isolate \in BOOLEAN, verdict \in Verdicts :
             LET out == Execute(tier, Req(w).call, Enforce)
             IN  /\ isolate <=> job[w].force \/ job[w].dec.verdict = "quarantine"
                 /\ verdict = IF out.blocked /\ job[w].dec.verdict # "quarantine"
                              THEN "block" ELSE job[w].dec.verdict
                 /\ effect' = [effect EXCEPT ![job[w].id] =
                        [ran |-> ~out.blocked, isolated |-> isolate,
                         leaked |-> out.exfiltrated]]
                 /\ job'[w].stage = "commit"
                 /\ job'[w].dec = Entered(job[w].dec, verdict, ~out.blocked, tier,
                                    job[w].dec.would_block \/ out.attempt, out.attempt,
                                    out.exfiltrated)
<1> DEFINE j == job[w]
           req == Req(w)
           isolate == j.force \/ j.dec.verdict = "quarantine"
           tier == Route(req.role, req.call.tool, InjectionScore(req), j.keep, Scale,
                         isolate)
           out == Execute(tier, req.call, Enforce)
           verdict == IF out.blocked /\ j.dec.verdict # "quarantine" THEN "block"
                                                              ELSE j.dec.verdict
           dec == Entered(j.dec, verdict, ~out.blocked, tier,
                          j.dec.would_block \/ out.attempt, out.attempt, out.exfiltrated)
<1>1. j \in Job /\ j.dec \in Decision /\ DOMAIN job = Workers /\ req \in Requests
  BY StepFacts DEF Step
<1>2. isolate \in BOOLEAN /\ j.keep \in Nat
  BY <1>1 DEF Job
<1>3. verdict \in Verdicts
  BY SMTT(60), <1>1 DEF Decision, Verdicts
<1>4. Goto(w, [j EXCEPT !.dec = dec], "commit")
  BY DEF RouteAndExecute, Entered
<1>5. effect' = [effect EXCEPT ![j.id] =
                   [ran |-> ~out.blocked, isolated |-> isolate, leaked |-> out.exfiltrated]]
  BY DEF RouteAndExecute
<1> HIDE DEF isolate
<1>6. tier \in Tiers
  BY <1>1, <1>2, InjectionScoreType, ScaleType, RouteRespectsTrust
<1> HIDE DEF tier, dec
<1>7. job'[w].stage = "commit" /\ job'[w].dec = dec
  BY SMTT(60), <1>1, <1>4 DEF Goto, Job
<1>8. isolate <=> j.force \/ j.dec.verdict = "quarantine"
  BY DEF isolate
<1> QED BY ONLY <1>2, <1>3, <1>5, <1>6, <1>7, <1>8 DEF dec

\* The later stages leave the decision as it is.
LEMMA LaterShape ==
    ASSUME GatewayTypeOK, NEW w \in Workers
    PROVE  /\ CommitBehaviour(w) =>
                /\ job'[w].stage \in {"account", "locked"}
                /\ job'[w].dec = job[w].dec
                /\ job'[w].todo = FinalizeKeys(Req(w), job[w].dec)
           /\ CommitLocked(w) \/ ObserveAttempt(w) =>
                job'[w].dec = job[w].dec /\ job'[w].todo = job[w].todo
           /\ Emit(w) => /\ job'[w].stage = "count_exfil"
                         /\ job'[w].dec = job[w].dec
                         /\ job'[w].todo = ExfilKeys(job[w].dec)
           /\ Raise(w) => job'[w].stage = "fail_closed"
           /\ Account(w) \/ CountExfil(w) =>
                /\ job[w].todo # <<>>
                /\ job'[w].dec = job[w].dec /\ job'[w].todo = Tail(job[w].todo)
                /\ counters' = [counters EXCEPT ![Head(job[w].todo)] = @ + 1]
           /\ Account(w) =>
                job'[w].stage = IF Tail(job[w].todo) = <<>> THEN "emit" ELSE "account"
           /\ CountExfil(w) => job'[w].stage = "count_exfil"
           /\ Return(w) \/ FailClosed(w) => job'[w] = IdleJob
<1>1. Step(w) \/ Raise(w) => job[w] \in Job /\ DOMAIN job = Workers
  BY StepFacts
<1>2. CommitBehaviour(w) => /\ job'[w].stage \in {"account", "locked"}
                            /\ job'[w].dec = job[w].dec
                            /\ job'[w].todo = FinalizeKeys(Req(w), job[w].dec)
  BY <1>1 DEF CommitBehaviour, Goto, Job, Step
<1>3. CommitLocked(w) \/ ObserveAttempt(w) =>
        job'[w].dec = job[w].dec /\ job'[w].todo = job[w].todo
  BY <1>1 DEF CommitLocked, ObserveAttempt, Goto, Job, Step
<1>4. Emit(w) => /\ job'[w].stage = "count_exfil"
                 /\ job'[w].dec = job[w].dec
                 /\ job'[w].todo = ExfilKeys(job[w].dec)
  BY <1>1 DEF Emit, Goto, Job, Step
<1>5. Raise(w) => job'[w].stage = "fail_closed"
  BY <1>1 DEF Raise, Goto, Job
<1>6. Account(w) \/ CountExfil(w) =>
        /\ job[w].todo # <<>>
        /\ job'[w].dec = job[w].dec /\ job'[w].todo = Tail(job[w].todo)
        /\ counters' = [counters EXCEPT ![Head(job[w].todo)] = @ + 1]
  <2>1. Account(w) \/ CountExfil(w) =>
          /\ job[w].todo # <<>>
          /\ counters' = [counters EXCEPT ![Head(job[w].todo)] = @ + 1]
    BY DEF Account, CountExfil, Incr
  <2>2. Account(w) => job'[w].dec = job[w].dec /\ job'[w].todo = Tail(job[w].todo)
    BY <1>1 DEF Account, Incr, Goto, Job, Step
  <2>3. CountExfil(w) => job'[w].dec = job[w].dec /\ job'[w].todo = Tail(job[w].todo)
    BY <1>1 DEF CountExfil, Incr, Goto, Job, Step
  <2> QED BY <2>1, <2>2, <2>3
<1>7. Account(w) =>
        job'[w].stage = IF Tail(job[w].todo) = <<>> THEN "emit" ELSE "account"
  BY <1>1 DEF Account, Incr, Goto, Job, Step
<1>8. CountExfil(w) => job'[w].stage = "count_exfil"
  BY <1>1 DEF CountExfil, Incr, Goto, Job, Step
<1>9. Return(w) \/ FailClosed(w) => job'[w] = IdleJob
  BY <1>1 DEF Return, FailClosed, Conclude, Step
<1> QED BY <1>2, <1>3, <1>4, <1>5, <1>6, <1>7, <1>8, <1>9

\* What a step leaves alone: the other workers, and whatever belongs to other
\* requests than its worker's.
LEMMA FrameStep ==
    ASSUME GatewayTypeOK, NEW w \in Workers, Step(w) \/ Raise(w)
    PROVE  /\ asked' = asked /\ Ids' = Ids
           /\ \A v \in Workers \ {w} : job'[v] = job[v]
           /\ job'[w] = IdleJob \/ job'[w].id = job[w].id
           /\ \A i \in Ids \ {job[w].id} : /\ effect'[i] = effect[i]
                                           /\ answer'[i] = answer[i]
                                           /\ audited'[i] = audited[i]
           /\ ~RouteAndExecute(w) => effect' = effect
           /\ ~Emit(w) /\ ~FailClosed(w) => audited' = audited
           /\ ~Return(w) /\ ~FailClosed(w) => answer' = answer
<1>1. job[w] \in Job /\ DOMAIN job = Workers
  BY StepFacts
<1>2. CASE Raise(w)
  BY <1>1, <1>2 DEF Raise, Goto, Job, World, Record, Ids
<1>3. CASE Step(w) /\ ~Raise(w)
  <2>1. asked' = asked /\ Ids' = Ids
    BY <1>3 DEF Step, Sanitize, EnforcePolicy, ObserveAttempt, JudgeAttempt, Resolve,
              RouteAndExecute, CommitBehaviour, CommitLocked, Account, Emit, CountExfil,
              Incr, Return, FailClosed, World, Ids
  <2>2. \A v \in Workers \ {w} : job'[v] = job[v]
    BY ZenonT(60), <1>1, <1>3 DEF Step, Sanitize, EnforcePolicy, ObserveAttempt,
              JudgeAttempt, Resolve, RouteAndExecute, CommitBehaviour, CommitLocked,
              Account, Emit, CountExfil, Incr, Return, FailClosed, Goto, Conclude
  <2>3. job'[w] = IdleJob \/ job'[w].id = job[w].id
    <3>1. Return(w) \/ FailClosed(w) => job'[w] = IdleJob
      BY LaterShape
    <3>2. CASE ~Return(w) /\ ~FailClosed(w)
      <4>1. job[w].stage \in Stages
        BY StepFacts
      <4>2. job'[w].stage # "idle"
        BY <1>3, <3>2, <4>1, StageAfter DEF Step
      <4> QED BY <1>3, <4>2, SameRequest
    <3> QED BY <3>1, <3>2
  <2>4. ~RouteAndExecute(w) => effect' = effect
    BY ZenonT(60), <1>3 DEF Step, Sanitize, EnforcePolicy, ObserveAttempt, JudgeAttempt,
              Resolve, CommitBehaviour, CommitLocked, Account, Emit, CountExfil,
              Incr, Return, FailClosed, World
  <2>5. ~Emit(w) /\ ~FailClosed(w) => audited' = audited
    BY ZenonT(60), <1>3 DEF Step, Sanitize, EnforcePolicy, ObserveAttempt, JudgeAttempt,
              Resolve, RouteAndExecute, CommitBehaviour, CommitLocked, Account, CountExfil,
              Incr, Return, Record
  <2>6. ~Return(w) /\ ~FailClosed(w) => answer' = answer
    BY ZenonT(60), <1>3 DEF Step, Sanitize, EnforcePolicy, ObserveAttempt, JudgeAttempt,
              Resolve, RouteAndExecute, CommitBehaviour, CommitLocked, Account, Emit,
              CountExfil, Incr, Record
  <2>7. \A i \in Ids \ {job[w].id} : effect'[i] = effect[i]
    <3>1. ASSUME RouteAndExecute(w)
          PROVE  \E e : effect' = [effect EXCEPT ![job[w].id] = e]
      BY <3>1, RouteAndExecuteShape
    <3> QED BY <2>4, <3>1 DEF GatewayTypeOK, Ids
  <2>8. \A i \in Ids \ {job[w].id} : audited'[i] = audited[i]
    BY <2>5 DEF Emit, FailClosed, GatewayTypeOK, Ids
  <2>9. \A i \in Ids \ {job[w].id} : answer'[i] = answer[i]
    BY <2>6 DEF Return, FailClosed, Conclude, GatewayTypeOK, Ids
  <2> QED BY ONLY SMTT(60), <2>1, <2>2, <2>3, <2>4, <2>5, <2>6, <2>7, <2>8, <2>9
<1> QED BY <1>2, <1>3

-----------------------------------------------------------------------------
(* Execution and resolution enter the truth in the decision *)

\* The egress filter reports every call that carries a secret outside, whatever
\* the tier (egress.py:224-309): monitor-only mode sees its own leaks.
LEMMA LeaksAreReported ==
    ASSUME NEW tier, NEW call, GroundTruthExfil(call)
    PROVE  Inspect(tier, call).exfil
<1>1. CASE IsEgressTool(call.tool)
  BY <1>1 DEF GroundTruthExfil, Inspect, InspectEgressTool, Denied
<1>2. CASE ~IsEgressTool(call.tool)
  BY <1>2 DEF GroundTruthExfil, Inspect, InspectOtherTool, Denied
<1> QED BY <1>1, <1>2

\* What the executor reports, with and without enforcement.
LEMMA OutcomeFacts ==
    ASSUME NEW tier, NEW req \in Requests
    PROVE  LET out == Execute(tier, req.call, Enforce)
           IN  /\ out \in ExecOutcome
               /\ out.exfiltrated => out.attempt /\ ~out.blocked
               /\ ~Enforce => ~out.blocked
               /\ Enforce => ~out.exfiltrated
<1> DEFINE out == Execute(tier, req.call, Enforce)
<1>1. out \in ExecOutcome
  BY CallType, GatewayAssumption, ExecuteType
<1>2. out.exfiltrated => out.attempt /\ ~out.blocked
  BY LeaksAreReported DEF Execute
<1>3. ~Enforce => ~out.blocked
  BY DEF Execute
<1>4. Enforce => ~out.exfiltrated
  BY GatewayAssumption, ProtectedExecutionNeverLeaks
<1> QED BY <1>1, <1>2, <1>3, <1>4

\* The decision written after an execution tells what it did.
LEMMA ExecutionIsSound ==
    ASSUME NEW d \in Decision, NothingDone(d), NEW req \in Requests, HasCall(req),
           NEW tier \in Tiers, NEW verdict \in Verdicts, NEW isolate \in BOOLEAN
    PROVE  LET out == Execute(tier, req.call, Enforce)
           IN  Sound(Entered(d, verdict, ~out.blocked, tier, d.would_block \/ out.attempt,
                             out.attempt, out.exfiltrated),
                     req,
                     [ran |-> ~out.blocked, isolated |-> isolate,
                      leaked |-> out.exfiltrated])
<1> DEFINE out == Execute(tier, req.call, Enforce)
           wb == d.would_block \/ out.attempt
           x == Entered(d, verdict, ~out.blocked, tier, wb, out.attempt, out.exfiltrated)
<1>1. /\ out \in ExecOutcome
      /\ out.exfiltrated => out.attempt /\ ~out.blocked
      /\ ~Enforce => ~out.blocked
  BY OutcomeFacts
<1> HIDE DEF out
<1>2. DOMAIN d = DOMAIN Undecided
  BY DEF Decision, Undecided
<1>3. /\ x.error = d.error /\ x.executed = ~out.blocked /\ x.allowed = ~out.blocked
      /\ x.exfiltrated = out.exfiltrated /\ x.attempt = out.attempt
      /\ x.would_block = wb
  BY <1>2 DEF Entered, Undecided
<1>4. out.blocked \in BOOLEAN /\ out.attempt \in BOOLEAN /\ out.exfiltrated \in BOOLEAN
  BY <1>1 DEF ExecOutcome
<1> HIDE DEF x
<1>5. ~x.error
  BY <1>3 DEF NothingDone
<1> DEFINE e == [ran |-> ~out.blocked, isolated |-> isolate, leaked |-> out.exfiltrated]
<1>6. e.ran = ~out.blocked /\ e.leaked = out.exfiltrated
  OBVIOUS
<1> HIDE DEF e, wb
<1>7. x.would_block = wb /\ (out.attempt => wb)
  BY <1>3 DEF wb
<1>8. Sound(x, req, e)
  BY ZenonT(60), <1>1, <1>3, <1>4, <1>5, <1>6, <1>7 DEF Sound
<1> QED BY <1>8 DEF x, e, wb, out

\* A request that ends at Resolve is let through only if the policy passes it.
LEMMA ResolutionIsSound ==
    ASSUME NEW d \in Decision, NothingDone(d), NEW req \in Requests, ~Oversized(req),
           ~HasCall(req) => d.verdict = JudgeContent(InjectionScore(req)),
           Ends(req, d.verdict), NEW scrub \in BOOLEAN, NEW x,
           x = [d EXCEPT !.verdict = Resolved(req, d.verdict),
                         !.would_block = Refused(req, d.verdict),
                         !.scrubbed = scrub,
                         !.allowed = Ends(req, d.verdict)
                                       /\ Resolved(req, d.verdict) # "block"]
    PROVE  Sound(x, req, NoEffect)
<1> DEFINE v == d.verdict
           allowed == Ends(req, v) /\ Resolved(req, v) # "block"
<1>1. /\ x.error = d.error /\ x.executed = d.executed /\ x.exfiltrated = d.exfiltrated
      /\ x.allowed = allowed
  BY DEF Decision
<1>2. ~x.error /\ ~x.executed /\ ~x.exfiltrated
  BY <1>1 DEF NothingDone
<1>3. d.executed \in BOOLEAN /\ d.exfiltrated \in BOOLEAN
  BY DEF Decision
<1>4. HasCall(req) => ~allowed
  BY DEF Ends
<1>5. ASSUME ~HasCall(req), Enforce, allowed
      PROVE  ContentPasses(req)
  <2>1. ~Refused(req, v)
    BY <1>5 DEF Resolved
  <2>2. v = JudgeContent(InjectionScore(req))
    BY <1>5
  <2>3. /\ InjectionScore(req) \in Percent
        /\ Config.thresholds.injection_block \in Percent
        /\ Config.thresholds.injection_sanitize \in Percent
    BY InjectionScoreType, ThresholdFacts
  <2>4. InjectionScore(req) < Config.thresholds.injection_block
    BY <2>1, <2>2, <2>3, PercentOrder DEF JudgeContent, Refused
  <2>5. InjectionScore(req) >= Config.thresholds.injection_sanitize => ~StillInjected(req)
    BY <2>1, <2>2, <2>3, <2>4 DEF JudgeContent, Refused, Percent
  <2> QED BY <1>5, <2>4, <2>5 DEF ContentPasses
<1>6. ~Enforce => (HasCall(req) => FALSE) /\ allowed
  <2>1. ~Enforce => Resolved(req, v) # "block"
    BY DEF Resolved, Refused
  <2> QED BY <2>1 DEF Ends
<1>7. allowed \in BOOLEAN
  OBVIOUS
<1> HIDE DEF allowed
<1> QED BY ZenonT(60), <1>1, <1>2, <1>3, <1>4, <1>5, <1>6, <1>7 DEF Sound, NoEffect

-----------------------------------------------------------------------------
(* A step keeps its request on course *)

\* The stage each action starts from.
LEMMA StageBefore ==
    ASSUME NEW w \in Workers
    PROVE  /\ Sanitize(w) => job[w].stage = "sanitize"
           /\ EnforcePolicy(w) => job[w].stage = "enforce"
           /\ ObserveAttempt(w) => job[w].stage = "observe"
           /\ JudgeAttempt(w) => job[w].stage = "judge"
           /\ Resolve(w) => job[w].stage = "resolve"
           /\ RouteAndExecute(w) => job[w].stage = "execute"
           /\ CommitBehaviour(w) => job[w].stage = "commit"
           /\ CommitLocked(w) => job[w].stage = "locked"
           /\ Account(w) => job[w].stage = "account"
           /\ Emit(w) => job[w].stage = "emit"
           /\ CountExfil(w) \/ Return(w) => job[w].stage = "count_exfil"
           /\ FailClosed(w) => job[w].stage = "fail_closed"
BY DEF Sanitize, EnforcePolicy, ObserveAttempt, JudgeAttempt, Resolve, RouteAndExecute,
       CommitBehaviour, CommitLocked, Account, Emit, CountExfil, Incr, Return, FailClosed, At

\* A Decision whose verdict changes stays blank.
LEMMA BlankKeeps ==
    ASSUME NEW d \in Decision, NothingDone(d), NEW verdict, NEW x,
           x = [d EXCEPT !.verdict = verdict]
    PROVE  NothingDone(x) /\ x.verdict = verdict
BY DEF Decision, NothingDone

\* Blocking an oversized request is a truthful answer.
LEMMA BlockedIsSound ==
    ASSUME NEW d \in Decision, NothingDone(d), NEW req, Oversized(req),
           NEW x, x = [d EXCEPT !.verdict = "block", !.would_block = TRUE]
    PROVE  Sound(x, req, NoEffect)
<1>1. /\ x.error = d.error /\ x.allowed = d.allowed /\ x.executed = d.executed
      /\ x.exfiltrated = d.exfiltrated
  BY DEF Decision
<1>2. d.executed \in BOOLEAN /\ d.exfiltrated \in BOOLEAN /\ d.allowed \in BOOLEAN
  BY DEF Decision
<1>3. ~x.error /\ x.allowed = FALSE /\ x.executed = FALSE /\ x.exfiltrated = FALSE
  BY <1>1, <1>2 DEF NothingDone
<1> QED BY <1>3 DEF Sound, NoEffect

\* A step of its worker keeps a request on course ...
LEMMA MidwayStep ==
    ASSUME GatewayTypeOK, NEW w \in Workers, Step(w), job'[w] # IdleJob,
           Midway(job[w], Req(w), effect[job[w].id])
    PROVE  Midway(job'[w], Req(w), effect'[job[w].id])
<1> DEFINE j == job[w]
           req == Req(w)
           e == effect[job[w].id]
<1>1. j.dec \in Decision /\ req \in Requests /\ j.id \in Ids /\ j.stage \in Stages
  BY StepFacts
<1>2. ~RouteAndExecute(w) => effect'[j.id] = e
  BY FrameStep
<1>3. CASE Sanitize(w)
  <2>1. e = NoEffect /\ NothingDone(j.dec)
    BY <1>3, StageBefore DEF Midway, Early
  <2>2. ~RouteAndExecute(w)
    BY <1>3, StageBefore
  <2>3. CASE job'[w].stage = "enforce"
    BY <1>2, <1>3, <2>1, <2>2, <2>3, SanitizeShape DEF Midway, Early, Late
  <2>4. CASE job'[w].stage = "commit"
    <3>1. Sound(job'[w].dec, req, e)
      BY <1>1, <1>3, <2>1, <2>4, SanitizeShape, BlockedIsSound
    <3> QED BY <1>2, <2>2, <2>4, <3>1 DEF Midway, Early, Late
  <2> QED BY <1>3, <2>3, <2>4, SanitizeShape
<1>4. CASE EnforcePolicy(w) \/ ObserveAttempt(w) \/ JudgeAttempt(w)
  <2>1. e = NoEffect /\ NothingDone(j.dec) /\ ~Oversized(req)
    BY <1>4, StageBefore DEF Midway, Early
  <2>2. effect'[j.id] = e
    BY <1>2, <1>4, StageBefore
  <2>3. /\ job'[w].stage \in {"observe", "judge", "resolve"}
        /\ job'[w].stage \in {"observe", "judge"} => HasCall(req)
        /\ NothingDone(job'[w].dec)
    <3>1. CASE EnforcePolicy(w)
      BY ZenonT(60), <1>1, <2>1, <3>1, EnforcePolicyShape, BlankKeeps
    <3>2. CASE ObserveAttempt(w)
      BY <1>1, <2>1, <3>2, StageAfter, StageBefore, LaterShape DEF Step, Midway
    <3>3. CASE JudgeAttempt(w)
      BY <1>1, <2>1, <3>3, JudgeAttemptShape, BlankKeeps
    <3> QED BY <1>4, <3>1, <3>2, <3>3
  <2>4. ASSUME job'[w].stage = "resolve", ~HasCall(req)
        PROVE  job'[w].dec.verdict = JudgeContent(InjectionScore(req))
    <3>1. EnforcePolicy(w)
      <4>1. ~ObserveAttempt(w)
        BY <1>1, <2>4, StageAfter
      <4>2. ~JudgeAttempt(w)
        BY <2>4, StageBefore DEF Midway
      <4> QED BY <1>4, <4>1, <4>2
    <3> QED BY ZenonT(60), <1>1, <2>1, <2>4, <3>1, EnforcePolicyShape, BlankKeeps
  <2> QED BY <2>1, <2>2, <2>3, <2>4 DEF Midway, Early, Late
<1>5. CASE Resolve(w)
  <2>1. /\ e = NoEffect /\ NothingDone(j.dec) /\ ~Oversized(req)
        /\ ~HasCall(req) => j.dec.verdict = JudgeContent(InjectionScore(req))
    BY <1>5, StageBefore DEF Midway, Early
  <2>2. effect'[j.id] = e
    BY <1>2, <1>5, StageBefore
  <2>3. PICK scrub \in BOOLEAN :
            job'[w].dec = [j.dec EXCEPT
              !.verdict = Resolved(req, j.dec.verdict),
              !.would_block = Refused(req, j.dec.verdict), !.scrubbed = scrub,
              !.allowed = Ends(req, j.dec.verdict) /\ Resolved(req, j.dec.verdict) # "block"]
    BY <1>5, ResolveShape
  <2>4. CASE Ends(req, j.dec.verdict)
    <3>1. job'[w].stage = "commit"
      BY <1>5, <2>4, ResolveShape
    <3>2. Sound(job'[w].dec, req, NoEffect)
      BY <1>1, <2>1, <2>3, <2>4, ResolutionIsSound
    <3> QED BY <2>1, <2>2, <3>1, <3>2 DEF Midway, Early, Late
  <2>5. CASE ~Ends(req, j.dec.verdict)
    <3>1. job'[w].stage = "execute" /\ HasCall(req)
      BY <1>5, <2>5, ResolveShape DEF Ends
    <3>2. NothingDone(job'[w].dec)
      BY <1>1, <2>1, <2>3, <2>5 DEF NothingDone, Decision
    <3> QED BY <2>1, <2>2, <3>1, <3>2 DEF Midway, Early, Late
  <2> QED BY <2>4, <2>5
<1>6. CASE RouteAndExecute(w)
  <2>1. e = NoEffect /\ NothingDone(j.dec) /\ HasCall(req)
    BY <1>6, StageBefore DEF Midway, Early
  <2> DEFINE result(d, verdict, tier, out) ==
               Entered(d, verdict, ~out.blocked, tier, d.would_block \/ out.attempt,
                       out.attempt, out.exfiltrated)
             outside(isolate, out) ==
               [ran |-> ~out.blocked, isolated |-> isolate, leaked |-> out.exfiltrated]
  <2>2. PICK tier \in Tiers, isolate \in BOOLEAN, verdict \in Verdicts :
             LET out == Execute(tier, Req(w).call, Enforce)
             IN  /\ isolate <=> job[w].force \/ job[w].dec.verdict = "quarantine"
                 /\ verdict = IF out.blocked /\ job[w].dec.verdict # "quarantine"
                              THEN "block" ELSE job[w].dec.verdict
                 /\ effect' = [effect EXCEPT ![job[w].id] =
                        [ran |-> ~out.blocked, isolated |-> isolate,
                         leaked |-> out.exfiltrated]]
                 /\ job'[w].stage = "commit"
                 /\ job'[w].dec = Entered(job[w].dec, verdict, ~out.blocked, tier,
                                    job[w].dec.would_block \/ out.attempt, out.attempt,
                                    out.exfiltrated)
    BY ONLY GatewayTypeOK, w \in Workers, <1>6, RouteAndExecuteShape
  <2> DEFINE out == Execute(tier, req.call, Enforce)
  <2>3. Sound(result(j.dec, verdict, tier, out), req, outside(isolate, out))
    BY <1>1, <2>1, ExecutionIsSound
  <2>4. /\ effect' = [effect EXCEPT ![j.id] = outside(isolate, out)]
        /\ job'[w].stage = "commit" /\ job'[w].dec = result(j.dec, verdict, tier, out)
    BY ONLY <2>2
  <2> HIDE DEF result, outside, out
  <2>5. effect'[j.id] = outside(isolate, out)
    BY <1>1, <2>4 DEF GatewayTypeOK, Ids
  <2>6. Sound(job'[w].dec, req, effect'[j.id])
    BY <2>3, <2>4, <2>5
  <2> QED BY <2>4, <2>6 DEF Midway, Early, Late
<1>7. CASE CommitBehaviour(w) \/ CommitLocked(w) \/ Account(w) \/ Emit(w) \/ CountExfil(w)
  <2>1. Sound(j.dec, req, e)
    BY <1>7, StageBefore DEF Midway, Late
  <2>2. effect'[j.id] = e
    BY <1>2, <1>7, StageBefore
  <2>3. job'[w].dec = j.dec
    BY <1>7, LaterShape
  <2>4. job'[w].stage \in Late
    BY <1>1, <1>7, StageAfter DEF Late
  <2> QED BY <2>1, <2>2, <2>3, <2>4 DEF Midway, Early, Late
<1>8. ~Return(w) /\ ~FailClosed(w)
  BY LaterShape
<1> QED BY <1>3, <1>4, <1>5, <1>6, <1>7, <1>8 DEF Step

\* ... keeps one that must be stopped away from its execution ...
LEMMA StoppedStep ==
    ASSUME GatewayTypeOK, NEW w \in Workers, Step(w), job'[w] # IdleJob,
           Midway(job[w], Req(w), effect[job[w].id]),
           Stopped(job[w], Req(w), effect[job[w].id])
    PROVE  Stopped(job'[w], Req(w), effect'[job[w].id])
<1> DEFINE j == job[w]
           req == Req(w)
           e == effect[job[w].id]
<1>1. j.dec \in Decision /\ req \in Requests /\ j.stage \in Stages
  BY StepFacts
<1>2. ~RouteAndExecute(w) => effect'[j.id] = e
  BY FrameStep
<1> SUFFICES ASSUME MustStop(req)
             PROVE  /\ ~effect'[j.id].ran
                    /\ job'[w].stage = "resolve" => job'[w].dec.verdict = "block"
                    /\ job'[w].stage # "execute"
                    /\ job'[w].stage \in Late => ~job'[w].dec.allowed
  BY DEF Stopped
<1>3. /\ ~e.ran
      /\ j.stage = "resolve" => j.dec.verdict = "block"
      /\ j.stage # "execute"
      /\ j.stage \in Late => ~j.dec.allowed
  BY DEF Stopped
<1>4. /\ InjectionScore(req) >= Config.thresholds.injection_block
      /\ HasCall(req) => PolicyCheck(req.role, req.call.tool) # "soft"
      /\ Enforce
  BY DEF MustStop, SoftFailure
<1>5. ~RouteAndExecute(w) /\ effect'[j.id] = e
  BY <1>2, <1>3, StageBefore
<1>6. CASE Sanitize(w)
  <2>1. NothingDone(j.dec)
    BY <1>6, StageBefore DEF Midway, Early
  <2>2. CASE job'[w].stage = "commit"
    <3>1. job'[w].dec.allowed = j.dec.allowed
      BY <1>1, <1>6, <2>2, SanitizeShape DEF Decision
    <3> QED BY <1>3, <1>5, <2>1, <2>2, <3>1 DEF NothingDone
  <2> QED BY <1>3, <1>5, <1>6, <2>2, SanitizeShape DEF Late
<1>7. CASE EnforcePolicy(w)
  <2>1. JudgeContent(InjectionScore(req)) = "block"
    BY <1>4 DEF JudgeContent
  <2>2. job'[w].stage = "resolve" => job'[w].dec.verdict = "block"
    BY <1>1, <1>4, <1>7, <2>1, EnforcePolicyShape DEF Decision
  <2> QED BY <1>3, <1>5, <1>7, <2>2, EnforcePolicyShape DEF Late
<1>8. CASE ObserveAttempt(w)
  BY <1>1, <1>3, <1>5, <1>8, StageAfter DEF Late
<1>9. CASE JudgeAttempt(w)
  <2>1. Judge(req.call.tool, InjectionScore(req), op[w].keep, Scale) = "block"
    BY <1>4 DEF Judge, MustBlock
  <2>2. job'[w].dec.verdict = "block" /\ job'[w].stage = "resolve"
    BY <1>1, <1>9, <2>1, JudgeAttemptShape DEF Decision
  <2> QED BY <1>3, <1>5, <2>2 DEF Late
<1>10. CASE Resolve(w)
  <2>1. j.dec.verdict = "block"
    BY <1>3, <1>10, StageBefore
  <2>2. Resolved(req, j.dec.verdict) = "block" /\ Ends(req, j.dec.verdict)
    BY <1>4, <2>1 DEF Resolved, Refused, Ends
  <2>3. job'[w].stage = "commit"
    BY <1>10, <2>2, ResolveShape
  <2> DEFINE allowed == Ends(req, j.dec.verdict) /\ Resolved(req, j.dec.verdict) # "block"
  <2>4. PICK scrub \in BOOLEAN :
            job'[w].dec = [j.dec EXCEPT !.verdict = Resolved(req, j.dec.verdict),
                                        !.would_block = Refused(req, j.dec.verdict),
                                        !.scrubbed = scrub, !.allowed = allowed]
    BY <1>10, ResolveShape
  <2>5. ~job'[w].dec.allowed
    <3>1. ~allowed
      BY <2>2
    <3> HIDE DEF allowed
    <3> QED BY <1>1, <2>4, <3>1 DEF Decision
  <2> QED BY <1>3, <1>5, <2>3, <2>5
<1>11. CASE CommitBehaviour(w) \/ CommitLocked(w) \/ Account(w) \/ Emit(w) \/ CountExfil(w)
  <2>1. j.stage \in Late
    BY <1>11, StageBefore DEF Late
  <2>2. job'[w].dec = j.dec
    BY <1>11, LaterShape
  <2>3. job'[w].stage \in Late
    BY <1>1, <1>11, StageAfter DEF Late
  <2> QED BY <1>3, <1>5, <2>1, <2>2, <2>3 DEF Late
<1>12. ~Return(w) /\ ~FailClosed(w)
  BY LaterShape
<1> QED BY <1>5, <1>6, <1>7, <1>8, <1>9, <1>10, <1>11, <1>12 DEF Step

\* ... and writes its audit record exactly once.
LEMMA AuditedStep ==
    ASSUME GatewayTypeOK, NEW w \in Workers, Step(w), job'[w] # IdleJob,
           AuditedSoFar(job[w], audited[job[w].id])
    PROVE  AuditedSoFar(job'[w], audited'[job[w].id])
<1>1. job[w].id \in Ids /\ job[w].stage \in Stages
  BY StepFacts
<1>2. ~Return(w) /\ ~FailClosed(w)
  BY LaterShape
<1>3. CASE Emit(w)
  <2>1. audited[job[w].id] = {}
    BY <1>3, StageBefore DEF AuditedSoFar
  <2>2. audited' = [audited EXCEPT ![job[w].id] = @ \cup {AuditRecord(job[w].dec)}]
    BY <1>3 DEF Emit
  <2>3. audited'[job[w].id] = {AuditRecord(job[w].dec)}
    BY <1>1, <2>1, <2>2 DEF GatewayTypeOK, Ids
  <2> QED BY <1>3, <2>3, LaterShape DEF AuditedSoFar
<1>4. CASE CountExfil(w)
  BY <1>2, <1>4, FrameStep, LaterShape, StageBefore DEF AuditedSoFar
<1>5. CASE ~Emit(w) /\ ~CountExfil(w)
  <2>1. audited' = audited
    BY <1>2, <1>5, FrameStep
  <2>2. job[w].stage # "count_exfil" /\ job'[w].stage # "count_exfil"
    BY <1>1, <1>2, <1>5, StageBefore, StageAfter DEF Step
  <2> QED BY <2>1, <2>2 DEF AuditedSoFar
<1> QED BY <1>3, <1>4, <1>5

-----------------------------------------------------------------------------
(* The invariants hold *)

\* The fail-closed decision allows nothing and reports the error.
LEMMA FailClosedFacts ==
    /\ FailClosedDecision \in Decision
    /\ FailClosedDecision.error /\ ~FailClosedDecision.allowed
    /\ ~FailClosedDecision.executed /\ FailClosedDecision.would_block
BY DEF FailClosedDecision, Undecided, Decision, Verdicts

\* An answered request can be told from one that is not.
LEMMA PendingIsNoDecision == Pending \notin Decision
<1>1. \A d \in Decision : DOMAIN d = {"verdict", "allowed", "executed", "tier",
        "would_block", "scrubbed", "attempt", "exfiltrated", "error"}
  BY DEF Decision
<1>2. DOMAIN Pending = {"pending"}
  BY DEF Pending
<1> QED BY <1>1, <1>2

\* A worker concludes with the decision it reached, or with the fail-closed one.
LEMMA Conclusion ==
    ASSUME GatewayTypeOK, NEW w \in Workers, Step(w), job'[w] = IdleJob
    PROVE  /\ Return(w) \/ FailClosed(w)
           /\ answer'[job[w].id] = IF Return(w) THEN job[w].dec ELSE FailClosedDecision
           /\ answer'[job[w].id] # Pending
<1>1. job[w].id \in Ids /\ job[w].stage \in Stages /\ job[w].dec \in Decision
  BY StepFacts
<1>2. Return(w) \/ FailClosed(w)
  BY <1>1, StageAfter DEF Step, IdleJob
<1>3. answer'[job[w].id] = IF Return(w) THEN job[w].dec ELSE FailClosedDecision
  BY <1>1, <1>2, StageBefore DEF Return, FailClosed, Conclude, GatewayTypeOK, Ids
<1>4. answer'[job[w].id] \in Decision
  BY <1>1, <1>3, FailClosedFacts
<1> QED BY <1>2, <1>3, <1>4, PendingIsNoDecision

\* The step that ends a request concludes it truthfully.
LEMMA ConcludedStep ==
    ASSUME GatewayTypeOK, NEW w \in Workers, Step(w), job'[w] = IdleJob,
           OnCourse(job[w], Req(w), effect[job[w].id], audited[job[w].id])
    PROVE  Concluded(answer'[job[w].id], Req(w), effect'[job[w].id], audited'[job[w].id])
<1> DEFINE id == job[w].id
<1>1. id \in Ids /\ job[w].stage \in Stages
  BY StepFacts
<1>2. effect'[id] = effect[id]
  BY Conclusion, FrameStep, StageBefore
<1>3. CASE Return(w)
  <2>1. answer'[id] = job[w].dec /\ job[w].stage = "count_exfil"
    BY <1>3, Conclusion, StageBefore
  <2>2. audited' = audited
    BY <1>3, <2>1, StageBefore, FrameStep
  <2>3. /\ Sound(job[w].dec, Req(w), effect[id])
        /\ audited[id] = {AuditRecord(job[w].dec)}
        /\ MustStop(Req(w)) => ~effect[id].ran /\ ~job[w].dec.allowed
    BY <2>1 DEF OnCourse, Midway, AuditedSoFar, Stopped, Late
  <2> QED BY <1>2, <2>1, <2>2, <2>3 DEF Concluded
<1>4. CASE FailClosed(w)
  <2>1. answer'[id] = FailClosedDecision /\ job[w].stage = "fail_closed"
    BY <1>4, Conclusion, StageBefore
  <2>2. audited[id] = {} /\ (MustStop(Req(w)) => ~effect[id].ran)
    BY <2>1 DEF OnCourse, AuditedSoFar, Stopped
  <2>3. \/ audited' = [audited EXCEPT ![id] = @ \cup {AuditRecord(FailClosedDecision)}]
        \/ audited' = audited
    BY <1>4 DEF FailClosed
  <2>4. audited'[id] = {AuditRecord(FailClosedDecision)} \/ audited'[id] = {}
    BY <1>1, <2>2, <2>3 DEF GatewayTypeOK, Ids
  <2> QED BY <1>2, <2>1, <2>2, <2>4, FailClosedFacts DEF Concluded
<1> QED BY <1>3, <1>4, Conclusion

\* Entering a request adds it, unanswered, and leaves the others alone.
LEMMA SubmitFacts ==
    ASSUME GatewayTypeOK, NEW w \in Workers, NEW req \in Requests, Submit(w, req)
    PROVE  LET new == Len(asked) + 1
           IN  /\ Ids' = Ids \cup {new} /\ new \notin Ids
               /\ \A i \in Ids : /\ asked'[i] = asked[i] /\ effect'[i] = effect[i]
                                 /\ answer'[i] = answer[i] /\ audited'[i] = audited[i]
               /\ asked'[new] = req /\ effect'[new] = NoEffect
               /\ answer'[new] = Pending /\ audited'[new] = {}
               /\ ~Busy(w)
               /\ \A v \in Workers \ {w} : job'[v] = job[v]
               /\ job'[w].stage = "sanitize" /\ job'[w].id = new
               /\ job'[w].dec = Undecided /\ job'[w].todo = <<>>
               /\ job'[w] # IdleJob
<1> DEFINE new == Len(asked) + 1
<1>1. Len(asked) \in Nat /\ Len(effect) = Len(asked) /\ Len(answer) = Len(asked)
      /\ Len(audited) = Len(asked) /\ asked \in Seq(Requests) /\ effect \in Seq(Effect)
      /\ answer \in Seq(Decision \cup {Pending}) /\ audited \in Seq(SUBSET AuditRecords)
  BY DEF GatewayTypeOK
<1>2. /\ asked' = Append(asked, req) /\ effect' = Append(effect, NoEffect)
      /\ answer' = Append(answer, Pending) /\ audited' = Append(audited, {})
  BY DEF Submit
<1>3. Ids' = Ids \cup {new} /\ new \notin Ids
  BY <1>1, <1>2 DEF Ids
<1>4. \A i \in Ids : /\ asked'[i] = asked[i] /\ effect'[i] = effect[i]
                     /\ answer'[i] = answer[i] /\ audited'[i] = audited[i]
  BY <1>1, <1>2 DEF Ids
<1>5. /\ asked'[new] = req /\ effect'[new] = NoEffect
      /\ answer'[new] = Pending /\ audited'[new] = {}
  BY <1>1, <1>2
<1>6. /\ ~Busy(w) /\ \A v \in Workers \ {w} : job'[v] = job[v]
      /\ job'[w].stage = "sanitize" /\ job'[w].id = new
      /\ job'[w].dec = Undecided /\ job'[w].todo = <<>>
  BY DEF Submit, Busy, GatewayTypeOK
<1>7. job'[w] # IdleJob
  BY <1>6 DEF IdleJob
<1> QED BY <1>3, <1>4, <1>5, <1>6, <1>7

\* A new request has one owner.
LEMMA OwnedSubmit ==
    ASSUME GatewayTypeOK, Owned, NEW w \in Workers, NEW req \in Requests, Submit(w, req)
    PROVE  Owned'
<1> DEFINE new == Len(asked) + 1
<1>1. /\ Ids' = Ids \cup {new} /\ new \notin Ids
      /\ \A i \in Ids : answer'[i] = answer[i]
      /\ answer'[new] = Pending
      /\ ~Busy(w) /\ job'[w] # IdleJob /\ job'[w].id = new
      /\ \A v \in Workers \ {w} : job'[v] = job[v]
  BY SubmitFacts
<1>2. \A v \in Workers : Busy(v) => job[v].id \in Ids
  BY BusyFacts
<1> HIDE DEF new
<1> QED BY SMTT(60), <1>1, <1>2 DEF Owned, Busy, Answered

\* A step does not take a request from its owner before it is answered.
LEMMA OwnedStep ==
    ASSUME GatewayTypeOK, Owned, NEW w \in Workers, Step(w) \/ Raise(w)
    PROVE  Owned'
<1> DEFINE id == job[w].id
<1>1. /\ Busy(w) /\ id \in Ids /\ Ids' = Ids
      /\ \A v \in Workers \ {w} : job'[v] = job[v]
      /\ job'[w] = IdleJob \/ job'[w].id = id
      /\ \A i \in Ids \ {id} : answer'[i] = answer[i]
      /\ ~Return(w) /\ ~FailClosed(w) => answer' = answer
  BY StepFacts, FrameStep
<1>2. \A v \in Workers : Busy(v) => job[v].id \in Ids
  BY BusyFacts
<1>3. CASE job'[w] = IdleJob
  <2>1. answer'[id] # Pending
    <3>1. ~Raise(w)
      BY <1>3, LaterShape DEF IdleJob
    <3> QED BY <1>3, <3>1, Conclusion
  <2> HIDE DEF id
  <2>2. \A v \in Workers \ {w} : Busy(v) => job[v].id # id
    BY <1>1 DEF Owned, id
  <2>3. \A v \in Workers : Busy(v)' => v # w /\ Busy(v) /\ job'[v].id = job[v].id
    BY <1>1, <1>3 DEF Busy
  <2>4. \A v \in Workers : Busy(v)' => answer'[job'[v].id] = Pending
    BY <1>1, <1>2, <2>2, <2>3 DEF Owned, Answered
  <2>5. \A u, v \in Workers : Busy(u)' /\ Busy(v)' /\ job'[u].id = job'[v].id => u = v
    BY <2>3 DEF Owned
  <2>6. ASSUME NEW i \in Ids', answer'[i] = Pending
        PROVE  \E v \in Workers : Busy(v)' /\ job'[v].id = i
    <3>1. i \in Ids /\ i # id /\ answer[i] = Pending
      BY <1>1, <2>1, <2>6
    <3>2. PICK v \in Workers : Busy(v) /\ job[v].id = i
      BY <3>1 DEF Owned, Answered
    <3>3. v # w
      BY <3>1, <3>2 DEF id
    <3> QED BY <1>1, <3>2, <3>3 DEF Busy
  <2> QED BY <2>4, <2>5, <2>6 DEF Owned, Answered
<1>4. CASE job'[w] # IdleJob
  <2>1. answer' = answer
    BY <1>1, <1>4, LaterShape
  <2>2. job'[w].id = id
    BY <1>1, <1>4
  <2>3. \A v \in Workers : /\ Busy(v)' <=> Busy(v)
                           /\ job'[v].id = job[v].id
    BY <1>1, <1>4, <2>2 DEF Busy
  <2> HIDE DEF id
  <2> QED BY SMTT(60), <1>1, <2>1, <2>3 DEF Owned, Answered
<1> QED BY <1>3, <1>4

\* Initially there is no request.
LEMMA RequestInvInit == GInit => RequestInv
BY DEF GInit, RequestInv, Owned, Busy, Ids

\* A new request is on course.
LEMMA RequestInvSubmit ==
    ASSUME GatewayTypeOK, RequestInv, NEW w \in Workers, NEW req \in Requests, Submit(w, req)
    PROVE  RequestInv'
<1> DEFINE new == Len(asked) + 1
<1>1. Owned'
  BY OwnedSubmit DEF RequestInv
<1>2. /\ Ids' = Ids \cup {new} /\ new \notin Ids
      /\ \A i \in Ids : /\ asked'[i] = asked[i] /\ effect'[i] = effect[i]
                        /\ answer'[i] = answer[i] /\ audited'[i] = audited[i]
      /\ asked'[new] = req /\ effect'[new] = NoEffect
      /\ answer'[new] = Pending /\ audited'[new] = {}
      /\ \A v \in Workers \ {w} : job'[v] = job[v]
      /\ job'[w].stage = "sanitize" /\ job'[w].id = new /\ job'[w].dec = Undecided
  BY SubmitFacts
<1>3. \A v \in Workers : Busy(v) => job[v].id \in Ids
  BY BusyFacts
<1> HIDE DEF new
<1>4. OnCourse(job'[w], req, NoEffect, {})
  BY <1>2 DEF OnCourse, Midway, AuditedSoFar, Stopped, Early, Late, NothingDone, Undecided,
              NoEffect
<1>5. ASSUME NEW v \in Workers, Busy(v)'
      PROVE  OnCourse(job[v], Req(v), effect[job[v].id], audited[job[v].id])'
  <2>1. CASE v = w
    BY <1>2, <1>4, <2>1 DEF Req
  <2>2. CASE v # w
    <3>1. job'[v] = job[v] /\ Busy(v)
      BY <1>2, <1>5, <2>2 DEF Busy
    <3>2. job[v].id \in Ids
      BY <1>3, <3>1
    <3>3. OnCourse(job[v], asked[job[v].id], effect[job[v].id], audited[job[v].id])
      BY <3>1 DEF RequestInv, Req
    <3>4. OnCourse(job'[v], asked'[job'[v].id], effect'[job'[v].id], audited'[job'[v].id])
      BY <1>2, <3>1, <3>2, <3>3
    <3> QED BY <3>4 DEF Req
  <2> QED BY <2>1, <2>2
<1>6. ASSUME NEW i \in Ids', Answered(i)'
      PROVE  Concluded(answer[i], asked[i], effect[i], audited[i])'
  <2>1. i \in Ids /\ Answered(i)
    BY <1>2, <1>6 DEF Answered
  <2>2. Concluded(answer[i], asked[i], effect[i], audited[i])
    BY <2>1 DEF RequestInv
  <2>3. Concluded(answer'[i], asked'[i], effect'[i], audited'[i])
    BY <1>2, <2>1, <2>2
  <2> QED BY <2>3
<1> QED BY <1>1, <1>5, <1>6 DEF RequestInv

\* A worker's step keeps its own request on course and touches no other.
LEMMA RequestInvMove ==
    ASSUME GatewayTypeOK, RequestInv, NEW w \in Workers, Step(w) \/ Raise(w)
    PROVE  RequestInv'
<1> DEFINE id == job[w].id
<1>1. Owned'
  BY OwnedStep DEF RequestInv
<1>2. /\ Busy(w) /\ id \in Ids /\ Ids' = Ids /\ asked' = asked
      /\ \A v \in Workers \ {w} : job'[v] = job[v]
      /\ job'[w] = IdleJob \/ job'[w].id = id
      /\ \A i \in Ids \ {id} : /\ effect'[i] = effect[i]
                               /\ answer'[i] = answer[i]
                               /\ audited'[i] = audited[i]
  BY StepFacts, FrameStep
<1>3. \A v \in Workers : Busy(v) => job[v].id \in Ids
  BY BusyFacts
<1>4. \A v \in Workers \ {w} : Busy(v) => job[v].id # id
  BY <1>2 DEF RequestInv, Owned
<1>5. OnCourse(job[w], Req(w), effect[id], audited[id])
  BY <1>2 DEF RequestInv
<1>6. job'[w] # IdleJob => OnCourse(job'[w], Req(w), effect'[id], audited'[id])
  <2>1. CASE Raise(w)
    <3>1. job'[w].stage = "fail_closed"
      BY <2>1, LaterShape
    <3>2. effect' = effect /\ audited' = audited
      BY <2>1 DEF Raise, World, Record
    <3>3. job[w].stage # "count_exfil"
      BY <2>1 DEF Raise, RaisingStages
    <3> QED BY <1>5, <3>1, <3>2, <3>3
            DEF OnCourse, Midway, AuditedSoFar, Stopped, Early, Late
  <2>2. CASE Step(w)
    BY <1>5, <2>2, MidwayStep, AuditedStep, StoppedStep DEF OnCourse
  <2> QED BY <2>1, <2>2
<1>7. ASSUME NEW v \in Workers, Busy(v)'
      PROVE  OnCourse(job[v], Req(v), effect[job[v].id], audited[job[v].id])'
  <2>1. CASE v = w
    <3>1. job'[w] # IdleJob
      BY <1>7, <2>1 DEF Busy
    <3>2. job'[w].id = id
      BY <1>2, <3>1
    <3>3. OnCourse(job'[w], asked'[job'[w].id], effect'[job'[w].id], audited'[job'[w].id])
      BY <1>2, <1>6, <3>1, <3>2 DEF Req
    <3> QED BY <2>1, <3>3 DEF Req
  <2>2. CASE v # w
    <3>1. job'[v] = job[v] /\ Busy(v)
      BY <1>2, <1>7, <2>2 DEF Busy
    <3>2. job[v].id \in Ids \ {id}
      BY <1>3, <1>4, <2>2, <3>1
    <3>3. OnCourse(job[v], asked[job[v].id], effect[job[v].id], audited[job[v].id])
      BY <3>1 DEF RequestInv, Req
    <3>4. OnCourse(job'[v], asked'[job'[v].id], effect'[job'[v].id], audited'[job'[v].id])
      <4> HIDE DEF id
      <4> QED BY <1>2, <3>1, <3>2, <3>3
    <3> QED BY <3>4 DEF Req
  <2> QED BY <2>1, <2>2
<1>8. ASSUME NEW i \in Ids', Answered(i)'
      PROVE  Concluded(answer[i], asked[i], effect[i], audited[i])'
  <2>1. CASE i # id
    <3>1. i \in Ids \ {id} /\ Answered(i)
      BY <1>2, <1>8, <2>1 DEF Answered
    <3>2. Concluded(answer[i], asked[i], effect[i], audited[i])
      BY <3>1 DEF RequestInv
    <3>3. Concluded(answer'[i], asked'[i], effect'[i], audited'[i])
      <4> HIDE DEF id
      <4> QED BY <1>2, <3>1, <3>2
    <3> QED BY <3>3
  <2>2. CASE i = id
    <3>1. answer[id] = Pending
      BY <1>2 DEF RequestInv, Owned, Answered
    <3>2. answer'[id] # Pending
      BY <1>8, <2>2 DEF Answered
    <3>3. Return(w) \/ FailClosed(w)
      BY <3>1, <3>2, FrameStep
    <3>4. job'[w] = IdleJob /\ Step(w)
      BY <3>3, LaterShape DEF Step
    <3>5. Concluded(answer'[id], Req(w), effect'[id], audited'[id])
      BY <1>5, <3>4, ConcludedStep
    <3>6. Concluded(answer'[i], asked'[i], effect'[i], audited'[i])
      BY <1>2, <2>2, <3>5 DEF Req
    <3> QED BY <3>6
  <2> QED BY <2>1, <2>2
<1> QED BY <1>1, <1>7, <1>8 DEF RequestInv

\* Every step keeps the invariant.
LEMMA RequestInvStep == TypeInv /\ RequestInv /\ [GNext]_allvars => RequestInv'
<1> SUFFICES ASSUME TypeInv, RequestInv, [GNext]_allvars PROVE RequestInv'
  OBVIOUS
<1>1. GatewayTypeOK
  BY DEF TypeInv
<1>2. CASE GTick \/ UNCHANGED allvars
  <2>1. UNCHANGED <<asked, effect, answer, audited, job>>
    BY <1>2 DEF GTick, gvars, allvars
  <2> QED BY <2>1 DEF RequestInv, Owned, Busy, Answered, Ids, Req
<1> QED BY <1>1, <1>2, RequestInvSubmit, RequestInvMove DEF GNext

\* The invariant holds in every behaviour.
LEMMA RequestsOnCourse == GSpec => [](TypeInv /\ RequestInv)
BY TypeInvInit, TypeInvStep, RequestInvInit, RequestInvStep, PTL DEF GSpec

-----------------------------------------------------------------------------
(* What follows for every request *)

\* The audit trail holds one record per answered request, with the answer's
\* content (gateway.py:283-287, 324-340), in every interleaving and with faults:
\* only the record of an internal error can be missing.
THEOREM AuditIsComplete == GSpec => []AuditMatchesAnswers
<1>1. RequestInv => AuditMatchesAnswers
  BY DEF RequestInv, Concluded, AuditMatchesAnswers
<1> QED BY <1>1, RequestsOnCourse, PTL

\* Content that scores injection_block or more is stopped in protected mode
\* (config.py:168, enforcer.py:79-82), whatever the tables: its tool does not run and
\* its answer lets nothing through, unless it is a call below the trust floor of an
\* unguarded tool (enforcer.py:55-63).
THEOREM AttacksAreRefused == GSpec => []BlockWorthyRefused
<1>1. GatewayTypeOK /\ RequestInv => BlockWorthyRefused
  <2> SUFFICES ASSUME GatewayTypeOK, RequestInv, Enforce, NEW id \in Ids, MustStop(asked[id])
               PROVE  ~effect[id].ran /\ (Answered(id) => ~answer[id].allowed)
    BY DEF BlockWorthyRefused, MustStop
  <2>1. CASE Answered(id)
    BY <2>1 DEF RequestInv, Concluded
  <2>2. CASE ~Answered(id)
    <3>1. PICK w \in Workers : Busy(w) /\ job[w].id = id
      BY <2>2 DEF RequestInv, Owned
    <3> QED BY <2>2, <3>1 DEF RequestInv, OnCourse, Stopped, Req
  <2> QED BY <2>1, <2>2
<1> QED BY <1>1, RequestsOnCourse, PTL DEF TypeInv

\* Monitor-only mode denies nothing it inspects (gateway.py:155-157): in every
\* configuration it runs every call and passes every content that fits.
THEOREM MonitorDeniesNothing == GSpec => []MonitorRunsWhatItInspects
<1>1. RequestInv => MonitorRunsWhatItInspects
  <2>1. ASSUME RequestInv, NEW id \in Ids, Answered(id), ~answer[id].error
        PROVE  Sound(answer[id], asked[id], effect[id])
    <3>1. Concluded(answer[id], asked[id], effect[id], audited[id])
      BY <2>1 DEF RequestInv
    <3>2. answer[id] # FailClosedDecision
      BY <2>1, FailClosedFacts
    <3> QED BY <3>1, <3>2 DEF Concluded
  <2> QED BY <2>1 DEF MonitorRunsWhatItInspects, Sound
<1> QED BY <1>1, RequestsOnCourse, PTL

\* A leak in monitor-only mode is always reported as one enforcement would have
\* blocked (gateway.py:243-245), for every tier table and every call.
THEOREM MonitorReportsLeaks == GSpec => []MonitorFlagsLeaks
<1>1. RequestInv => MonitorFlagsLeaks
  BY SMTT(60), FailClosedFacts DEF RequestInv, Concluded, Sound, MonitorFlagsLeaks
<1> QED BY <1>1, RequestsOnCourse, PTL

-----------------------------------------------------------------------------
(* The counters add the answers up *)

\* The argument: counters only ever says how often each key was counted, so we
\* say for whom.  A tally holds the keys counted for each request; a key is
\* counted at most once per request, in an order that puts totals before parts,
\* and each counter is the number of requests tallied under it.

\* The counters of verdicts.
VerdictKeys == {VerdictKey(v) : v \in Verdicts}

\* No part is counted before its total, and no request counts twice.
TotalsFirst(keys) ==
    /\ keys \cap (VerdictKeys \cup {"would_block", "tool_calls"}) # {}
         => "requests" \in keys
    /\ \A u, v \in Verdicts : {VerdictKey(u), VerdictKey(v)} \subseteq keys => u = v
    /\ keys \cap {"tool_executed", "tool_denied"} # {} => "tool_calls" \in keys
    /\ ~({"tool_executed", "tool_denied"} \subseteq keys)
    /\ "exfil_success" \in keys => "exfil_attempts" \in keys

\* Of keys, told have been counted and todo are still to be.
Progress(keys, todo, told) ==
    \E n \in 0..Len(keys) :
        /\ Len(todo) = Len(keys) - n
        /\ \A i \in 1..Len(todo) : todo[i] = keys[n + i]
        /\ told = {keys[i] : i \in 1..n}

\* All a decision on a request is counted under.
ReportKeys(req, d) == ToSet(FinalizeKeys(req, d)) \cup ToSet(ExfilKeys(d))

\* What a job says of the keys counted for its request so far.
CountedSoFar(j, req, told) ==
    LET keys == FinalizeKeys(req, j.dec)
    IN  /\ j.stage \in Early \cup {"commit"} => told = {}
        /\ j.stage = "locked" => told = {} /\ j.todo = keys
        /\ j.stage = "account" => Progress(keys, j.todo, told)
        /\ j.stage = "emit" => told = ToSet(keys)
        /\ j.stage = "count_exfil" =>
             /\ ToSet(keys) \subseteq told
             /\ Progress(ExfilKeys(j.dec), j.todo, told \ ToSet(keys))

\* The requests that a key was counted for.
CountedFor(tally, key) == {id \in Ids : key \in tally[id]}

\* tally holds the keys counted for each request: the counters are their sums.
Tallied(tally) ==
    /\ \A key \in CounterKeys : counters[key] = Cardinality(CountedFor(tally, key))
    /\ \A id \in Ids : TotalsFirst(tally[id])
    /\ \A id \in Ids : "errors" \in tally[id] <=> Answered(id) /\ answer[id].error
    /\ \A w \in Workers : Busy(w) => CountedSoFar(job[w], Req(w), tally[job[w].id])
    /\ \A id \in Ids : Answered(id) /\ ~answer[id].error
         => tally[id] = ReportKeys(asked[id], answer[id])

\* Without a fault nothing fails.
FaultsFail ==
    faults = 0 =>
        /\ \A w \in Workers : job[w].stage # "fail_closed"
        /\ \A id \in Ids : Answered(id) => ~answer[id].error

\* Counting starts with everything to do, ...
LEMMA ProgressStart ==
    ASSUME NEW S, NEW keys \in Seq(S)
    PROVE  Progress(keys, keys, {})
<1>1. Len(keys) \in Nat /\ 0 \in 0..Len(keys) /\ Len(keys) = Len(keys) - 0
  OBVIOUS
<1>2. \A i \in 1..Len(keys) : keys[i] = keys[0 + i]
  BY <1>1
<1>3. 1..0 = {}
  OBVIOUS
<1>4. {} = {keys[i] : i \in 1..0}
  BY <1>3
<1> QED BY <1>1, <1>2, <1>4 DEF Progress

\* ... counts one new key at each step, ...
LEMMA ProgressStep ==
    ASSUME NEW S, NEW keys \in Seq(S), Distinct(keys), NEW todo \in Seq(S), NEW told,
           Progress(keys, todo, told), todo # <<>>
    PROVE  /\ Head(todo) \notin told /\ Head(todo) \in ToSet(keys)
           /\ Progress(keys, Tail(todo), told \cup {Head(todo)})
<1>1. PICK n \in 0..Len(keys) :
        /\ Len(todo) = Len(keys) - n
        /\ \A i \in 1..Len(todo) : todo[i] = keys[n + i]
        /\ told = {keys[i] : i \in 1..n}
  BY DEF Progress
<1>2. n \in Nat /\ n + 1 \in 1..Len(keys) /\ Head(todo) = keys[n + 1]
      /\ 1 \in 1..Len(todo) /\ DOMAIN keys = 1..Len(keys) /\ Len(keys) \in Nat
  BY <1>1
<1>3. Head(todo) \notin told
  BY <1>1, <1>2 DEF Distinct
<1>4. told \cup {Head(todo)} = {keys[i] : i \in 1..(n + 1)}
  <2>1. 1..(n + 1) = 1..n \cup {n + 1}
    BY <1>2
  <2> QED BY <1>1, <1>2, <2>1
<1>5. /\ Len(Tail(todo)) = Len(keys) - (n + 1)
      /\ \A i \in 1..Len(Tail(todo)) : Tail(todo)[i] = keys[(n + 1) + i]
  BY <1>1, <1>2
<1>6. Progress(keys, Tail(todo), told \cup {Head(todo)})
  <2>1. n + 1 \in 0..Len(keys)
    BY <1>2
  <2> QED BY <1>4, <1>5, <2>1 DEF Progress
<1>7. Head(todo) \in ToSet(keys)
  BY <1>2 DEF ToSet
<1> QED BY <1>3, <1>6, <1>7

\* ... and ends with everything counted.
LEMMA ProgressEnd ==
    ASSUME NEW S, NEW keys \in Seq(S), NEW told, Progress(keys, <<>>, told)
    PROVE  told = ToSet(keys)
<1>1. PICK n \in 0..Len(keys) : /\ Len(<<>>) = Len(keys) - n
                                /\ told = {keys[i] : i \in 1..n}
  BY DEF Progress
<1>2. n = Len(keys)
  BY <1>1
<1> QED BY <1>1, <1>2 DEF ToSet

\* The increments of _finalize: the request and its verdict first, the tool's
\* outcome after its call, nothing twice.
LEMMA FinalizeKeysFacts ==
    ASSUME NEW req, NEW d \in Decision
    PROVE  LET keys == FinalizeKeys(req, d)
               outcome == IF d.executed THEN "tool_executed" ELSE "tool_denied"
           IN  /\ keys \in Seq(CounterKeys)
               /\ Distinct(keys)
               /\ keys[1] = "requests" /\ Len(keys) >= 2
               /\ \A i \in 2..Len(keys) :
                    /\ keys[i] \in {VerdictKey(d.verdict), "would_block", "tool_calls", outcome}
                    /\ keys[i] = outcome => keys[i - 1] = "tool_calls"
               /\ ToSet(keys) = {"requests", VerdictKey(d.verdict)}
                    \cup {k \in {"would_block"} : d.would_block}
                    \cup {k \in {"tool_calls", outcome} : HasCall(req)}
<1> DEFINE keys == FinalizeKeys(req, d)
           v == VerdictKey(d.verdict)
           outcome == IF d.executed THEN "tool_executed" ELSE "tool_denied"
           first == <<"requests", v>>
           second == When(d.would_block, <<"would_block">>)
           third == When(HasCall(req), <<"tool_calls", outcome>>)
           Listed == {"requests", v} \cup {k \in {"would_block"} : d.would_block}
                       \cup {k \in {"tool_calls", outcome} : HasCall(req)}
           Ordered == \A i \in 2..Len(keys) :
                        /\ keys[i] \in {v, "would_block", "tool_calls", outcome}
                        /\ keys[i] = outcome => keys[i - 1] = "tool_calls"
<1>1. keys \in Seq(CounterKeys)
  BY KeysType
<1>2. v \in {"verdict.allow", "verdict.sanitize", "verdict.quarantine", "verdict.block"}
  BY DEF Decision, Verdicts, VerdictKey
<1>3. outcome \in {"tool_executed", "tool_denied"}
  OBVIOUS
<1>4. keys = (first \o second) \o third
  BY DEF FinalizeKeys
<1> HIDE DEF outcome, v
<1>5. /\ Len(first) = 2 /\ first[1] = "requests" /\ first[2] = v
      /\ d.would_block => Len(second) = 1 /\ second[1] = "would_block"
      /\ ~d.would_block => Len(second) = 0
      /\ HasCall(req) => Len(third) = 2 /\ third[1] = "tool_calls" /\ third[2] = outcome
      /\ ~HasCall(req) => Len(third) = 0
  BY DEF When
<1>6. first \in Seq(CounterKeys) /\ second \in Seq(CounterKeys) /\ third \in Seq(CounterKeys)
  <2>1. {"requests", v, "would_block", "tool_calls", outcome} \subseteq CounterKeys
    BY <1>2, <1>3 DEF CounterKeys
  <2>2. first \in Seq(CounterKeys)
    BY <2>1
  <2>3. <<"would_block">> \in Seq(CounterKeys)
    BY <2>1
  <2>4. <<"tool_calls", outcome>> \in Seq(CounterKeys)
    BY <2>1
  <2> QED BY <2>2, <2>3, <2>4, WhenType
<1> HIDE DEF keys, first, second, third
<1>7. /\ Len(keys) = 2 + Len(second) + Len(third) /\ keys[1] = "requests" /\ keys[2] = v
      /\ d.would_block => keys[3] = "would_block"
      /\ HasCall(req) => /\ keys[3 + Len(second)] = "tool_calls"
                         /\ keys[4 + Len(second)] = outcome
  <2> DEFINE front == first \o second
             m == Len(second)
             n == Len(third)
  <2>1. m \in Nat /\ n \in Nat
    BY <1>6
  <2>2. /\ front \in Seq(CounterKeys) /\ Len(front) = Len(first) + Len(second)
        /\ \A i \in 1..Len(first) + Len(second) :
             front[i] = IF i <= Len(first) THEN first[i] ELSE second[i - Len(first)]
    BY <1>6, ConcatProperties
  <2> HIDE DEF front
  <2>3. /\ Len(front \o third) = Len(front) + Len(third)
        /\ \A i \in 1..Len(front) + Len(third) : (front \o third)[i] =
             IF i <= Len(front) THEN front[i] ELSE third[i - Len(front)]
    <3>1. front \in Seq(CounterKeys) /\ third \in Seq(CounterKeys)
      BY <1>6, <2>2
    <3> QED BY ONLY <3>1, ConcatProperties, Zenon
  <2>4. keys = front \o third
    BY <1>4 DEF front
  <2> HIDE DEF m, n
  <2>5. /\ Len(front) = 2 + m
        /\ \A i \in 1..(2 + m) : front[i] = IF i <= 2 THEN first[i] ELSE second[i - 2]
    BY <1>5, <2>2 DEF m
  <2>6. /\ Len(keys) = 2 + m + n
        /\ \A i \in 1..(2 + m + n) :
             keys[i] = IF i <= 2 + m THEN front[i] ELSE third[i - (2 + m)]
    BY <2>3, <2>4, <2>5 DEF n
  <2>7. keys[1] = "requests" /\ keys[2] = v
    BY <1>5, <2>1, <2>5, <2>6
  <2>8. ASSUME d.would_block PROVE keys[3] = "would_block"
    <3>1. m = 1 /\ second[1] = "would_block"
      BY <1>5, <2>8 DEF m
    <3>2. front[3] = second[1]
      BY <2>5, <3>1
    <3>3. keys[3] = front[3]
      BY <2>1, <2>6, <3>1
    <3> QED BY <3>1, <3>2, <3>3
  <2>9. ASSUME HasCall(req) PROVE keys[3 + m] = "tool_calls" /\ keys[4 + m] = outcome
    <3>1. n = 2 /\ third[1] = "tool_calls" /\ third[2] = outcome
      BY <1>5, <2>9 DEF n
    <3>2. (3 + m) - (2 + m) = 1 /\ (4 + m) - (2 + m) = 2
      BY <2>1
    <3>3. keys[3 + m] = third[1] /\ keys[4 + m] = third[2]
      BY <2>1, <2>6, <3>1, <3>2
    <3> QED BY <3>1, <3>3
  <2> QED BY <2>6, <2>7, <2>8, <2>9 DEF m, n
<1>8. ASSUME NEW n \in Nat, Len(keys) = n
      PROVE  ToSet(keys) = {keys[i] : i \in 1..n}
  BY <1>1, <1>8 DEF ToSet, keys
<1>9. CASE d.would_block /\ HasCall(req)
  <2>0. Len(second) = 1 /\ Len(third) = 2
    BY <1>5, <1>9
  <2>1. /\ Len(keys) = 5 /\ keys[1] = "requests" /\ keys[2] = v
        /\ keys[3] = "would_block" /\ keys[4] = "tool_calls" /\ keys[5] = outcome
    BY <1>7, <1>9, <2>0, SMTT(30)
  <2>2. 1..5 = {1, 2, 3, 4, 5} /\ 2..5 = {2, 3, 4, 5}
    OBVIOUS
  <2>3. ToSet(keys) = Listed
    BY <1>8, <1>9, <2>1, <2>2
  <2>4. Distinct(keys) /\ Ordered
    BY <1>2, <1>3, <2>1, <2>2 DEF Distinct
  <2> QED BY <1>1, <2>1, <2>3, <2>4 DEF keys, v, outcome
<1>10. CASE d.would_block /\ ~HasCall(req)
  <2>0. Len(second) = 1 /\ Len(third) = 0
    BY <1>5, <1>10
  <2>1. /\ Len(keys) = 3 /\ keys[1] = "requests" /\ keys[2] = v
        /\ keys[3] = "would_block"
    BY <1>7, <1>10, <2>0, SMTT(30)
  <2>2. 1..3 = {1, 2, 3} /\ 2..3 = {2, 3}
    OBVIOUS
  <2>3. ToSet(keys) = Listed
    BY <1>8, <1>10, <2>1, <2>2
  <2>4. Distinct(keys) /\ Ordered
    BY <1>2, <1>3, <2>1, <2>2 DEF Distinct
  <2> QED BY <1>1, <2>1, <2>3, <2>4 DEF keys, v, outcome
<1>11. CASE ~d.would_block /\ HasCall(req)
  <2>0. Len(second) = 0 /\ Len(third) = 2
    BY <1>5, <1>11
  <2>1. /\ Len(keys) = 4 /\ keys[1] = "requests" /\ keys[2] = v
        /\ keys[3] = "tool_calls" /\ keys[4] = outcome
    BY <1>7, <1>11, <2>0, SMTT(30)
  <2>2. 1..4 = {1, 2, 3, 4} /\ 2..4 = {2, 3, 4}
    OBVIOUS
  <2>3. ToSet(keys) = Listed
    BY <1>8, <1>11, <2>1, <2>2
  <2>4. Distinct(keys) /\ Ordered
    BY <1>2, <1>3, <2>1, <2>2 DEF Distinct
  <2> QED BY <1>1, <2>1, <2>3, <2>4 DEF keys, v, outcome
<1>12. CASE ~d.would_block /\ ~HasCall(req)
  <2>0. Len(second) = 0 /\ Len(third) = 0
    BY <1>5, <1>12
  <2>1. /\ Len(keys) = 2 /\ keys[1] = "requests" /\ keys[2] = v
    BY <1>7, <1>12, <2>0, SMTT(30)
  <2>2. 1..2 = {1, 2} /\ 2..2 = {2}
    OBVIOUS
  <2>3. ToSet(keys) = Listed
    BY <1>8, <1>12, <2>1, <2>2
  <2>4. Distinct(keys) /\ Ordered
    BY <1>2, <1>3, <2>1, <2>2 DEF Distinct
  <2> QED BY <1>1, <2>1, <2>3, <2>4 DEF keys, v, outcome
<1> QED BY <1>9, <1>10, <1>11, <1>12

\* An exfiltration is counted after its attempt.
LEMMA ExfilKeysFacts ==
    ASSUME NEW d \in Decision
    PROVE  LET keys == ExfilKeys(d)
           IN  /\ keys \in Seq(CounterKeys)
               /\ Distinct(keys)
               /\ \A i \in 1..Len(keys) :
                    keys[i] = IF i = 1 THEN "exfil_attempts" ELSE "exfil_success"
               /\ ToSet(keys) = (IF d.attempt THEN {"exfil_attempts"} ELSE {})
                    \cup (IF d.attempt /\ d.exfiltrated THEN {"exfil_success"} ELSE {})
<1> DEFINE keys == ExfilKeys(d)
<1>1. keys \in Seq(CounterKeys)
  BY KeysType
<1>2. CASE d.attempt /\ d.exfiltrated
  <2>1. Len(keys) = 2 /\ keys[1] = "exfil_attempts" /\ keys[2] = "exfil_success"
    <3>1. keys = <<"exfil_attempts">> \o <<"exfil_success">>
      BY <1>2 DEF ExfilKeys, When
    <3> HIDE DEF keys
    <3> QED BY <3>1
  <2> HIDE DEF keys
  <2> QED BY <1>1, <1>2, <2>1 DEF Distinct, ToSet, keys
<1>3. CASE d.attempt /\ ~d.exfiltrated
  <2>1. keys = <<"exfil_attempts">>
    BY <1>3 DEF ExfilKeys, When
  <2> HIDE DEF keys
  <2> QED BY <1>1, <1>3, <2>1 DEF Distinct, ToSet, keys
<1>4. CASE ~d.attempt
  <2>1. keys = <<>>
    BY <1>4 DEF ExfilKeys, When
  <2> HIDE DEF keys
  <2> QED BY <1>1, <1>4, <2>1 DEF Distinct, ToSet, keys
<1> QED BY <1>2, <1>3, <1>4

\* Each verdict has a key of its own, different from every other counter.
LEMMA VerdictKeyInjective ==
    /\ \A u, v \in Verdicts : VerdictKey(u) = VerdictKey(v) => u = v
    /\ VerdictKeys = {"verdict.allow", "verdict.sanitize", "verdict.quarantine", "verdict.block"}
    /\ \A v \in Verdicts : VerdictKey(v) \in VerdictKeys
BY DEF Verdicts, VerdictKey, VerdictKeys

\* At any point of _finalize the totals lead.
LEMMA FinalizeTold ==
    ASSUME NEW req, NEW d \in Decision, NEW todo, NEW told,
           Progress(FinalizeKeys(req, d), todo, told)
    PROVE  /\ TotalsFirst(told) /\ told \subseteq ToSet(FinalizeKeys(req, d))
           /\ told \cap {"errors", "exfil_attempts", "exfil_success"} = {}
<1> DEFINE keys == FinalizeKeys(req, d)
           v == VerdictKey(d.verdict)
           outcome == IF d.executed THEN "tool_executed" ELSE "tool_denied"
<1>1. /\ keys \in Seq(CounterKeys)
      /\ keys[1] = "requests"
      /\ \A i \in 2..Len(keys) :
           /\ keys[i] \in {v, "would_block", "tool_calls", outcome}
           /\ keys[i] = outcome => keys[i - 1] = "tool_calls"
  BY FinalizeKeysFacts
<1>2. v \in VerdictKeys /\ outcome \in {"tool_executed", "tool_denied"} /\ d.verdict \in Verdicts
  BY VerdictKeyInjective DEF Decision
<1>3. \A u \in Verdicts : VerdictKey(u) = v => u = d.verdict
  BY <1>2, VerdictKeyInjective
<1> HIDE DEF keys, v, outcome
<1>4. PICK n \in 0..Len(keys) : told = {keys[i] : i \in 1..n}
  BY DEF Progress, keys
<1>5. Len(keys) \in Nat /\ DOMAIN keys = 1..Len(keys) /\ n \in Nat
  BY <1>1
<1>6. told \subseteq ToSet(keys)
  BY <1>4, <1>5 DEF ToSet
<1>7. told \subseteq {"requests", v, "would_block", "tool_calls", outcome}
  <2> SUFFICES ASSUME NEW i \in 1..n
               PROVE  keys[i] \in {"requests", v, "would_block", "tool_calls", outcome}
    BY <1>4
  <2>1. i = 1 \/ i \in 2..Len(keys)
    BY <1>5
  <2> QED BY <1>1, <2>1
<1>8. told # {} => "requests" \in told
  <2>1. told # {} => 1 \in 1..n
    BY <1>4, <1>5
  <2> QED BY <1>1, <1>4, <2>1
<1>9. outcome \in told => "tool_calls" \in told
  <2> SUFFICES ASSUME NEW i \in 1..n, keys[i] = outcome PROVE "tool_calls" \in told
    BY <1>4
  <2>1. i # 1
    BY <1>1, <1>2
  <2>2. i \in 2..Len(keys) /\ i - 1 \in 1..n
    BY <1>5, <2>1
  <2> QED BY <1>1, <1>4, <2>2
<1>10. \A u \in Verdicts : VerdictKey(u) \in told => u = d.verdict
  BY <1>2, <1>3, <1>7, VerdictKeyInjective
<1>11. TotalsFirst(told)
  BY <1>2, <1>7, <1>8, <1>9, <1>10, VerdictKeyInjective DEF TotalsFirst
<1> QED BY <1>2, <1>6, <1>7, <1>11, VerdictKeyInjective DEF keys

\* At any point of the exfiltration counts, attempts lead successes.
LEMMA ExfilTold ==
    ASSUME NEW d \in Decision, NEW todo, NEW told, Progress(ExfilKeys(d), todo, told)
    PROVE  /\ told \subseteq {"exfil_attempts", "exfil_success"}
           /\ "exfil_success" \in told => "exfil_attempts" \in told
<1> DEFINE keys == ExfilKeys(d)
<1>1. /\ keys \in Seq(CounterKeys)
      /\ \A i \in 1..Len(keys) :
           keys[i] = IF i = 1 THEN "exfil_attempts" ELSE "exfil_success"
  BY ExfilKeysFacts
<1> HIDE DEF keys
<1>2. PICK n \in 0..Len(keys) : told = {keys[i] : i \in 1..n}
  BY DEF Progress, keys
<1>3. Len(keys) \in Nat /\ 1..n \subseteq 1..Len(keys)
  BY <1>1
<1>4. told \subseteq {"exfil_attempts", "exfil_success"}
  BY <1>1, <1>2, <1>3
<1>5. told # {} => "exfil_attempts" \in told
  <2>1. told # {} => 1 \in 1..n
    BY <1>2, <1>3
  <2> QED BY <1>1, <1>2, <1>3, <2>1
<1> QED BY <1>4, <1>5

\* The two reports of a request count different keys.
LEMMA TotalsFirstUnion ==
    ASSUME NEW told, TotalsFirst(told),
           told \cap {"exfil_attempts", "exfil_success"} = {},
           NEW more, more \subseteq {"exfil_attempts", "exfil_success"},
           "exfil_success" \in more => "exfil_attempts" \in more
    PROVE  TotalsFirst(told \cup more)
BY VerdictKeyInjective DEF TotalsFirst

\* An internal error is counted beside whatever was counted before it.
LEMMA TotalsFirstError ==
    ASSUME NEW told, TotalsFirst(told)
    PROVE  TotalsFirst(told \cup {"errors"})
BY VerdictKeyInjective DEF TotalsFirst

\* Only finitely many requests were ever asked.
LEMMA CountedIsFinite ==
    ASSUME GatewayTypeOK, NEW tally, NEW key
    PROVE  IsFiniteSet(CountedFor(tally, key))
<1>1. Len(asked) \in Nat
  BY DEF GatewayTypeOK
<1>2. IsFiniteSet(Ids) /\ CountedFor(tally, key) \in SUBSET Ids
  BY <1>1, FS_Interval DEF Ids, CountedFor
<1> QED BY <1>2, FS_Subset

\* Some tally explains the counters.
TallyInv == \E tally \in [Ids -> SUBSET CounterKeys] : Tallied(tally)

\* A new request has nothing counted for it.
LEMMA TallySubmit ==
    ASSUME GatewayTypeOK, RequestInv, TallyInv, NEW w \in Workers, NEW req \in Requests,
           Submit(w, req)
    PROVE  TallyInv'
<1> DEFINE new == Len(asked) + 1
<1>1. PICK tally \in [Ids -> SUBSET CounterKeys] : Tallied(tally)
  BY DEF TallyInv
<1>2. /\ Ids' = Ids \cup {new} /\ new \notin Ids
      /\ \A i \in Ids : asked'[i] = asked[i] /\ answer'[i] = answer[i]
      /\ asked'[new] = req /\ answer'[new] = Pending
      /\ \A v \in Workers \ {w} : job'[v] = job[v]
      /\ job'[w].stage = "sanitize" /\ job'[w].id = new
  BY SubmitFacts
<1>3. counters' = counters
  BY DEF Submit
<1>4. \A v \in Workers : Busy(v) => job[v].id \in Ids
  BY BusyFacts
<1> HIDE DEF new
<1>5. PICK t \in [Ids' -> SUBSET CounterKeys] :
        t[new] = {} /\ \A i \in Ids : t[i] = tally[i]
  <2> DEFINE u == [i \in Ids' |-> IF i \in Ids THEN tally[i] ELSE {}]
  <2>1. u \in [Ids' -> SUBSET CounterKeys] /\ u[new] = {} /\ \A i \in Ids : u[i] = tally[i]
    BY <1>2
  <2> QED BY <2>1
<1>6. ASSUME NEW key \in CounterKeys
      PROVE  counters'[key] = Cardinality(CountedFor(t, key)')
  <2>1. CountedFor(t, key)' = CountedFor(tally, key)
    BY <1>2, <1>5 DEF CountedFor
  <2> QED BY <1>1, <1>3, <2>1 DEF Tallied
<1>7. \A i \in Ids' : TotalsFirst(t[i])
  <2>1. TotalsFirst({})
    BY DEF TotalsFirst
  <2> QED BY <1>1, <1>2, <1>5, <2>1 DEF Tallied
<1>8. \A i \in Ids' : "errors" \in t[i] <=> answer'[i] # Pending /\ answer'[i].error
  BY <1>1, <1>2, <1>5 DEF Tallied, Answered
<1>9. ASSUME NEW v \in Workers, job'[v] # IdleJob
      PROVE  CountedSoFar(job'[v], asked'[job'[v].id], t[job'[v].id])
  <2>1. CASE v = w
    BY <1>2, <1>5, <2>1 DEF CountedSoFar
  <2>2. CASE v # w
    <3>1. job'[v] = job[v] /\ Busy(v) /\ job[v].id \in Ids
      BY <1>2, <1>4, <1>9, <2>2 DEF Busy
    <3>2. CountedSoFar(job[v], asked[job[v].id], tally[job[v].id])
      BY <1>1, <3>1 DEF Tallied, Req
    <3> QED BY <1>2, <1>5, <3>1, <3>2
  <2> QED BY <2>1, <2>2
<1>10. ASSUME NEW i \in Ids', answer'[i] # Pending, ~answer'[i].error
       PROVE  t[i] = ReportKeys(asked'[i], answer'[i])
  BY <1>1, <1>2, <1>5, <1>10 DEF Tallied, Answered
<1>11. Tallied(t)'
  BY ZenonT(60), <1>6, <1>7, <1>8, <1>9, <1>10 DEF Tallied, Answered, Busy, Req
<1> QED BY <1>5, <1>11 DEF TallyInv

\* What a step of one worker must show of its own request.
LEMMA TallyFrame ==
    ASSUME GatewayTypeOK, RequestInv, NEW tally \in [Ids -> SUBSET CounterKeys],
           Tallied(tally), NEW w \in Workers, Step(w) \/ Raise(w), NEW told,
           told \in SUBSET CounterKeys, TotalsFirst(told),
           \/ told = tally[job[w].id] /\ counters' = counters
           \/ \E k \in CounterKeys : /\ k \notin tally[job[w].id]
                                     /\ told = tally[job[w].id] \cup {k}
                                     /\ counters' = [counters EXCEPT ![k] = @ + 1],
           "errors" \in told <=>
             answer'[job[w].id] # Pending /\ answer'[job[w].id].error,
           job'[w] # IdleJob => CountedSoFar(job'[w], Req(w), told),
           answer'[job[w].id] # Pending /\ ~answer'[job[w].id].error
             => told = ReportKeys(Req(w), answer'[job[w].id])
    PROVE  TallyInv'
<1> DEFINE id == job[w].id
<1>1. /\ Busy(w) /\ id \in Ids /\ Ids' = Ids /\ asked' = asked
      /\ \A v \in Workers \ {w} : job'[v] = job[v]
      /\ job'[w] = IdleJob \/ job'[w].id = id
      /\ \A i \in Ids \ {id} : answer'[i] = answer[i]
  BY StepFacts, FrameStep
<1>2. \A v \in Workers : Busy(v) => job[v].id \in Ids
  BY BusyFacts
<1>3. \A v \in Workers \ {w} : Busy(v) => job[v].id # id
  BY <1>1 DEF RequestInv, Owned
<1>4. PICK t \in [Ids -> SUBSET CounterKeys] : t = [tally EXCEPT ![id] = told]
  BY <1>1
<1>5. t[id] = told /\ \A i \in Ids \ {id} : t[i] = tally[i]
  BY <1>1, <1>4
<1>6. \A key \in CounterKeys : counters'[key] = Cardinality(CountedFor(t, key))
  <2>1. CASE told = tally[id] /\ counters' = counters
    <3>1. t = tally
      BY <1>4, <2>1
    <3> QED BY <2>1, <3>1 DEF Tallied
  <2>2. ASSUME NEW k \in CounterKeys, k \notin tally[id], told = tally[id] \cup {k},
               counters' = [counters EXCEPT ![k] = @ + 1]
        PROVE  \A key \in CounterKeys : counters'[key] = Cardinality(CountedFor(t, key))
    <3>1. t[id] = tally[id] \cup {k} /\ \A i \in Ids \ {id} : t[i] = tally[i]
      BY <1>5, <2>2
    <3>2. \A key \in CounterKeys : counters[key] = Cardinality(CountedFor(tally, key))
      BY DEF Tallied
    <3>3. ASSUME NEW key \in CounterKeys
          PROVE  counters'[key] = Cardinality(CountedFor(t, key))
      <4>1. /\ counters[key] = Cardinality(CountedFor(tally, key))
            /\ counters \in [CounterKeys -> Nat]
        BY <3>2 DEF GatewayTypeOK
      <4>2. CASE key = k
        <5>1. CountedFor(t, key) = CountedFor(tally, key) \cup {id}
              /\ id \notin CountedFor(tally, key)
          BY <1>1, <2>2, <3>1, <4>2 DEF CountedFor
        <5> HIDE DEF id
        <5>2. Cardinality(CountedFor(t, key)) = Cardinality(CountedFor(tally, key)) + 1
          BY <5>1, CountedIsFinite, FS_AddElement
        <5> QED BY <2>2, <4>1, <4>2, <5>2
      <4>3. CASE key # k
        <5>1. CountedFor(t, key) = CountedFor(tally, key)
          BY <1>1, <2>2, <3>1, <4>3 DEF CountedFor
        <5> QED BY <2>2, <4>1, <4>3, <5>1
      <4> QED BY <4>2, <4>3
    <3> QED BY <3>3
  <2> QED BY <2>1, <2>2
<1> HIDE DEF id
<1>7. \A i \in Ids : TotalsFirst(t[i])
  BY <1>5 DEF Tallied
<1>8. \A i \in Ids : "errors" \in t[i] <=> answer'[i] # Pending /\ answer'[i].error
  BY <1>1, <1>5 DEF Tallied, Answered, id
<1>9. ASSUME NEW v \in Workers, job'[v] # IdleJob
      PROVE  CountedSoFar(job'[v], asked'[job'[v].id], t[job'[v].id])
  <2>1. CASE v = w
    BY <1>1, <1>5, <1>9, <2>1 DEF Req, id
  <2>2. CASE v # w
    <3>1. job'[v] = job[v] /\ Busy(v) /\ job[v].id \in Ids \ {id}
      BY <1>1, <1>2, <1>3, <1>9, <2>2 DEF Busy
    <3>2. CountedSoFar(job[v], asked[job[v].id], tally[job[v].id])
      BY <3>1 DEF Tallied, Req
    <3> QED BY <1>1, <1>5, <3>1, <3>2
  <2> QED BY <2>1, <2>2
<1>10. ASSUME NEW i \in Ids, answer'[i] # Pending, ~answer'[i].error
       PROVE  t[i] = ReportKeys(asked'[i], answer'[i])
  <2>1. CASE i = id
    BY <1>1, <1>5, <1>10, <2>1 DEF Req, id
  <2>2. CASE i # id
    BY <1>1, <1>5, <1>10, <2>2 DEF Tallied, Answered
  <2> QED BY <2>1, <2>2
<1>11. Tallied(t)'
  <2>1. \A key : CountedFor(t, key)' = CountedFor(t, key)
    BY <1>1 DEF CountedFor
  <2> QED BY ZenonT(60), <1>1, <2>1, <1>6, <1>7, <1>8, <1>9, <1>10 DEF Tallied, Answered, Busy, Req
<1> QED BY <1>1, <1>4, <1>11 DEF TallyInv

\* Each step of a worker counts what its stage says.
LEMMA TallyMove ==
    ASSUME GatewayTypeOK, RequestInv, TallyInv, NEW w \in Workers, Step(w) \/ Raise(w)
    PROVE  TallyInv'
<1> DEFINE id == job[w].id
           j == job[w]
           req == Req(w)
           keys == FinalizeKeys(req, j.dec)
           exfil == ExfilKeys(j.dec)
<1>1. PICK tally \in [Ids -> SUBSET CounterKeys] : Tallied(tally)
  BY DEF TallyInv
<1>2. /\ j \in Job /\ j.dec \in Decision /\ id \in Ids /\ Busy(w) /\ j.stage \in Stages
      /\ j.todo \in Seq(CounterKeys)
  BY StepFacts DEF Job
<1> DEFINE told == tally[id]
<1>3. answer[id] = Pending /\ "errors" \notin told /\ told \in SUBSET CounterKeys
  BY <1>1, <1>2 DEF RequestInv, Owned, Answered, Tallied
<1>4. CountedSoFar(j, req, told) /\ TotalsFirst(told)
  BY <1>1, <1>2 DEF Tallied
<1>5. /\ keys \in Seq(CounterKeys) /\ Distinct(keys)
      /\ exfil \in Seq(CounterKeys) /\ Distinct(exfil)
  BY <1>2, FinalizeKeysFacts, ExfilKeysFacts
<1>6. ASSUME told = tally[id], counters' = counters, answer' = answer,
             CountedSoFar(job'[w], req, told)
      PROVE  TallyInv'
  BY <1>1, <1>3, <1>4, <1>6, TallyFrame
<1>7. CASE Raise(w)
  <2>1. job'[w].stage = "fail_closed" /\ counters' = counters /\ answer' = answer
    BY <1>7, LaterShape DEF Raise, Record
  <2>2. CountedSoFar(job'[w], req, told)
    BY <2>1 DEF CountedSoFar, Early
  <2> QED BY <1>6, <2>1, <2>2
<1>8. CASE \/ Sanitize(w) \/ EnforcePolicy(w) \/ ObserveAttempt(w) \/ JudgeAttempt(w)
           \/ Resolve(w) \/ RouteAndExecute(w)
  <2>1. j.stage \in Early /\ job'[w].stage \in Early \cup {"commit"}
    BY <1>2, <1>8, StageBefore, StageAfter DEF Step, Early
  <2>2. told = {}
    BY <1>4, <2>1 DEF CountedSoFar
  <2>3. CountedSoFar(job'[w], req, told)
    BY <2>1, <2>2 DEF CountedSoFar, Early
  <2>4. counters' = counters /\ answer' = answer
    BY <1>8 DEF Sanitize, EnforcePolicy, ObserveAttempt, JudgeAttempt, Resolve,
                RouteAndExecute, Record
  <2> QED BY <1>6, <2>3, <2>4
<1>9. CASE CommitBehaviour(w) \/ CommitLocked(w)
  <2>1. counters' = counters /\ answer' = answer
    BY <1>9 DEF CommitBehaviour, CommitLocked, Record
  <2>2. /\ told = {} /\ job'[w].dec = j.dec /\ job'[w].todo = keys
        /\ job'[w].stage \in {"account", "locked"}
    <3>1. CASE CommitBehaviour(w)
      BY <1>4, <3>1, StageBefore, LaterShape DEF CountedSoFar
    <3>2. CASE CommitLocked(w)
      BY <1>2, <1>4, <3>2, StageBefore, StageAfter, LaterShape DEF CountedSoFar, Step
    <3> QED BY <1>9, <3>1, <3>2
  <2>3. Progress(keys, keys, {})
    BY <1>5, ProgressStart
  <2>4. CountedSoFar(job'[w], req, told)
    BY <2>2, <2>3 DEF CountedSoFar, Early
  <2> QED BY <1>6, <2>1, <2>4
<1>10. CASE Emit(w)
  <2>1. counters' = counters /\ answer' = answer
    BY <1>10 DEF Emit
  <2>2. /\ job'[w].stage = "count_exfil" /\ job'[w].dec = j.dec /\ job'[w].todo = exfil
        /\ told = ToSet(keys)
    BY <1>4, <1>10, StageBefore, LaterShape DEF CountedSoFar
  <2>3. Progress(exfil, exfil, {}) /\ told \ ToSet(keys) = {}
    BY <1>5, <2>2, ProgressStart
  <2>4. CountedSoFar(job'[w], req, told)
    BY <2>2, <2>3 DEF CountedSoFar, Early
  <2> QED BY <1>6, <2>1, <2>4
<1>11. CASE Account(w)
  <2> DEFINE k == Head(j.todo)
  <2>1. /\ j.todo # <<>> /\ job'[w].dec = j.dec /\ job'[w].todo = Tail(j.todo)
        /\ counters' = [counters EXCEPT ![k] = @ + 1]
        /\ job'[w].stage = IF Tail(j.todo) = <<>> THEN "emit" ELSE "account"
    BY <1>11, LaterShape
  <2>2. Progress(keys, j.todo, told)
    BY <1>4, <1>11, StageBefore DEF CountedSoFar
  <2> HIDE DEF j, keys, told, k
  <2>3. k \notin told /\ k \in ToSet(keys) /\ Progress(keys, Tail(j.todo), told \cup {k})
    BY <1>2, <1>5, <2>1, <2>2, ProgressStep DEF k
  <2>4. TotalsFirst(told \cup {k}) /\ "errors" \notin told \cup {k} /\ k \in CounterKeys
    <3>1. k \in CounterKeys
      BY <1>2, <2>1 DEF k
    <3> QED BY <1>2, <2>3, <3>1, FinalizeTold DEF keys
  <2>5. CountedSoFar(job'[w], req, told \cup {k})
    <3>1. Tail(j.todo) = <<>> => told \cup {k} = ToSet(keys)
      BY <1>5, <2>3, ProgressEnd
    <3> QED BY <2>1, <2>3, <3>1 DEF CountedSoFar, Early, keys
  <2>6. answer' = answer
    BY <1>11 DEF Account, Incr
  <2> QED BY <1>1, <1>3, <2>1, <2>3, <2>4, <2>5, <2>6, TallyFrame DEF told, j
<1>12. CASE CountExfil(w)
  <2> DEFINE k == Head(j.todo)
             more == told \ ToSet(keys)
  <2>1. /\ j.todo # <<>> /\ job'[w].dec = j.dec /\ job'[w].todo = Tail(j.todo)
        /\ counters' = [counters EXCEPT ![k] = @ + 1]
        /\ job'[w].stage = "count_exfil"
    BY <1>12, LaterShape
  <2>2. ToSet(keys) \subseteq told /\ Progress(exfil, j.todo, more)
    BY <1>4, <1>12, StageBefore DEF CountedSoFar
  <2>3. ToSet(keys) \cap {"errors", "exfil_attempts", "exfil_success"} = {}
    BY <1>2, FinalizeKeysFacts, VerdictKeyInjective DEF Decision
  <2> HIDE DEF j, keys, told, k, more, exfil
  <2>4. k \notin more /\ Progress(exfil, Tail(j.todo), more \cup {k})
    BY <1>2, <1>5, <2>1, <2>2, ProgressStep DEF k
  <2>5. /\ more \cup {k} \subseteq {"exfil_attempts", "exfil_success"}
        /\ "exfil_success" \in more \cup {k} => "exfil_attempts" \in more \cup {k}
    BY <1>2, <2>4, ExfilTold DEF exfil
  <2>6. /\ k \notin told /\ "errors" \notin told \cup {k} /\ k \in CounterKeys
        /\ (told \cup {k}) \ ToSet(keys) = more \cup {k}
    BY <1>3, <2>3, <2>4, <2>5 DEF more, CounterKeys
  <2>7. TotalsFirst(told \cup {k})
    <3>1. Progress(keys, <<>>, ToSet(keys))
      BY <1>5 DEF Progress, ToSet
    <3>2. TotalsFirst(ToSet(keys))
      BY <1>2, <3>1, FinalizeTold DEF keys
    <3>3. told \cup {k} = ToSet(keys) \cup (more \cup {k})
      BY <2>2 DEF more
    <3>4. TotalsFirst(ToSet(keys) \cup (more \cup {k}))
      BY <2>3, <2>5, <3>2, TotalsFirstUnion
    <3> QED BY <3>3, <3>4
  <2>8. CountedSoFar(job'[w], req, told \cup {k})
    BY <2>1, <2>2, <2>4, <2>6 DEF CountedSoFar, Early, keys, exfil
  <2>9. answer' = answer
    BY <1>12 DEF CountExfil, Incr
  <2> QED BY <1>1, <1>3, <2>1, <2>6, <2>7, <2>8, <2>9, TallyFrame DEF told, j
<1>13. CASE Return(w)
  <2>1. /\ j.stage = "count_exfil" /\ j.todo = <<>> /\ counters' = counters
        /\ job'[w] = IdleJob
    BY <1>13, StageBefore, LaterShape DEF Return
  <2>2. answer'[id] = j.dec
    BY <1>13, <2>1, Conclusion DEF Step
  <2>3. ToSet(keys) \subseteq told /\ Progress(exfil, <<>>, told \ ToSet(keys))
    BY <1>4, <2>1 DEF CountedSoFar
  <2>4. told = ReportKeys(req, j.dec)
    <3>1. told \ ToSet(keys) = ToSet(exfil)
      BY <1>5, <2>3, ProgressEnd
    <3> QED BY <2>3, <3>1 DEF ReportKeys
  <2>5. ~j.dec.error
    BY <1>2, <2>1 DEF RequestInv, OnCourse, Midway, Late, Sound
  <2> QED BY <1>1, <1>3, <1>4, <2>1, <2>2, <2>4, <2>5, TallyFrame
<1>14. CASE FailClosed(w)
  <2>1. /\ counters' = [counters EXCEPT !["errors"] = @ + 1] /\ job'[w] = IdleJob
        /\ "errors" \in CounterKeys
    BY <1>14, LaterShape DEF FailClosed, CounterKeys
  <2>2. answer'[id] = FailClosedDecision /\ answer'[id] # Pending
    <3>1. ~Return(w)
      BY <1>14, StageBefore
    <3> QED BY <1>14, <2>1, <3>1, Conclusion DEF Step
  <2>3. TotalsFirst(told \cup {"errors"})
    BY <1>4, TotalsFirstError
  <2> HIDE DEF told
  <2> QED BY <1>1, <1>3, <2>1, <2>2, <2>3, FailClosedFacts, TallyFrame DEF told
<1> QED BY <1>7, <1>8, <1>9, <1>10, <1>11, <1>12, <1>13, <1>14 DEF Step

\* At first nothing is counted.
LEMMA TallyInit == GInit => TallyInv
<1> SUFFICES ASSUME GInit PROVE TallyInv
  OBVIOUS
<1>1. Ids = {} /\ counters = [key \in CounterKeys |-> 0] /\ \A w \in Workers : ~Busy(w)
  BY DEF GInit, Ids, Busy
<1>2. PICK tally : tally = [id \in Ids |-> {}]
  OBVIOUS
<1>3. tally \in [Ids -> SUBSET CounterKeys]
  BY <1>2
<1>4. \A key \in CounterKeys : counters[key] = Cardinality(CountedFor(tally, key))
  BY <1>1, FS_EmptySet DEF CountedFor
<1>5. Tallied(tally)
  BY <1>1, <1>4 DEF Tallied
<1> QED BY <1>3, <1>5 DEF TallyInv

\* Every step of the gateway keeps a tally.
LEMMA TallyStep == TypeInv /\ RequestInv /\ TallyInv /\ [GNext]_allvars => TallyInv'
<1> SUFFICES ASSUME TypeInv, RequestInv, TallyInv, [GNext]_allvars PROVE TallyInv'
  OBVIOUS
<1>1. GatewayTypeOK
  BY DEF TypeInv
<1>2. CASE GTick \/ UNCHANGED allvars
  <2>1. UNCHANGED <<asked, answer, counters, job>>
    BY <1>2 DEF GTick, gvars, allvars
  <2>2. Ids' = Ids
    BY <2>1 DEF Ids
  <2>3. PICK tally \in [Ids -> SUBSET CounterKeys] : Tallied(tally)
    BY DEF TallyInv
  <2>4. Tallied(tally)'
    BY ZenonT(60), <2>1, <2>2, <2>3 DEF Tallied, CountedFor, Answered, Busy, Req
  <2> QED BY <2>2, <2>4 DEF TallyInv
<1> QED BY <1>1, <1>2, TallySubmit, TallyMove DEF GNext

\* Only a fault makes a request fail.
LEMMA FaultsFailStep ==
    TypeInv /\ RequestInv /\ FaultsFail /\ [GNext]_allvars => FaultsFail'
<1> SUFFICES ASSUME TypeInv, RequestInv, FaultsFail, [GNext]_allvars, faults' = 0
             PROVE  /\ \A w \in Workers : job'[w].stage # "fail_closed"
                    /\ \A id \in Ids' : answer'[id] # Pending => ~answer'[id].error
  BY DEF FaultsFail, Answered
<1>1. GatewayTypeOK /\ faults \in Nat
  BY DEF TypeInv, GatewayTypeOK
<1>2. CASE GTick \/ UNCHANGED allvars
  <2>1. UNCHANGED <<asked, answer, job, faults>>
    BY <1>2 DEF GTick, gvars, allvars
  <2> QED BY <2>1 DEF FaultsFail, Answered, Ids
<1>3. ASSUME NEW w \in Workers, NEW req \in Requests, Submit(w, req)
      PROVE  /\ \A v \in Workers : job'[v].stage # "fail_closed"
             /\ \A id \in Ids' : answer'[id] # Pending => ~answer'[id].error
  <2>1. faults = 0
    BY <1>3 DEF Submit
  <2> QED BY <1>1, <1>3, <2>1, SubmitFacts DEF FaultsFail, Answered
<1>4. ASSUME NEW w \in Workers, Step(w) \/ Raise(w)
      PROVE  /\ \A v \in Workers : job'[v].stage # "fail_closed"
             /\ \A id \in Ids' : answer'[id] # Pending => ~answer'[id].error
  <2>1. ~Raise(w)
    BY <1>1 DEF Raise
  <2>2. faults = 0
    <3>1. ~FailClosed(w) => faults' = faults
      BY ZenonT(60), <1>4, <2>1 DEF Step, Sanitize, EnforcePolicy, ObserveAttempt,
         JudgeAttempt, Resolve, RouteAndExecute, CommitBehaviour, CommitLocked, Account, Emit,
         CountExfil, Incr, Return
    <3>2. FailClosed(w) => faults' = faults \/ faults' = faults + 1
      BY DEF FailClosed
    <3> QED BY <1>1, <3>1, <3>2
  <2>3. ~FailClosed(w)
    BY <2>2, StageBefore DEF FaultsFail
  <2>4. /\ Busy(w) /\ job[w].id \in Ids /\ Ids' = Ids
        /\ \A v \in Workers \ {w} : job'[v] = job[v]
        /\ \A i \in Ids \ {job[w].id} : answer'[i] = answer[i]
        /\ ~Return(w) => answer' = answer
    BY <1>1, <1>4, <2>3, StepFacts, FrameStep
  <2>5. job'[w].stage # "fail_closed"
    <3>1. job[w].stage \in Stages
      BY <1>1, <1>4, StepFacts
    <3> QED BY <1>1, <1>4, <2>1, <2>3, <3>1, StageAfter DEF Step
  <2>6. Return(w) => answer'[job[w].id] = job[w].dec /\ ~job[w].dec.error
    <3> SUFFICES ASSUME Return(w)
                 PROVE  answer'[job[w].id] = job[w].dec /\ ~job[w].dec.error
      OBVIOUS
    <3>1. job[w].stage = "count_exfil" /\ job'[w] = IdleJob /\ Step(w)
      BY <1>1, StageBefore, LaterShape DEF Step
    <3> QED BY <1>1, <2>4, <3>1, Conclusion DEF RequestInv, OnCourse, Midway, Late, Sound
  <2>7. \A id \in Ids : answer[id] # Pending => ~answer[id].error
    BY <2>2 DEF FaultsFail, Answered
  <2>8. \A v \in Workers : job'[v].stage # "fail_closed"
    BY <2>2, <2>4, <2>5 DEF FaultsFail
  <2>9. ASSUME NEW i \in Ids, answer'[i] # Pending PROVE ~answer'[i].error
    BY <2>4, <2>6, <2>7, <2>9
  <2> QED BY <2>4, <2>8, <2>9
<1> QED BY <1>2, <1>3, <1>4 DEF GNext

\* All that the theorems on the counters rest on holds throughout.
LEMMA CountersTallied == GSpec => [](TypeInv /\ RequestInv /\ TallyInv /\ FaultsFail)
<1>1. GInit => FaultsFail
  BY DEF GInit, FaultsFail, IdleJob, Ids
<1> QED BY <1>1, TallyInit, TallyStep, FaultsFailStep, TypeInvInit, TypeInvStep,
           RequestInvInit, RequestInvStep, PTL DEF GSpec

\* Disjoint parts never outnumber their total.
LEMMA PartsOfTotal ==
    \A T, A, B :
        IsFiniteSet(T) /\ A \in SUBSET T /\ B \in SUBSET T /\ A \cap B = {}
          => /\ Cardinality(A \cup B) = Cardinality(A) + Cardinality(B)
             /\ Cardinality(A \cup B) <= Cardinality(T)
             /\ Cardinality(A) \in Nat /\ Cardinality(B) \in Nat /\ Cardinality(T) \in Nat
<1> TAKE T, A, B
<1> HAVE IsFiniteSet(T) /\ A \in SUBSET T /\ B \in SUBSET T /\ A \cap B = {}
<1>1. IsFiniteSet(A) /\ IsFiniteSet(B) /\ A \cup B \in SUBSET T
  BY FS_Subset
<1>2. Cardinality(A \cup B) = Cardinality(A) + Cardinality(B) - Cardinality(A \cap B)
  BY <1>1, FS_Union
<1>3. Cardinality(A \cap B) = 0
  BY FS_EmptySet
<1>4. IsFiniteSet(A \cup B) /\ Cardinality(A \cup B) <= Cardinality(T)
  BY <1>1, FS_Subset
<1>5. Cardinality(A) \in Nat /\ Cardinality(B) \in Nat /\ Cardinality(T) \in Nat
  BY <1>1, FS_CardinalityType
<1> QED BY <1>1, <1>2, <1>3, <1>4, <1>5

\* Of a tally, no total is behind its parts.
LEMMA TalliedTotals ==
    ASSUME GatewayTypeOK, NEW tally \in [Ids -> SUBSET CounterKeys], Tallied(tally)
    PROVE  TotalsCoverParts
<1> DEFINE C(key) == CountedFor(tally, key)
<1>1. \A key \in CounterKeys : counters[key] = Cardinality(C(key)) /\ IsFiniteSet(C(key))
  BY CountedIsFinite DEF Tallied
<1>2. \A id \in Ids : TotalsFirst(tally[id])
  BY DEF Tallied
<1> DEFINE R == C("requests")
           a == C("verdict.allow")
           s == C("verdict.sanitize")
           q == C("verdict.quarantine")
           b == C("verdict.block")
           calls == C("tool_calls")
           x == C("tool_executed")
           n == C("tool_denied")
           w == C("would_block")
           e == C("exfil_attempts")
           f == C("exfil_success")
<1>3. /\ a \subseteq R /\ s \subseteq R /\ q \subseteq R /\ b \subseteq R
      /\ calls \subseteq R /\ w \subseteq R
      /\ x \subseteq calls /\ n \subseteq calls /\ f \subseteq e
  BY <1>2, VerdictKeyInjective DEF TotalsFirst, CountedFor
<1>4. x \cap n = {}
  BY <1>2 DEF TotalsFirst, CountedFor
<1>5. a \cap s = {} /\ (a \cup s) \cap q = {} /\ (a \cup s \cup q) \cap b = {}
  <2>1. \A id \in Ids : \A u, v \in Verdicts :
          {VerdictKey(u), VerdictKey(v)} \subseteq tally[id] => u = v
    BY <1>2 DEF TotalsFirst
  <2>2. /\ VerdictKey("allow") = "verdict.allow"
        /\ VerdictKey("sanitize") = "verdict.sanitize"
        /\ VerdictKey("quarantine") = "verdict.quarantine"
        /\ VerdictKey("block") = "verdict.block"
        /\ {"allow", "sanitize", "quarantine", "block"} \subseteq Verdicts
    BY DEF VerdictKey, Verdicts
  <2>3. \A id \in Ids :
          /\ ~({"verdict.allow", "verdict.sanitize"} \subseteq tally[id])
          /\ ~({"verdict.allow", "verdict.quarantine"} \subseteq tally[id])
          /\ ~({"verdict.allow", "verdict.block"} \subseteq tally[id])
          /\ ~({"verdict.sanitize", "verdict.quarantine"} \subseteq tally[id])
          /\ ~({"verdict.sanitize", "verdict.block"} \subseteq tally[id])
          /\ ~({"verdict.quarantine", "verdict.block"} \subseteq tally[id])
    BY <2>1, <2>2
  <2> QED BY <2>3 DEF CountedFor
<1>6. /\ counters["requests"] = Cardinality(R) /\ counters["verdict.allow"] = Cardinality(a)
      /\ counters["verdict.sanitize"] = Cardinality(s)
      /\ counters["verdict.quarantine"] = Cardinality(q)
      /\ counters["verdict.block"] = Cardinality(b)
      /\ counters["tool_calls"] = Cardinality(calls)
      /\ counters["tool_executed"] = Cardinality(x)
      /\ counters["tool_denied"] = Cardinality(n)
      /\ counters["would_block"] = Cardinality(w)
      /\ counters["exfil_attempts"] = Cardinality(e)
      /\ counters["exfil_success"] = Cardinality(f)
      /\ IsFiniteSet(R) /\ IsFiniteSet(calls) /\ IsFiniteSet(e)
  BY <1>1 DEF CounterKeys
<1> HIDE DEF R, a, s, q, b, calls, x, n, w, e, f
<1>7. Cardinality(R) >= Cardinality(a) + Cardinality(s) + Cardinality(q) + Cardinality(b)
  <2> DEFINE as == a \cup s
             asq == as \cup q
  <2>0. /\ a \in SUBSET R /\ s \in SUBSET R /\ q \in SUBSET R /\ b \in SUBSET R
        /\ as \in SUBSET R /\ asq \in SUBSET R /\ IsFiniteSet(R)
        /\ a \cap s = {} /\ as \cap q = {} /\ asq \cap b = {}
    BY <1>3, <1>5, <1>6
  <2>1. Cardinality(as) = Cardinality(a) + Cardinality(s)
    BY ONLY <2>0, PartsOfTotal, Zenon
  <2> HIDE DEF as
  <2>2. Cardinality(asq) = Cardinality(as) + Cardinality(q)
    BY ONLY <2>0, PartsOfTotal, Zenon
  <2> HIDE DEF asq
  <2>3. /\ Cardinality(asq \cup b) = Cardinality(asq) + Cardinality(b)
        /\ Cardinality(asq \cup b) <= Cardinality(R)
    BY ONLY <2>0, PartsOfTotal, Zenon
  <2>4. Cardinality(a) \in Nat /\ Cardinality(s) \in Nat /\ Cardinality(q) \in Nat
        /\ Cardinality(b) \in Nat /\ Cardinality(R) \in Nat
    BY <1>3, <1>6, FS_Subset, FS_CardinalityType
  <2> QED BY <2>1, <2>2, <2>3, <2>4
<1>8. Cardinality(calls) >= Cardinality(x) + Cardinality(n)
  <2>1. /\ Cardinality(x \cup n) = Cardinality(x) + Cardinality(n)
        /\ Cardinality(x \cup n) <= Cardinality(calls)
        /\ Cardinality(x) \in Nat /\ Cardinality(n) \in Nat /\ Cardinality(calls) \in Nat
    <3>1. x \in SUBSET calls /\ n \in SUBSET calls /\ IsFiniteSet(calls) /\ x \cap n = {}
      BY <1>3, <1>4, <1>6
    <3> QED BY ONLY <3>1, PartsOfTotal, Zenon
  <2> QED BY <2>1
<1>9. /\ Cardinality(calls) <= Cardinality(R) /\ Cardinality(w) <= Cardinality(R)
      /\ Cardinality(f) <= Cardinality(e)
  BY <1>3, <1>6, FS_Subset
<1>10. \A key \in CounterKeys : counters[key] \in Nat
  BY DEF GatewayTypeOK
<1> QED BY <1>6, <1>7, <1>8, <1>9, <1>10 DEF TotalsCoverParts, CounterKeys

\* Without faults, the tally of an answered request is its answer's.
LEMMA TalliedAnswers ==
    ASSUME GatewayTypeOK, RequestInv, FaultsFail, NEW tally \in [Ids -> SUBSET CounterKeys],
           Tallied(tally), Settled, faults = 0
    PROVE  /\ counters["requests"] = Len(asked)
           /\ counters["errors"] = 0
           /\ \A v \in Verdicts : counters[VerdictKey(v)] = Count(LAMBDA d : d.verdict = v)
           /\ counters["would_block"] = Count(LAMBDA d : d.would_block)
           /\ counters["tool_executed"] = Count(LAMBDA d : d.executed)
           /\ counters["exfil_attempts"] = Count(LAMBDA d : d.attempt)
           /\ counters["exfil_success"] = Count(LAMBDA d : d.exfiltrated)
<1>1. ASSUME NEW id \in Ids
      PROVE  /\ Answered(id) /\ ~answer[id].error /\ answer[id] \in Decision
             /\ tally[id] = ReportKeys(asked[id], answer[id])
             /\ Sound(answer[id], asked[id], effect[id])
  <2>1. Answered(id)
    BY DEF RequestInv, Owned, Settled, Busy
  <2>2. ~answer[id].error
    BY <2>1 DEF FaultsFail
  <2>3. tally[id] = ReportKeys(asked[id], answer[id])
    BY <2>1, <2>2 DEF Tallied
  <2>4. answer[id] \in Decision
    BY <2>1 DEF Answered, GatewayTypeOK, Ids
  <2>5. Sound(answer[id], asked[id], effect[id])
    BY <2>1, <2>2, FailClosedFacts DEF RequestInv, Concluded
  <2> QED BY <2>1, <2>2, <2>3, <2>4, <2>5
<1>2. ASSUME NEW id \in Ids
      PROVE  /\ "requests" \in tally[id] /\ "errors" \notin tally[id]
             /\ \A v \in Verdicts : VerdictKey(v) \in tally[id] <=> answer[id].verdict = v
             /\ "would_block" \in tally[id] <=> answer[id].would_block
             /\ "tool_executed" \in tally[id] <=> answer[id].executed
             /\ "exfil_attempts" \in tally[id] <=> answer[id].attempt
             /\ "exfil_success" \in tally[id] <=> answer[id].exfiltrated
  <2> DEFINE d == answer[id]
             req == asked[id]
             outcome == IF d.executed THEN "tool_executed" ELSE "tool_denied"
  <2>1. d \in Decision /\ d.verdict \in Verdicts
    BY <1>1 DEF Decision
  <2>2. /\ d.exfiltrated => d.attempt
        /\ d.executed => HasCall(req)
    BY <1>1 DEF Sound
  <2> HIDE DEF d
  <2>3. tally[id] = {"requests", VerdictKey(d.verdict)}
                      \cup {k \in {"would_block"} : d.would_block}
                      \cup {k \in {"tool_calls", outcome} : HasCall(req)}
                      \cup ((IF d.attempt THEN {"exfil_attempts"} ELSE {})
                      \cup (IF d.attempt /\ d.exfiltrated THEN {"exfil_success"} ELSE {}))
    <3>1. ToSet(FinalizeKeys(req, d)) = {"requests", VerdictKey(d.verdict)}
                      \cup {k \in {"would_block"} : d.would_block}
                      \cup {k \in {"tool_calls", outcome} : HasCall(req)}
      BY <2>1, FinalizeKeysFacts
    <3>2. ToSet(ExfilKeys(d)) = (IF d.attempt THEN {"exfil_attempts"} ELSE {})
                      \cup (IF d.attempt /\ d.exfiltrated THEN {"exfil_success"} ELSE {})
      BY <2>1, ExfilKeysFacts
    <3>3. tally[id] = ToSet(FinalizeKeys(req, d)) \cup ToSet(ExfilKeys(d))
      BY <1>1 DEF ReportKeys, d
    <3> QED BY <3>1, <3>2, <3>3
  <2>4. VerdictKey(d.verdict) \in VerdictKeys
    BY <2>1, VerdictKeyInjective
  <2>5. outcome \in {"tool_executed", "tool_denied"}
        /\ (outcome = "tool_executed" <=> d.executed)
    OBVIOUS
  <2> HIDE DEF outcome
  <2>6. "requests" \in tally[id] /\ "errors" \notin tally[id]
    BY <2>3, <2>4, <2>5, VerdictKeyInjective
  <2>7. ASSUME NEW v \in Verdicts
        PROVE  VerdictKey(v) \in tally[id] <=> d.verdict = v
    <3>1. VerdictKey(v) \in VerdictKeys
      BY VerdictKeyInjective
    <3>2. VerdictKey(v) \in tally[id] <=> VerdictKey(v) = VerdictKey(d.verdict)
      BY <2>3, <2>5, <3>1, VerdictKeyInjective
    <3> QED BY <2>1, <3>2, VerdictKeyInjective
  <2>8. "would_block" \in tally[id] <=> d.would_block
    BY <2>3, <2>4, <2>5, VerdictKeyInjective
  <2>9. "tool_executed" \in tally[id] <=> d.executed
    BY <2>2, <2>3, <2>4, <2>5, VerdictKeyInjective
  <2>10. /\ "exfil_attempts" \in tally[id] <=> d.attempt
         /\ "exfil_success" \in tally[id] <=> d.exfiltrated
    BY <2>2, <2>3, <2>4, <2>5, VerdictKeyInjective
  <2> QED BY <2>6, <2>7, <2>8, <2>9, <2>10 DEF d
<1>3. counters["requests"] = Len(asked)
  <2>1. CountedFor(tally, "requests") = 1..Len(asked) /\ Len(asked) \in Nat
    BY <1>2 DEF CountedFor, Ids, GatewayTypeOK
  <2>2. Cardinality(1..Len(asked)) = Len(asked)
    <3> DEFINE n == Len(asked)
    <3>1. 1 \in Int /\ n \in Int /\ n \in Nat
      BY <2>1
    <3> HIDE DEF n
    <3>2. Cardinality(1..n) = IF 1 > n THEN 0 ELSE n - 1 + 1
      BY <3>1, FS_Interval
    <3>3. Cardinality(1..n) = n
      BY <3>1, <3>2
    <3> QED BY <3>3 DEF n
  <2> QED BY <2>1, <2>2 DEF Tallied, CounterKeys
<1>4. counters["errors"] = 0
  <2>1. CountedFor(tally, "errors") = {}
    BY <1>2 DEF CountedFor
  <2> QED BY <2>1, FS_EmptySet DEF Tallied, CounterKeys
<1>5. ASSUME NEW v \in Verdicts
      PROVE  counters[VerdictKey(v)] = Count(LAMBDA d : d.verdict = v)
  <2>1. CountedFor(tally, VerdictKey(v)) = {id \in Ids : Answered(id) /\ answer[id].verdict = v}
    BY <1>1, <1>2 DEF CountedFor
  <2>2. VerdictKey(v) \in CounterKeys
    BY VerdictKeyInjective DEF CounterKeys
  <2> QED BY <2>1, <2>2 DEF Tallied, Count
<1>6. counters["would_block"] = Count(LAMBDA d : d.would_block)
  <2>1. CountedFor(tally, "would_block") = {id \in Ids : Answered(id) /\ answer[id].would_block}
    BY <1>1, <1>2 DEF CountedFor
  <2> QED BY <2>1 DEF Tallied, Count, CounterKeys
<1>7. counters["tool_executed"] = Count(LAMBDA d : d.executed)
  <2>1. CountedFor(tally, "tool_executed") = {id \in Ids : Answered(id) /\ answer[id].executed}
    BY <1>1, <1>2 DEF CountedFor
  <2> QED BY <2>1 DEF Tallied, Count, CounterKeys
<1>8. counters["exfil_attempts"] = Count(LAMBDA d : d.attempt)
  <2>1. CountedFor(tally, "exfil_attempts") = {id \in Ids : Answered(id) /\ answer[id].attempt}
    BY <1>1, <1>2 DEF CountedFor
  <2> QED BY <2>1 DEF Tallied, Count, CounterKeys
<1>9. counters["exfil_success"] = Count(LAMBDA d : d.exfiltrated)
  <2>1. CountedFor(tally, "exfil_success") = {id \in Ids : Answered(id) /\ answer[id].exfiltrated}
    BY <1>1, <1>2 DEF CountedFor
  <2> QED BY <2>1 DEF Tallied, Count, CounterKeys
<1> QED BY <1>3, <1>4, <1>5, <1>6, <1>7, <1>8, <1>9

\* The counters agree with the answers (gateway.py:256-259, 316-322): read at any
\* moment no total is behind the sum of its parts, and once every request is
\* answered without a fault each counter is the number of decisions that say so.
THEOREM CountersAddUp == GSpec => []CountersMatchAnswers
<1>1. TypeInv /\ RequestInv /\ TallyInv /\ FaultsFail => CountersMatchAnswers
  <2> SUFFICES ASSUME TypeInv, RequestInv, TallyInv, FaultsFail PROVE CountersMatchAnswers
    OBVIOUS
  <2>1. GatewayTypeOK
    BY DEF TypeInv
  <2>2. PICK tally \in [Ids -> SUBSET CounterKeys] : Tallied(tally)
    BY DEF TallyInv
  <2>3. TotalsCoverParts
    BY <2>1, <2>2, TalliedTotals
  <2> QED BY <2>1, <2>2, <2>3, TalliedAnswers DEF CountersMatchAnswers
<1> QED BY <1>1, CountersTallied, PTL

\* Every request that failed closed shows in /health (telemetry.py, errors counted
\* at gateway.py:273), and its total covers every answered request, also while
\* other workers are between two counts.
THEOREM HealthIsHonest == GSpec => []HealthShowsErrors
<1>1. TypeInv /\ TallyInv => HealthShowsErrors
  <2> SUFFICES ASSUME TypeInv, TallyInv PROVE HealthShowsErrors
    OBVIOUS
  <2>1. GatewayTypeOK
    BY DEF TypeInv
  <2>2. PICK tally \in [Ids -> SUBSET CounterKeys] : Tallied(tally)
    BY DEF TallyInv
  <2> DEFINE failed == {id \in Ids : Answered(id) /\ answer[id].error}
             returned == {id \in Ids : Answered(id)}
             requests == CountedFor(tally, "requests")
             errors == CountedFor(tally, "errors")
  <2>3. /\ counters["requests"] = Cardinality(requests)
        /\ counters["errors"] = Cardinality(errors)
    BY <2>2 DEF Tallied, CounterKeys
  <2>4. failed = errors
    BY <2>2 DEF Tallied, CountedFor
  <2>5. returned \subseteq requests \cup errors
    <3> SUFFICES ASSUME NEW id \in Ids, Answered(id)
                 PROVE  "requests" \in tally[id] \/ "errors" \in tally[id]
      BY DEF CountedFor
    <3>1. CASE answer[id].error
      BY <2>2, <3>1 DEF Tallied
    <3>2. CASE ~answer[id].error
      <4>1. answer[id] \in Decision /\ tally[id] = ReportKeys(asked[id], answer[id])
        BY <2>1, <2>2, <3>2 DEF Tallied, Answered, GatewayTypeOK, Ids
      <4>2. "requests" \in ToSet(FinalizeKeys(asked[id], answer[id]))
        BY <4>1, FinalizeKeysFacts
      <4> QED BY <4>1, <4>2 DEF ReportKeys
    <3> QED BY <3>1, <3>2
  <2>6. IsFiniteSet(requests) /\ IsFiniteSet(errors)
    BY <2>1, CountedIsFinite
  <2> HIDE DEF requests, errors, returned, failed
  <2>7. /\ IsFiniteSet(requests \cup errors)
        /\ Cardinality(requests \cup errors) <= Cardinality(requests) + Cardinality(errors)
        /\ Cardinality(requests) \in Nat /\ Cardinality(errors) \in Nat
    <3>1. IsFiniteSet(requests \cap errors)
      BY <2>6, FS_Subset
    <3>2. Cardinality(requests \cap errors) \in Nat
      BY <3>1, FS_CardinalityType
    <3>3. Cardinality(requests) \in Nat /\ Cardinality(errors) \in Nat
      BY <2>6, FS_CardinalityType
    <3>4. /\ IsFiniteSet(requests \cup errors)
          /\ Cardinality(requests \cup errors)
               = Cardinality(requests) + Cardinality(errors) - Cardinality(requests \cap errors)
      BY <2>6, FS_Union
    <3> QED BY <3>2, <3>3, <3>4
  <2>8. Cardinality(returned) <= Cardinality(requests \cup errors)
        /\ Cardinality(returned) \in Nat /\ Cardinality(requests \cup errors) \in Nat
    <3>1. IsFiniteSet(returned) /\ Cardinality(returned) <= Cardinality(requests \cup errors)
      BY <2>5, <2>7, FS_Subset
    <3> QED BY <2>7, <3>1, FS_CardinalityType
  <2>9. /\ Health.ok = (counters["errors"] = 0) /\ Health.errors = counters["errors"]
        /\ Health.total = counters["requests"] + counters["errors"]
    BY DEF Health
  <2>10. Cardinality(failed) > 0 => ~Health.ok
    <3>1. Cardinality(failed) = counters["errors"] /\ Cardinality(failed) \in Nat
      BY <2>3, <2>4, <2>7
    <3>2. Health.ok <=> counters["errors"] = 0
      BY <2>9, Zenon
    <3> QED BY <3>1, <3>2
  <2>11. Health.errors >= Cardinality(failed)
    BY <2>3, <2>4, <2>7, <2>9
  <2>12. Health.total >= Cardinality(returned)
    BY <2>3, <2>7, <2>8, <2>9
  <2> QED BY <2>10, <2>11, <2>12 DEF HealthShowsErrors, failed, returned
<1> QED BY <1>1, CountersTallied, PTL

-----------------------------------------------------------------------------
(* Protected mode implements the abstract guard *)

\* What a request shows of its effect and of its answer.
EffectView(e) == CASE e.leaked -> "leaked" [] ~e.leaked /\ e.ran -> "ran" [] OTHER -> "none"

AnswerView(a) ==
    IF a # Pending
    THEN [allowed |-> a.allowed, executed |-> a.executed, error |-> a.error]
    ELSE [open |-> TRUE]

\* The refinement mapping, request by request.
LEMMA Views ==
    /\ AbstractEffect = [id \in Ids |-> EffectView(effect[id])]
    /\ AbstractAnswer = [id \in Ids |-> AnswerView(answer[id])]
    /\ AbstractEffect' = [id \in Ids' |-> EffectView(effect'[id])]
    /\ AbstractAnswer' = [id \in Ids' |-> AnswerView(answer'[id])]
BY DEF AbstractEffect, AbstractAnswer, EffectView, AnswerView, Answered

\* The gateway's initial states are Guard's.
LEMMA AbstractInit == GInit => G!Init
<1> SUFFICES ASSUME GInit PROVE G!Init
  OBVIOUS
<1>1. asked = <<>> /\ Ids = {}
  BY DEF GInit, Ids
<1>2. AbstractEffect = <<>> /\ AbstractAnswer = <<>>
  BY <1>1 DEF AbstractEffect, AbstractAnswer
<1> QED BY <1>1, <1>2 DEF G!Init

\* Submit is Guard's Submit.
LEMMA AbstractSubmit ==
    ASSUME GatewayTypeOK, NEW w \in Workers, NEW req \in Requests, Submit(w, req)
    PROVE  G!Submit(req)
<1> DEFINE n == Len(asked)
<1>1. n \in Nat /\ Ids = 1..n /\ Ids' = 1..(n + 1)
  BY DEF Ids, GatewayTypeOK, Submit
<1>2. asked' = Append(asked, req)
  BY DEF Submit
<1>3. /\ \A i \in 1..n : effect'[i] = effect[i] /\ answer'[i] = answer[i]
      /\ effect'[n + 1] = NoEffect /\ answer'[n + 1] = Pending
  BY SubmitFacts, <1>1
<1> HIDE DEF n
<1>4. AbstractEffect' = Append(AbstractEffect, "none")
  <2> DEFINE S == {"leaked", "ran", "none"}
             f == AbstractEffect
  <2>1. f \in [1..n -> S] /\ "none" \in S
    BY <1>1, Views DEF EffectView
  <2>2. EffectView(NoEffect) = "none"
    BY DEF EffectView, NoEffect
  <2>3. \A i \in 1..n : f[i] = EffectView(effect[i])
    BY <1>1, Views
  <2> HIDE DEF f, S
  <2>4. AbstractEffect' = [i \in 1..(n + 1) |-> IF i = n + 1 THEN "none" ELSE f[i]]
    <3>1. AbstractEffect' = [i \in 1..(n + 1) |-> EffectView(effect'[i])]
      BY ONLY <1>1, Views
    <3>2. ASSUME NEW i \in 1..(n + 1)
          PROVE  EffectView(effect'[i]) = IF i = n + 1 THEN "none" ELSE f[i]
      <4>1. CASE i = n + 1
        BY ONLY <1>3, <2>2, <4>1
      <4>2. CASE i # n + 1
        <5>1. i \in 1..n
          BY ONLY <1>1, <4>2, i \in 1..(n + 1)
        <5>2. effect'[i] = effect[i] /\ f[i] = EffectView(effect[i])
          BY ONLY <1>3, <2>3, <5>1
        <5> QED BY ONLY <4>2, <5>2
      <4> QED BY ONLY <4>1, <4>2
    <3> QED BY ONLY <3>1, <3>2
  <2> QED BY ZenonT(60), <1>1, <2>1, <2>4, AppendIsExtension DEF f
<1>5. AbstractAnswer' = Append(AbstractAnswer, G!Open)
  <2> DEFINE f == AbstractAnswer
             S == {AnswerView(answer[i]) : i \in 1..n} \cup {G!Open}
  <2>1. f \in [1..n -> S] /\ G!Open \in S
    BY <1>1, Views
  <2>2. AnswerView(Pending) = G!Open
    BY DEF AnswerView, G!Open
  <2>3. \A i \in 1..n : f[i] = AnswerView(answer[i])
    BY <1>1, Views
  <2> HIDE DEF f, S
  <2>4. AbstractAnswer' = [i \in 1..(n + 1) |-> IF i = n + 1 THEN G!Open ELSE f[i]]
    <3>1. AbstractAnswer' = [i \in 1..(n + 1) |-> AnswerView(answer'[i])]
      BY ONLY <1>1, Views
    <3>2. ASSUME NEW i \in 1..(n + 1)
          PROVE  AnswerView(answer'[i]) = IF i = n + 1 THEN G!Open ELSE f[i]
      <4>1. CASE i = n + 1
        BY ONLY <1>3, <2>2, <4>1
      <4>2. CASE i # n + 1
        <5>1. i \in 1..n
          BY ONLY <1>1, <4>2, i \in 1..(n + 1)
        <5>2. answer'[i] = answer[i] /\ f[i] = AnswerView(answer[i])
          BY ONLY <1>3, <2>3, <5>1
        <5> QED BY ONLY <4>2, <5>2
      <4> QED BY ONLY <4>1, <4>2
    <3> QED BY ONLY <3>1, <3>2
  <2> QED BY ZenonT(60), <1>1, <2>1, <2>4, AppendIsExtension DEF f
<1> QED BY <1>2, <1>4, <1>5 DEF G!Submit

\* A step of a worker, seen through the views of its request.
LEMMA AbstractMove ==
    ASSUME GatewayTypeOK, NEW w \in Workers, Step(w) \/ Raise(w)
    PROVE  LET id == job[w].id
           IN  /\ asked' = asked
               /\ AbstractEffect' = [AbstractEffect EXCEPT ![id] = EffectView(effect'[id])]
               /\ AbstractAnswer' = [AbstractAnswer EXCEPT ![id] = AnswerView(answer'[id])]
               /\ AbstractEffect[id] = EffectView(effect[id])
               /\ AbstractAnswer[id] = AnswerView(answer[id])
<1> DEFINE id == job[w].id
<1>1. /\ id \in Ids /\ Ids' = Ids /\ asked' = asked
      /\ \A i \in Ids \ {id} : effect'[i] = effect[i] /\ answer'[i] = answer[i]
  BY StepFacts, FrameStep
<1> HIDE DEF id
<1>2. AbstractEffect' = [AbstractEffect EXCEPT ![id] = EffectView(effect'[id])]
  BY <1>1, Views
<1>3. AbstractAnswer' = [AbstractAnswer EXCEPT ![id] = AnswerView(answer'[id])]
  BY <1>1, Views
<1>4. AbstractEffect[id] = EffectView(effect[id]) /\ AbstractAnswer[id] = AnswerView(answer[id])
  BY <1>1, Views
<1> QED BY <1>1, <1>2, <1>3, <1>4 DEF id

\* Executing a request runs it, as its policy allows, or is invisible.
LEMMA AbstractRun ==
    ASSUME TypeInv, RequestInv, JobPolicy, Enforce, NEW w \in Workers, RouteAndExecute(w)
    PROVE  G!Run(job[w].id) \/ UNCHANGED G!vars
<1> DEFINE id == job[w].id
<1>1. GatewayTypeOK /\ Step(w) /\ Busy(w) /\ id \in Ids /\ job[w].stage = "execute"
  <2>1. GatewayTypeOK /\ Step(w)
    BY DEF TypeInv, Step
  <2> QED BY <2>1, StepFacts DEF RouteAndExecute, At
<1>2. /\ asked' = asked
      /\ AbstractEffect' = [AbstractEffect EXCEPT ![id] = EffectView(effect'[id])]
      /\ AbstractAnswer' = [AbstractAnswer EXCEPT ![id] = AnswerView(answer'[id])]
      /\ AbstractEffect[id] = EffectView(effect[id])
      /\ AbstractAnswer[id] = AnswerView(answer[id])
  BY <1>1, AbstractMove
<1>3. effect[id] = NoEffect /\ answer[id] = Pending /\ PolicyAllows(asked[id])
  BY <1>1 DEF RequestInv, Owned, Answered, OnCourse, Midway, Early, JobPolicy, Cleared,
             MayExecute, Req
<1>4. answer' = answer
  BY DEF RouteAndExecute, Record
<1>5. ~effect'[id].leaked
  <2>1. PICK e \in Effect : effect' = [effect EXCEPT ![id] = e] /\ (Enforce => ~e.leaked)
    BY <1>1, ExecutionEffect
  <2> QED BY <1>1, <2>1 DEF GatewayTypeOK, Ids
<1> HIDE DEF id
<1>6. UNCHANGED AbstractAnswer /\ AbstractAnswer[id] = G!Open
  BY <1>2, <1>3, <1>4, Views DEF AnswerView, G!Open
<1>7. AbstractEffect[id] = "none"
  BY <1>2, <1>3 DEF EffectView, NoEffect
<1>8. CASE effect'[id].ran
  <2>1. EffectView(effect'[id]) = "ran"
    BY <1>5, <1>8 DEF EffectView
  <2>2. G!Run(id)
    BY <1>2, <1>3, <1>6, <1>7, <2>1 DEF G!Run
  <2> QED BY <2>2 DEF id
<1>9. CASE ~effect'[id].ran
  <2>1. EffectView(effect'[id]) = "none"
    BY <1>5, <1>9 DEF EffectView
  <2>2. AbstractEffect' = AbstractEffect
    BY ZenonT(60), <1>2, <1>7, <2>1, Views
  <2> QED BY <1>2, <1>6, <2>2 DEF G!vars
<1> QED BY <1>8, <1>9

\* A worker that concludes answers its request truthfully.
LEMMA AbstractConclude ==
    ASSUME TypeInv, RequestInv, NoLeak, Enforce, NEW w \in Workers,
           Return(w) \/ FailClosed(w)
    PROVE  G!Answer(job[w].id)
<1> DEFINE id == job[w].id
           d == answer'[id]
           a == [allowed |-> d.allowed, executed |-> d.executed, error |-> d.error]
<1>1. GatewayTypeOK /\ Step(w) /\ Busy(w) /\ id \in Ids /\ job'[w] = IdleJob
  <2>1. GatewayTypeOK /\ Step(w)
    BY DEF TypeInv, Step
  <2> QED BY <2>1, StepFacts, LaterShape
<1>2. /\ asked' = asked
      /\ AbstractEffect' = [AbstractEffect EXCEPT ![id] = EffectView(effect'[id])]
      /\ AbstractAnswer' = [AbstractAnswer EXCEPT ![id] = AnswerView(answer'[id])]
      /\ AbstractEffect[id] = EffectView(effect[id])
      /\ AbstractAnswer[id] = AnswerView(answer[id])
  BY <1>1, AbstractMove
<1>3. d \in Decision /\ d # Pending
  BY <1>1, Conclusion, StepFacts, FailClosedFacts
<1>4. effect' = effect /\ ~effect[id].leaked /\ effect[id].ran \in BOOLEAN
  <2>1. effect' = effect
    BY DEF Return, FailClosed, World
  <2>2. ~effect[id].leaked
    BY <1>1 DEF NoLeak
  <2>3. effect[id] \in Effect
    BY <1>1 DEF GatewayTypeOK, Ids
  <2> QED BY <2>1, <2>2, <2>3 DEF Effect
<1>5. d = FailClosedDecision \/ Sound(d, asked[id], effect[id])
  <2>1. OnCourse(job[w], Req(w), effect[id], audited[id])
    BY <1>1 DEF RequestInv
  <2>2. Concluded(d, Req(w), effect'[id], audited'[id])
    BY <1>1, <2>1, ConcludedStep
  <2> QED BY <1>4, <2>2 DEF Concluded, Req
<1>6. answer[id] = Pending
  BY <1>1 DEF RequestInv, Owned, Answered
<1> HIDE DEF id, d
<1>7. a \in G!Answers
  BY <1>3 DEF Decision, G!Answers
<1>8. AbstractEffect[id] = "ran" <=> effect[id].ran
  BY <1>2, <1>4 DEF EffectView
<1>9. G!Truthful(id, a)
  <2>1. CASE d = FailClosedDecision
    BY <2>1, FailClosedFacts DEF G!Truthful
  <2>2. CASE Sound(d, asked[id], effect[id])
    BY <1>3, <1>4, <1>8, <2>2 DEF Sound, Decision, G!Truthful
  <2> QED BY <1>5, <2>1, <2>2
<1>10. AbstractAnswer[id] = G!Open /\ AbstractAnswer' = [AbstractAnswer EXCEPT ![id] = a]
  BY <1>2, <1>3, <1>6 DEF AnswerView, G!Open, d
<1>11. AbstractEffect' = AbstractEffect
  BY <1>2, <1>4, Views
<1>12. G!Answer(id)
  BY <1>2, <1>7, <1>9, <1>10, <1>11 DEF G!Answer
<1> QED BY <1>12 DEF id

\* The other steps leave effects and answers alone.
LEMMA AbstractStutter ==
    ASSUME UNCHANGED <<asked, effect, answer>>
    PROVE  UNCHANGED G!vars
<1>1. Ids' = Ids
  BY DEF Ids
<1> QED BY <1>1, Views DEF G!vars

\* Every step of the gateway is one of Guard's, or shows Guard nothing.
LEMMA AbstractStep ==
    ASSUME TypeInv, RequestInv, NoLeak, JobPolicy, Enforce, [GNext]_allvars
    PROVE  [G!Next]_(G!vars)
<1>1. GatewayTypeOK
  BY DEF TypeInv
<1>2. ASSUME NEW w \in Workers, NEW req \in Requests, Submit(w, req)
      PROVE  G!Next
  BY <1>1, <1>2, AbstractSubmit DEF G!Next
<1>3. ASSUME NEW w \in Workers, Step(w) \/ Raise(w)
      PROVE  [G!Next]_(G!vars)
  <2>1. job[w].id \in 1..Len(asked)
    BY <1>1, <1>3, StepFacts DEF Ids
  <2>2. CASE RouteAndExecute(w)
    BY <2>1, <2>2, AbstractRun DEF G!Next
  <2>3. CASE Return(w) \/ FailClosed(w)
    BY <2>1, <2>3, AbstractConclude DEF G!Next
  <2>4. CASE ~RouteAndExecute(w) /\ ~Return(w) /\ ~FailClosed(w)
    BY <1>1, <1>3, <2>4, FrameStep, AbstractStutter
  <2> QED BY <2>2, <2>3, <2>4
<1>4. CASE GTick \/ UNCHANGED allvars
  BY <1>4, AbstractStutter DEF GTick, gvars, allvars
<1> QED BY <1>2, <1>3, <1>4 DEF GNext

\* Protected mode implements Guard (SECURITY.md:27-35): every step of every
\* worker, with faults and a monitor shared by all of them, is a step of the
\* abstract guard or invisible to it.  Nothing else of the pipeline matters to
\* the promise: neither its stages, nor its telemetry, nor the agents' history.
THEOREM GatewayImplementsGuard == Enforce => (GSpec => ImplementsGuard)
<1> SUFFICES ASSUME Enforce PROVE GSpec => ImplementsGuard
  OBVIOUS
<1>1. GInit => G!Init /\ JobPolicy
  BY AbstractInit DEF GInit, JobPolicy, Cleared, IdleJob
<1>2. TypeInv /\ JobPolicy /\ [GNext]_allvars => JobPolicy'
  BY JobPolicyStep
<1>3. TypeInv /\ RequestInv /\ NoLeak /\ JobPolicy /\ [GNext]_allvars => [G!Next]_(G!vars)
  BY AbstractStep
<1> QED BY <1>1, <1>2, <1>3, RequestsOnCourse, GatewayNeverLeaks, PTL
        DEF GSpec, ImplementsGuard, G!Spec

-----------------------------------------------------------------------------
(* The baselines *)

\* The stages in which a request's run has not reached its agent's baseline.
Untaught == Early \cup {"commit", "locked"}

\* The runs of an agent outside isolation that its baseline may know.
Taught(a) ==
    {id \in Ids : /\ asked[id].agent = a
                  /\ effect[id].ran /\ ~effect[id].isolated
                  /\ \A w \in Workers : job[w].stage \in Untaught => job[w].id # id}

\* A profile that knows no more than these runs of the requests taught it.
LearnedFrom(p, requests, runs) ==
    /\ p.total_calls <= Cardinality(runs)
    /\ p.seen_tools \subseteq {requests[id].call.tool : id \in runs}

\* What keeps an isolated or denied call from reaching record_allow.
Trains(j, req, e, o) ==
    /\ j.stage \in {"sanitize", "enforce", "observe", "judge"} => ~j.force
    /\ j.stage \in {"resolve", "execute"} /\ j.force => j.dec.verdict = "quarantine"
    /\ j.stage = "commit" /\ CommitKind(req, j.dec) = "allow" => e.ran /\ ~e.isolated
    /\ j.stage = "locked" /\ o.kind = "allow" =>
         /\ o.agent = req.agent /\ o.tool = req.call.tool
         /\ e.ran /\ ~e.isolated

\* Every worker trains only with runs, and every baseline was learned from runs.
BaselineInv ==
    /\ \A w \in Workers : Busy(w) => Trains(job[w], Req(w), effect[job[w].id], op[w])
    /\ \A a \in Agents : LearnedFrom(profiles[a], asked, Taught(a))

\* What a step does to its worker's isolation flag.
LEMMA ForceShape ==
    ASSUME GatewayTypeOK, NEW w \in Workers
    PROVE  /\ Sanitize(w) => job'[w].stage = "commit" \/ job'[w].force = job[w].force
           /\ ObserveAttempt(w) \/ Resolve(w) => job'[w].force = job[w].force
           /\ EnforcePolicy(w) => \/ job'[w].stage = "observe" /\ job'[w].force = job[w].force
                                  \/ /\ job'[w].stage = "resolve"
                                     /\ job'[w].force => job'[w].dec.verdict = "quarantine"
           /\ JudgeAttempt(w) =>
                job'[w].force = (job'[w].dec.verdict = "quarantine")
<1>1. Step(w) => job[w] \in Job /\ job[w].dec \in Decision /\ DOMAIN job = Workers
  BY StepFacts
<1>2. Sanitize(w) => job'[w].stage = "commit" \/ job'[w].force = job[w].force
  <2> SUFFICES ASSUME Sanitize(w), ~Oversized(Req(w)) PROVE job'[w].force = job[w].force
    BY SanitizeShape
  <2> QED BY SMTT(60), <1>1 DEF Sanitize, Goto, Job, Step
<1>3. ObserveAttempt(w) => job'[w].force = job[w].force
  BY <1>1 DEF ObserveAttempt, Goto, Job, Step
<1>4. Resolve(w) => job'[w].force = job[w].force
  <2> SUFFICES ASSUME Resolve(w) PROVE job'[w].force = job[w].force
    OBVIOUS
  <2> DEFINE v == CASE Refused(Req(w), job[w].dec.verdict) ->
                       IF Enforce THEN "block" ELSE "allow"
                    [] job[w].dec.verdict = "sanitize"
                         /\ ~Refused(Req(w), job[w].dec.verdict) -> "allow"
                    [] OTHER -> job[w].dec.verdict
             ends == v = "block" \/ ~HasCall(Req(w))
             b == Refused(Req(w), job[w].dec.verdict)
             s == job[w].dec.verdict = "sanitize"
             a == ends /\ v # "block"
             stage == IF ends THEN "commit" ELSE "execute"
  <2>1. Goto(w, [job[w] EXCEPT !.dec.verdict = v, !.dec.would_block = b,
                               !.dec.scrubbed = s, !.dec.allowed = a], stage)
    BY DEF Resolve
  <2> HIDE DEF v, b, s, a, stage
  <2> QED BY SMTT(60), <1>1, <2>1 DEF Goto, Job, Decision, Step
<1>5. EnforcePolicy(w) => \/ job'[w].stage = "observe" /\ job'[w].force = job[w].force
                          \/ /\ job'[w].stage = "resolve"
                             /\ job'[w].force => job'[w].dec.verdict = "quarantine"
  <2> SUFFICES ASSUME EnforcePolicy(w)
               PROVE  \/ job'[w].stage = "observe" /\ job'[w].force = job[w].force
                      \/ /\ job'[w].stage = "resolve"
                         /\ job'[w].force => job'[w].dec.verdict = "quarantine"
    OBVIOUS
  <2>1. ASSUME NEW verdict, NEW force,
               Goto(w, [job[w] EXCEPT !.dec.verdict = verdict, !.force = force], "resolve")
        PROVE  /\ job'[w].force = force /\ job'[w].dec.verdict = verdict
               /\ job'[w].stage = "resolve"
    BY SMTT(60), <1>1, <2>1 DEF Goto, Job, Decision, Step
  <2>2. \/ Goto(w, job[w], "observe")
        \/ \E verdict :
             Goto(w, [job[w] EXCEPT !.dec.verdict = verdict, !.force = FALSE], "resolve")
        \/ Goto(w, [job[w] EXCEPT !.dec.verdict = "quarantine", !.force = TRUE], "resolve")
    BY ZenonT(60) DEF EnforcePolicy
  <2>3. Goto(w, job[w], "observe") => job'[w].force = job[w].force /\ job'[w].stage = "observe"
    BY <1>1 DEF Goto, Job, Step
  <2> QED BY <2>1, <2>2, <2>3
<1>6. JudgeAttempt(w) => job'[w].force = (job'[w].dec.verdict = "quarantine")
  <2> SUFFICES ASSUME JudgeAttempt(w)
               PROVE  job'[w].force = (job'[w].dec.verdict = "quarantine")
    OBVIOUS
  <2>1. PICK v, k, f :
          /\ Goto(w, [job[w] EXCEPT !.keep = k, !.dec.verdict = v, !.force = f], "resolve")
          /\ f = (v = "quarantine")
    BY Zenon DEF JudgeAttempt
  <2>2. job'[w].force = f /\ job'[w].dec.verdict = v
    BY SMTT(60), <1>1, <2>1 DEF Goto, Job, Decision, Step
  <2> QED BY <2>1, <2>2
<1> QED BY <1>2, <1>3, <1>4, <1>5, <1>6

\* Only an executed call that no verdict isolates or blocks is recorded as allowed.
LEMMA AllowKind ==
    ASSUME NEW req, NEW d, CommitKind(req, d) = "allow"
    PROVE  d.verdict \in {"allow", "sanitize"} /\ d.executed
BY DEF CommitKind

\* What record_allow is given: the call of a request recorded as allowed.
LEMMA CommitBehaviourOp ==
    ASSUME TypeOK, NEW w \in Workers, CommitBehaviour(w), job'[w].stage = "locked",
           DOMAIN job = Workers, job[w] \in Job, op'[w].kind = "allow"
    PROVE  /\ CommitKind(Req(w), job[w].dec) = "allow"
           /\ op'[w].agent = Req(w).agent /\ op'[w].tool = Req(w).call.tool
<1> DEFINE kind == CommitKind(Req(w), job[w].dec)
<1>1. op \in [Threads -> Op] /\ Workers = Threads
  BY DEF TypeOK, Workers
<1>2. kind # "nothing"
  BY DEF CommitBehaviour, Goto, Job
<1> HIDE DEF kind
<1>3. \/ kind = "block" /\ CallRecordBlock(w, Req(w).agent, Req(w).call.tool)
      \/ kind = "allow" /\ CallRecordAllow(w, Req(w).agent, Req(w).call.tool)
      \/ kind = "quarantined" /\ CallRecordQuarantined(w, Req(w).agent, Req(w).call.tool)
  BY <1>2 DEF CommitBehaviour, kind
<1>4. CASE kind = "allow"
  BY <1>1, <1>3, <1>4 DEF CallRecordAllow, Begin, kind
<1>5. CASE kind # "allow"
  BY <1>1, <1>3, <1>5 DEF CallRecordBlock, CallRecordQuarantined, Begin
<1> QED BY <1>4, <1>5

\* At commit only a run outside isolation may be on its way to record_allow.
LEMMA TrainsAtCommit ==
    ASSUME NEW j, NEW req, NEW e, NEW o, j.stage = "commit",
           CommitKind(req, j.dec) = "allow" => e.ran /\ ~e.isolated
    PROVE  Trains(j, req, e, o)
BY DEF Trains

\* Every step of a worker keeps its own request out of the baseline until it ran.
LEMMA TrainsStep ==
    ASSUME GatewayTypeOK, TypeOK, NEW w \in Workers, Step(w) \/ Raise(w),
           job'[w] # IdleJob, Midway(job[w], Req(w), effect[job[w].id]),
           Trains(job[w], Req(w), effect[job[w].id], op[w])
    PROVE  Trains(job'[w], Req(w), effect'[job[w].id], op'[w])
<1> DEFINE j == job[w]
           req == Req(w)
           e == effect[j.id]
           jj == job'[w]
           ee == effect'[j.id]
<1> SUFFICES Trains(jj, req, ee, op'[w])
  OBVIOUS
<1>1. /\ j \in Job /\ j.dec \in Decision /\ j.id \in Ids /\ req \in Requests
      /\ j.stage \in Stages /\ DOMAIN job = Workers
  BY StepFacts
<1>2. ~RouteAndExecute(w) => ee = e
  BY FrameStep
<1>3. ASSUME jj.stage \notin Untaught
      PROVE  Trains(jj, req, ee, op'[w])
  BY <1>3 DEF Trains, Untaught, Early
<1>4. CASE Raise(w)
  BY <1>3, <1>4, LaterShape DEF Untaught, Early
<1>5. CASE Sanitize(w)
  <2>1. ~j.force /\ NothingDone(j.dec)
    BY <1>5, StageBefore DEF Trains, Midway, Early
  <2>2. CASE jj.stage = "commit"
    <3>1. jj.dec = [j.dec EXCEPT !.verdict = "block", !.would_block = TRUE]
      BY <1>5, <2>2, SanitizeShape
    <3>2. jj.dec.verdict = "block"
      BY <1>1, <3>1 DEF Decision
    <3>3. CommitKind(req, jj.dec) # "allow"
      BY <3>2, AllowKind
    <3> QED BY <2>2, <3>3, TrainsAtCommit
  <2>3. CASE jj.stage # "commit"
    BY <1>5, <2>1, <2>3, SanitizeShape, ForceShape DEF Trains
  <2> QED BY <2>2, <2>3
<1>6. CASE EnforcePolicy(w)
  BY <1>6, StageBefore, ForceShape DEF Trains
<1>7. CASE ObserveAttempt(w)
  BY <1>1, <1>7, StageBefore, StageAfter, ForceShape DEF Trains, Step
<1>8. CASE JudgeAttempt(w)
  BY <1>8, JudgeAttemptShape, ForceShape DEF Trains
<1>9. CASE Resolve(w)
  <2>1. NothingDone(j.dec) /\ (j.force => j.dec.verdict = "quarantine")
    BY <1>9, StageBefore DEF Trains, Midway, Early
  <2>2. jj.force = j.force /\ jj.stage \in {"commit", "execute"}
    BY <1>1, <1>9, StageAfter, ForceShape DEF Step
  <2> DEFINE v == Resolved(req, j.dec.verdict)
             denied == Refused(req, j.dec.verdict)
             allowed == Ends(req, j.dec.verdict) /\ v # "block"
  <2>3. PICK scrub \in BOOLEAN :
          jj.dec = [j.dec EXCEPT !.verdict = v, !.would_block = denied,
                                 !.scrubbed = scrub, !.allowed = allowed]
    BY <1>9, ResolveShape
  <2> HIDE DEF denied, allowed
  <2>4. jj.dec.verdict = Resolved(req, j.dec.verdict) /\ jj.dec.executed = j.dec.executed
    BY <1>1, <2>3 DEF Decision
  <2>5. ~jj.dec.executed
    BY <2>1, <2>4 DEF NothingDone
  <2>6. jj.force => jj.dec.verdict = "quarantine"
    BY <2>1, <2>2, <2>4 DEF Resolved, Refused
  <2>7. CommitKind(req, jj.dec) # "allow"
    BY <2>5, AllowKind
  <2> HIDE DEF jj
  <2> QED BY <2>2, <2>6, <2>7 DEF Trains
<1>10. CASE RouteAndExecute(w)
  <2>1. j.force => j.dec.verdict = "quarantine"
    BY <1>10, StageBefore DEF Trains
  <2>2. PICK tier \in Tiers, isolate \in BOOLEAN, verdict \in Verdicts :
          LET out == Execute(tier, req.call, Enforce)
          IN  /\ isolate <=> j.force \/ j.dec.verdict = "quarantine"
              /\ verdict = IF out.blocked /\ j.dec.verdict # "quarantine"
                           THEN "block" ELSE j.dec.verdict
              /\ effect' = [effect EXCEPT ![j.id] =
                     [ran |-> ~out.blocked, isolated |-> isolate,
                      leaked |-> out.exfiltrated]]
              /\ jj.stage = "commit"
              /\ jj.dec = Entered(j.dec, verdict, ~out.blocked, tier,
                                 j.dec.would_block \/ out.attempt, out.attempt,
                                 out.exfiltrated)
    BY <1>10, RouteAndExecuteShape
  <2> DEFINE out == Execute(tier, req.call, Enforce)
  <2>3. ee = [ran |-> ~out.blocked, isolated |-> isolate, leaked |-> out.exfiltrated]
    BY <1>1, <2>2 DEF GatewayTypeOK, Ids
  <2>4. jj.dec.verdict = verdict /\ jj.dec.executed = ~out.blocked
    BY <1>1, <2>2 DEF Entered, Decision
  <2>5. out.blocked \in BOOLEAN
    BY <1>1, OutcomeFacts DEF ExecOutcome
  <2>6. /\ isolate => j.dec.verdict = "quarantine"
        /\ verdict = IF out.blocked /\ j.dec.verdict # "quarantine"
                     THEN "block" ELSE j.dec.verdict
    BY <2>1, <2>2
  <2>7. ee.ran = ~out.blocked /\ ee.isolated = isolate
    BY <2>3
  <2>8. jj.stage = "commit"
    BY <2>2
  <2> HIDE DEF out, jj, ee
  <2>9. CommitKind(req, jj.dec) = "allow" => ee.ran /\ ~ee.isolated
    BY <2>4, <2>5, <2>6, <2>7, AllowKind
  <2> QED BY <2>8, <2>9, TrainsAtCommit
<1>11. CASE CommitBehaviour(w)
  <2>1. jj.stage \in {"account", "locked"} /\ ee = e
    BY <1>2, <1>11, StageBefore, LaterShape
  <2>2. CommitKind(req, j.dec) = "allow" => e.ran /\ ~e.isolated
    BY <1>11, StageBefore DEF Trains
  <2>3. jj.stage = "locked" /\ op'[w].kind = "allow" =>
          /\ CommitKind(req, j.dec) = "allow"
          /\ op'[w].agent = req.agent /\ op'[w].tool = req.call.tool
    BY <1>1, <1>11, CommitBehaviourOp
  <2> QED BY <2>1, <2>2, <2>3 DEF Trains
<1>12. CASE CommitLocked(w) \/ Account(w) \/ Emit(w) \/ CountExfil(w)
  BY <1>1, <1>3, <1>12, StageAfter DEF Step, Untaught, Early
<1>13. CASE Return(w) \/ FailClosed(w)
  BY <1>13, LaterShape
<1> QED BY <1>4, <1>5, <1>6, <1>7, <1>8, <1>9, <1>10, <1>11, <1>12, <1>13 DEF Step

\* Finitely many requests have run.
LEMMA TaughtIsFinite ==
    ASSUME GatewayTypeOK, NEW a
    PROVE  IsFiniteSet(Taught(a))
<1>1. Taught(a) \subseteq Ids /\ IsFiniteSet(Ids)
  BY FS_Interval DEF Taught, Ids, GatewayTypeOK
<1> QED BY <1>1, FS_Subset

\* What was learned from some runs was learned from more of them.
LEMMA LearnedFromMore ==
    ASSUME NEW p \in Profile, NEW q \in Profile, Within(p, q),
           NEW requests, NEW runs, LearnedFrom(q, requests, runs),
           NEW requests2, NEW more, IsFiniteSet(more), runs \subseteq more,
           \A id \in runs : requests2[id] = requests[id]
    PROVE  LearnedFrom(p, requests2, more)
<1>1. Cardinality(runs) \in Nat /\ Cardinality(more) \in Nat
      /\ Cardinality(runs) <= Cardinality(more)
  BY FS_Subset, FS_CardinalityType
<1>2. p.total_calls <= Cardinality(more)
  BY <1>1 DEF LearnedFrom, Within, Profile
<1>3. p.seen_tools \subseteq {requests2[id].call.tool : id \in more}
  BY DEF LearnedFrom, Within
<1> QED BY <1>2, <1>3 DEF LearnedFrom

\* A run teaches one call of its tool.
LEMMA LearnedFromOneMore ==
    ASSUME NEW p \in Profile, NEW q \in Profile, NEW requests, NEW runs, NEW id,
           LearnedFrom(q, requests, runs), WithinAfter(p, q, requests[id].call.tool),
           NEW more, IsFiniteSet(more), runs \subseteq more, id \in more, id \notin runs
    PROVE  LearnedFrom(p, requests, more)
<1>1. IsFiniteSet(runs) /\ runs \cup {id} \subseteq more
  BY FS_Subset
<1>2. /\ Cardinality(runs \cup {id}) = Cardinality(runs) + 1
      /\ Cardinality(runs) \in Nat
  BY <1>1, FS_AddElement, FS_CardinalityType
<1>3. Cardinality(runs \cup {id}) <= Cardinality(more) /\ Cardinality(more) \in Nat
  BY <1>1, FS_Subset, FS_CardinalityType
<1>4. p.total_calls <= Cardinality(more)
  BY <1>2, <1>3 DEF LearnedFrom, WithinAfter, Profile
<1>5. p.seen_tools \subseteq {requests[i].call.tool : i \in more}
  BY <1>1 DEF LearnedFrom, WithinAfter
<1> QED BY <1>4, <1>5 DEF LearnedFrom

\* No stage after the commit leads back before it.
LEMMA UntaughtBefore ==
    ASSUME GatewayTypeOK, NEW w \in Workers, Step(w) \/ Raise(w),
           job'[w].stage \in Untaught
    PROVE  job[w].stage \in Untaught
<1>1. job[w].stage \in Stages
  BY StepStage
<1>2. CASE Raise(w)
  BY <1>2, LaterShape DEF Untaught, Early
<1>3. CASE Step(w)
  BY <1>1, <1>3, StageBefore, StageAfter DEF Step, Untaught, Early
<1> QED BY <1>2, <1>3

\* A run that may be known stays so: no step takes back what a request did.
LEMMA TaughtGrows ==
    ASSUME GatewayTypeOK, NEW w \in Workers, Step(w) \/ Raise(w), NEW a
    PROVE  Taught(a) \subseteq Taught(a)'
<1> SUFFICES ASSUME NEW i \in Taught(a) PROVE i \in Taught(a)'
  OBVIOUS
<1>1. /\ i \in Ids /\ asked[i].agent = a /\ effect[i].ran /\ ~effect[i].isolated
      /\ \A v \in Workers : job[v].stage \in Untaught => job[v].id # i
  BY DEF Taught
<1>2. /\ asked' = asked /\ Ids' = Ids
      /\ \A v \in Workers \ {w} : job'[v] = job[v]
      /\ job'[w] = IdleJob \/ job'[w].id = job[w].id
      /\ \A k \in Ids \ {job[w].id} : effect'[k] = effect[k]
      /\ ~RouteAndExecute(w) => effect' = effect
  BY FrameStep
<1>3. effect'[i] = effect[i]
  <2>1. RouteAndExecute(w) => job[w].id # i
    BY <1>1, StageBefore DEF Untaught, Early
  <2> QED BY <1>1, <1>2, <2>1
<1>4. IdleJob.stage \notin Untaught
  BY DEF IdleJob, Untaught, Early
<1>5. ASSUME NEW v \in Workers, job'[v].stage \in Untaught
      PROVE  job'[v].id # i
  <2>1. CASE v = w
    <3>1. job[w].stage \in Untaught
      BY <1>5, <2>1, UntaughtBefore
    <3> QED BY <1>1, <1>2, <1>4, <1>5, <2>1, <3>1
  <2>2. CASE v # w
    BY <1>1, <1>2, <1>5, <2>2
  <2> QED BY <2>1, <2>2
<1> QED BY <1>1, <1>2, <1>3, <1>5 DEF Taught

\* record_allow makes its run one of those that may be known.
LEMMA TaughtAdds ==
    ASSUME GatewayTypeOK, Owned, NEW w \in Workers, CommitLocked(w),
           effect[job[w].id].ran, ~effect[job[w].id].isolated,
           NEW a, a = Req(w).agent, NEW id, id = job[w].id
    PROVE  id \in Taught(a)' /\ id \notin Taught(a)
<1>1. /\ id \in Ids /\ Busy(w) /\ job[w].stage = "locked" /\ job'[w].stage = "account"
      /\ Step(w)
  BY StepFacts, StageBefore, StageAfter DEF Step
<1>2. /\ asked' = asked /\ Ids' = Ids /\ effect' = effect
      /\ \A v \in Workers \ {w} : job'[v] = job[v]
  <2>1. ~RouteAndExecute(w)
    BY <1>1, StageBefore
  <2> QED BY <1>1, <2>1, FrameStep
<1>3. id \notin Taught(a)
  BY <1>1 DEF Taught, Untaught
<1>4. ASSUME NEW v \in Workers, job'[v].stage \in Untaught
      PROVE  job'[v].id # id
  <2>1. v # w /\ job'[v] = job[v]
    BY <1>1, <1>2, <1>4 DEF Untaught, Early
  <2>2. Busy(v)
    BY <1>4, <2>1 DEF Busy, IdleJob, Untaught, Early
  <2> QED BY <1>1, <2>1, <2>2 DEF Owned
<1>5. asked'[id].agent = a /\ effect'[id].ran /\ ~effect'[id].isolated
  BY <1>2 DEF Req
<1>6. id \in Taught(a)'
  BY <1>1, <1>2, <1>4, <1>5 DEF Taught
<1> QED BY <1>3, <1>6

\* Only the monitor's locked sections change a profile.
LEMMA ProfilesChange ==
    ASSUME NEW w \in Workers, Step(w) \/ Raise(w)
    PROVE  \/ profiles' = profiles
           \/ Locked(w) /\ (ObserveAttempt(w) \/ CommitLocked(w))
<1>1. CASE Raise(w)
  BY <1>1 DEF Raise, vars
<1>2. CASE ObserveAttempt(w) \/ CommitLocked(w)
  BY <1>2 DEF ObserveAttempt, CommitLocked, Locked
<1>3. CASE EnforcePolicy(w)
  BY <1>3 DEF EnforcePolicy, CallObserve, Begin, vars
<1>4. CASE CommitBehaviour(w)
  BY SMTT(60), <1>4 DEF CommitBehaviour, CallRecordBlock, CallRecordAllow, CallRecordQuarantined,
              Begin, vars
<1>5. CASE \/ Sanitize(w) \/ JudgeAttempt(w) \/ Resolve(w) \/ RouteAndExecute(w)
           \/ Account(w) \/ Emit(w) \/ CountExfil(w) \/ Return(w) \/ FailClosed(w)
  BY <1>5 DEF Sanitize, JudgeAttempt, Resolve, RouteAndExecute, Account, Emit, CountExfil,
              Incr, Return, FailClosed, vars
<1> QED BY <1>1, <1>2, <1>3, <1>4, <1>5 DEF Step

\* A new request teaches nothing.
LEMMA BaselineSubmit ==
    ASSUME TypeInv, BaselineInv, NEW w \in Workers, NEW req \in Requests, Submit(w, req)
    PROVE  BaselineInv'
<1> DEFINE new == Len(asked) + 1
<1>1. GatewayTypeOK /\ TypeOK
  BY DEF TypeInv
<1>2. /\ Ids' = Ids \cup {new} /\ new \notin Ids
      /\ \A i \in Ids : asked'[i] = asked[i] /\ effect'[i] = effect[i]
      /\ asked'[new] = req
      /\ \A v \in Workers \ {w} : job'[v] = job[v]
      /\ job'[w].stage = "sanitize" /\ job'[w].id = new
  BY <1>1, SubmitFacts
<1>3. op' = op /\ profiles' = profiles
  BY DEF Submit, vars
<1>4. ~job'[w].force
  BY <1>1 DEF Submit, GatewayTypeOK
<1>5. \A v \in Workers : Busy(v) => job[v].id \in Ids
  BY <1>1, BusyFacts
<1> HIDE DEF new
<1>6. ASSUME NEW v \in Workers, Busy(v)'
      PROVE  Trains(job'[v], asked'[job'[v].id], effect'[job'[v].id], op'[v])
  <2>1. CASE v = w
    BY <1>2, <1>4, <2>1 DEF Trains
  <2>2. CASE v # w
    <3>1. job'[v] = job[v] /\ Busy(v) /\ job[v].id \in Ids
      BY <1>2, <1>5, <1>6, <2>2 DEF Busy
    <3>2. Trains(job[v], asked[job[v].id], effect[job[v].id], op[v])
      BY <3>1 DEF BaselineInv, Req
    <3> QED BY <1>2, <1>3, <3>1, <3>2
  <2> QED BY <2>1, <2>2
<1>7. ASSUME NEW a \in Agents
      PROVE  LearnedFrom(profiles'[a], asked', Taught(a)')
  <2>1. LearnedFrom(profiles[a], asked, Taught(a)) /\ profiles[a] \in Profile
    BY <1>1 DEF BaselineInv, TypeOK
  <2>2. Taught(a) \subseteq Ids
    BY DEF Taught
  <2>3. ASSUME NEW i \in Taught(a)
        PROVE  i \in Taught(a)'
    <3>1. /\ i \in Ids /\ i # new /\ asked[i].agent = a /\ effect[i].ran
          /\ ~effect[i].isolated
          /\ \A v \in Workers : job[v].stage \in Untaught => job[v].id # i
      BY <1>2 DEF Taught
    <3>2. \A v \in Workers : job'[v].stage \in Untaught => job'[v].id # i
      BY <1>2, <3>1
    <3> QED BY <1>2, <3>1, <3>2 DEF Taught
  <2>4. IsFiniteSet(Taught(a)')
    <3>1. Ids' = 1..Len(asked') /\ Len(asked') \in Int
      BY <1>1 DEF Ids, Submit, GatewayTypeOK
    <3>2. IsFiniteSet(Ids') /\ Taught(a)' \subseteq Ids'
      BY <3>1, FS_Interval DEF Taught
    <3> QED BY <3>2, FS_Subset
  <2>5. Within(profiles[a], profiles[a])
    BY <2>1 DEF Within, Profile
  <2>6. \A i \in Taught(a) : asked'[i] = asked[i]
    BY <1>2, <2>2
  <2> QED BY <1>3, <2>1, <2>3, <2>4, <2>5, <2>6, LearnedFromMore
<1> QED BY <1>6, <1>7 DEF BaselineInv, Req

\* A step of a worker: only its commit may add to a baseline, and adds its own run.
LEMMA BaselineMove ==
    ASSUME TypeInv, TypeInv', RequestInv, BaselineInv,
           NEW w \in Workers, Step(w) \/ Raise(w)
    PROVE  BaselineInv'
<1> DEFINE id == job[w].id
<1>1. GatewayTypeOK /\ TypeOK /\ GatewayTypeOK' /\ TypeOK'
  BY DEF TypeInv
<1>2. /\ Busy(w) /\ id \in Ids /\ Ids' = Ids /\ asked' = asked
      /\ \A v \in Workers \ {w} : job'[v] = job[v]
      /\ job'[w] = IdleJob \/ job'[w].id = id
      /\ \A i \in Ids \ {id} : effect'[i] = effect[i]
  BY <1>1, StepFacts, FrameStep
<1>3. \A v \in Workers : Busy(v) => job[v].id \in Ids
  BY <1>1, BusyFacts
<1>4. \A v \in Workers \ {w} : Busy(v) => job[v].id # id
  BY <1>2 DEF RequestInv, Owned
<1>5. \A v \in Workers \ {w} : op'[v] = op[v]
  <2>1. Raise(w) => op' = op
    BY DEF Raise, vars
  <2> QED BY <2>1, OthersStay
<1>6. Trains(job[w], Req(w), effect[id], op[w]) /\ Midway(job[w], Req(w), effect[id])
  BY <1>2 DEF BaselineInv, RequestInv, OnCourse
<1>7. job'[w] # IdleJob => Trains(job'[w], Req(w), effect'[id], op'[w])
  BY <1>1, <1>6, TrainsStep
<1> HIDE DEF id
<1>8. ASSUME NEW v \in Workers, Busy(v)'
      PROVE  Trains(job'[v], asked'[job'[v].id], effect'[job'[v].id], op'[v])
  <2>1. CASE v = w
    <3>1. job'[w] # IdleJob /\ job'[w].id = id
      BY <1>2, <1>8, <2>1 DEF Busy
    <3> QED BY <1>2, <1>7, <2>1, <3>1 DEF Req, id
  <2>2. CASE v # w
    <3>1. job'[v] = job[v] /\ Busy(v) /\ job[v].id \in Ids \ {id}
      BY <1>2, <1>3, <1>4, <1>8, <2>2 DEF Busy
    <3>2. Trains(job[v], asked[job[v].id], effect[job[v].id], op[v])
      BY <3>1 DEF BaselineInv, Req
    <3> QED BY <1>2, <1>5, <2>2, <3>1, <3>2
  <2> QED BY <2>1, <2>2
<1>9. ASSUME NEW a \in Agents
      PROVE  LearnedFrom(profiles'[a], asked', Taught(a)')
  <2>1. /\ LearnedFrom(profiles[a], asked, Taught(a))
        /\ profiles[a] \in Profile /\ profiles'[a] \in Profile
    BY <1>1 DEF BaselineInv, TypeOK
  <2>2. Taught(a) \subseteq Taught(a)'
    BY <1>1, TaughtGrows
  <2>3. IsFiniteSet(Taught(a)')
    <3>1. Taught(a)' \subseteq Ids /\ IsFiniteSet(Ids)
      BY <1>1, <1>2, FS_Interval DEF Taught, Ids, GatewayTypeOK
    <3> QED BY <3>1, FS_Subset
  <2>4. CASE Within(profiles'[a], profiles[a])
    BY <1>2, <2>1, <2>2, <2>3, <2>4, LearnedFromMore
  <2>5. CASE ~Within(profiles'[a], profiles[a])
    <3>1. Locked(w) /\ (ObserveAttempt(w) \/ CommitLocked(w))
      <4>1. Within(profiles[a], profiles[a])
        BY <2>1 DEF Within, Profile
      <4> QED BY <2>5, <4>1, ProfilesChange
    <3>2. /\ op[w].kind = "allow" /\ a = op[w].agent
          /\ WithinAfter(profiles'[a], profiles[a], op[w].tool)
      BY <1>1, <2>5, <3>1, LockedBaseline DEF Workers
    <3>3. CommitLocked(w)
      BY <3>1, <3>2 DEF ObserveAttempt, Observe
    <3>4. /\ op[w].agent = Req(w).agent /\ op[w].tool = Req(w).call.tool
          /\ effect[id].ran /\ ~effect[id].isolated
      BY <1>6, <3>2, <3>3, StageBefore DEF Trains
    <3>5. id \in Taught(a)' /\ id \notin Taught(a)
      BY <1>1, <3>2, <3>3, <3>4, TaughtAdds DEF RequestInv, id
    <3>6. WithinAfter(profiles'[a], profiles[a], asked[id].call.tool)
      BY <3>2, <3>4 DEF Req, id
    <3>7. LearnedFrom(profiles'[a], asked, Taught(a)')
      BY <2>1, <2>2, <2>3, <3>5, <3>6, LearnedFromOneMore
    <3> QED BY <1>2, <3>7
  <2> QED BY <2>4, <2>5
<1> QED BY <1>8, <1>9 DEF BaselineInv, Req

\* At first no profile has a baseline.
LEMMA BaselineInit == GInit => BaselineInv
<1> SUFFICES ASSUME GInit PROVE BaselineInv
  OBVIOUS
<1>1. /\ \A w \in Workers : ~Busy(w)
      /\ \A a \in Agents : profiles[a] = NewProfile
  BY DEF GInit, Init, Busy
<1>2. \A a : Taught(a) = {}
  BY DEF GInit, Taught, Ids
<1>3. ASSUME NEW a \in Agents PROVE LearnedFrom(profiles[a], asked, Taught(a))
  <2>1. profiles[a].total_calls = 0 /\ profiles[a].seen_tools = {}
    BY <1>1 DEF NewProfile
  <2>2. Cardinality(Taught(a)) = 0
    BY <1>2, FS_EmptySet
  <2> QED BY <2>1, <2>2 DEF LearnedFrom
<1> QED BY <1>1, <1>3 DEF BaselineInv

\* Every step of the gateway keeps the baselines to the runs.
LEMMA BaselineStep ==
    TypeInv /\ RequestInv /\ BaselineInv /\ [GNext]_allvars => BaselineInv'
<1> SUFFICES ASSUME TypeInv, RequestInv, BaselineInv, [GNext]_allvars PROVE BaselineInv'
  OBVIOUS
<1>1. TypeInv'
  BY TypeInvStep
<1>2. CASE GTick \/ UNCHANGED allvars
  <2>1. UNCHANGED <<asked, effect, job, op, profiles>>
    BY <1>2 DEF GTick, Tick, gvars, allvars, vars
  <2>2. \A a \in Agents : Taught(a)' = Taught(a)
    BY <2>1 DEF Taught, Ids
  <2> QED BY ZenonT(60), <2>1, <2>2 DEF BaselineInv, Busy, Req
<1> QED BY <1>1, <1>2, BaselineSubmit, BaselineMove DEF GNext

\* The inductive invariant of the baselines holds on every behaviour.
LEMMA BaselinesLearned == GSpec => [](TypeInv /\ RequestInv /\ BaselineInv)
BY TypeInvInit, TypeInvStep, RequestInvInit, RequestInvStep, BaselineInit, BaselineStep,
   PTL DEF GSpec

\* "a blocked attack can never train the baseline" (behavior.py:21-24), for every
\* workload, number of workers, interleaving and pattern of faults: an agent's
\* baseline knows only tools it ran outside isolation, and counts no more calls
\* than such runs, whatever the eviction and the time-outs of the store forget.
THEOREM BaselineIsTaughtByRuns == GSpec => []BaselineFromRunsOnly
<1>1. ASSUME TypeInv, BaselineInv PROVE BaselineFromRunsOnly
  <2>1. GatewayTypeOK /\ TypeOK
    BY <1>1 DEF TypeInv
  <2> SUFFICES ASSUME NEW a \in Agents
               PROVE  LET runs == {id \in Ids : /\ asked[id].agent = a
                                                /\ effect[id].ran /\ ~effect[id].isolated}
                      IN  /\ profiles[a].seen_tools \subseteq {asked[id].call.tool : id \in runs}
                          /\ profiles[a].total_calls <= Cardinality(runs)
    BY DEF BaselineFromRunsOnly
  <2> DEFINE runs == {id \in Ids : /\ asked[id].agent = a
                                   /\ effect[id].ran /\ ~effect[id].isolated}
  <2>2. LearnedFrom(profiles[a], asked, Taught(a)) /\ profiles[a] \in Profile
    BY <1>1, <2>1 DEF BaselineInv, TypeOK
  <2>3. Taught(a) \subseteq runs /\ IsFiniteSet(runs)
    <3>1. IsFiniteSet(Ids) /\ runs \subseteq Ids
      BY <2>1, FS_Interval DEF Ids, GatewayTypeOK
    <3> QED BY <3>1, FS_Subset DEF Taught
  <2>4. Within(profiles[a], profiles[a])
    BY <2>2 DEF Within, Profile
  <2> HIDE DEF runs
  <2>5. LearnedFrom(profiles[a], asked, runs)
    BY <2>2, <2>3, <2>4, LearnedFromMore
  <2> QED BY <2>5 DEF LearnedFrom, runs
<1> QED BY <1>1, BaselinesLearned, PTL

-----------------------------------------------------------------------------
(* The block histories *)

\* The deques have room for every request, and the store for every agent.
RoomForBlocks == RoomToRemember /\ MaxRequests <= BlockTimesMax

\* A decision to block the call of a request, not the fail-closed one.
Blocks(d, req) == HasCall(req) /\ d.verdict = "block" /\ ~d.error

\* The blocked calls of an agent that its history has been told of.
Noted(a) ==
    {id \in Ids :
        /\ asked[id].agent = a
        /\ \/ Answered(id) /\ Blocks(answer[id], asked[id])
           \/ \E w \in Workers : /\ job[w].stage \in {"account", "emit", "count_exfil"}
                                 /\ job[w].id = id /\ Blocks(job[w].dec, asked[id])}

\* A worker on its way to the monitor with a block reports it.
Reports(j, req, o) ==
    j.stage = "locked" /\ Blocks(j.dec, req) => o.kind = "block" /\ o.agent = req.agent

\* Every history is at least as long as the blocks it was told of.
BlocksInv ==
    /\ \A w \in Workers : Busy(w) => Reports(job[w], Req(w), op[w])
    /\ \A a \in Agents : Len(profiles[a].block_times) >= Cardinality(Noted(a))

\* Every blocked call is on its way to record_block when it leaves the commit stage.
LEMMA CommitReports ==
    ASSUME GatewayTypeOK, TypeOK, NEW w \in Workers, CommitBehaviour(w),
           Blocks(job[w].dec, Req(w))
    PROVE  /\ job'[w].stage = "locked"
           /\ op'[w].kind = "block" /\ op'[w].agent = Req(w).agent
<1>1. job[w] \in Job /\ DOMAIN job = Workers /\ op \in [Threads -> Op] /\ Workers = Threads
  BY StepFacts DEF Step, TypeOK, Workers
<1>2. CommitKind(Req(w), job[w].dec) = "block"
  BY DEF CommitKind, Blocks
<1>3. CallRecordBlock(w, Req(w).agent, Req(w).call.tool)
  BY <1>2 DEF CommitBehaviour
<1>4. job'[w].stage = "locked"
  BY <1>1, <1>2 DEF CommitBehaviour, Goto, Job
<1> QED BY <1>1, <1>3, <1>4 DEF CallRecordBlock, Begin

\* A worker that enters the monitor with a block reports it.
LEMMA ReportsStep ==
    ASSUME GatewayTypeOK, TypeOK, NEW w \in Workers, Step(w) \/ Raise(w)
    PROVE  Reports(job'[w], Req(w), op'[w])
<1> SUFFICES ASSUME job'[w].stage = "locked", Blocks(job'[w].dec, Req(w))
             PROVE  op'[w].kind = "block" /\ op'[w].agent = Req(w).agent
  BY DEF Reports
<1>1. CommitBehaviour(w)
  <2>1. job[w].stage \in Stages
    BY StepStage
  <2>2. ~Raise(w)
    BY LaterShape
  <2> QED BY <2>1, <2>2, StageAfter DEF Step
<1>2. job'[w].dec = job[w].dec
  BY <1>1, LaterShape
<1> QED BY <1>1, <1>2, CommitReports

\* Only the locked section of a block adds a request to those noted.
LEMMA NotedBefore ==
    ASSUME GatewayTypeOK, TypeOK, NEW w \in Workers, Step(w) \/ Raise(w), NEW a,
           NEW i \in Noted(a)'
    PROVE  \/ i \in Noted(a)
           \/ /\ CommitLocked(w) /\ i = job[w].id /\ Req(w).agent = a
              /\ Blocks(job[w].dec, Req(w))
<1> DEFINE id == job[w].id
<1>1. /\ job[w] \in Job /\ id \in Ids /\ job[w].stage \in Stages /\ DOMAIN job = Workers
      /\ Ids' = Ids /\ asked' = asked
      /\ \A v \in Workers \ {w} : job'[v] = job[v]
      /\ job'[w] = IdleJob \/ job'[w].id = id
      /\ \A k \in Ids \ {id} : answer'[k] = answer[k]
      /\ ~Return(w) /\ ~FailClosed(w) => answer' = answer
  BY StepFacts, FrameStep
<1>2. i \in Ids /\ asked[i].agent = a
  BY <1>1 DEF Noted
<1>3. CASE answer'[i] # Pending /\ Blocks(answer'[i], asked[i])
  <2>1. CASE answer'[i] = answer[i]
    BY <1>2, <1>3, <2>1 DEF Noted, Answered
  <2>2. CASE answer'[i] # answer[i]
    <3>1. i = id /\ (Return(w) \/ FailClosed(w))
      BY <1>1, <1>2, <2>2
    <3>2. CASE FailClosed(w)
      <4>1. answer'[id] = FailClosedDecision
        BY <1>1, <3>2 DEF FailClosed, Conclude, GatewayTypeOK, Ids
      <4> QED BY <1>3, <3>1, <4>1, FailClosedFacts DEF Blocks
    <3>3. CASE Return(w)
      <4>1. answer'[id] = job[w].dec /\ job[w].stage = "count_exfil"
        BY <3>3, LaterShape, Conclusion, StageBefore DEF Step
      <4> QED BY <1>2, <1>3, <3>1, <4>1 DEF Noted
    <3> QED BY <3>1, <3>2, <3>3
  <2> QED BY <2>1, <2>2
<1>4. ASSUME NEW v \in Workers, job'[v].stage \in {"account", "emit", "count_exfil"},
             job'[v].id = i, Blocks(job'[v].dec, asked[i])
      PROVE  \/ i \in Noted(a)
             \/ /\ CommitLocked(w) /\ i = id /\ Req(w).agent = a
                /\ Blocks(job[w].dec, Req(w))
  <2>1. CASE v # w
    BY <1>1, <1>2, <1>4, <2>1 DEF Noted
  <2>2. CASE v = w
    <3>1. i = id
      BY <1>1, <1>4, <2>2 DEF IdleJob
    <3>2. /\ ~Raise(w)
          /\ Account(w) \/ Emit(w) \/ CountExfil(w) \/ CommitLocked(w) \/ CommitBehaviour(w)
      <4>1. ~Raise(w)
        BY <1>4, <2>2, LaterShape
      <4> QED BY <1>1, <1>4, <2>2, <4>1, StageAfter DEF Step
    <3>3. job'[w].dec = job[w].dec
      BY <3>2, LaterShape
    <3>4. CASE Account(w) \/ Emit(w) \/ CountExfil(w)
      <4>1. job[w].stage \in {"account", "emit", "count_exfil"}
        BY <3>4, StageBefore
      <4> QED BY <1>2, <1>4, <2>2, <3>1, <3>3, <4>1 DEF Noted
    <3>5. CASE CommitBehaviour(w)
      <4>1. Blocks(job[w].dec, Req(w))
        BY <1>4, <2>2, <3>1, <3>3 DEF Req
      <4> QED BY <1>4, <2>2, <3>5, <4>1, CommitReports
    <3>6. CASE CommitLocked(w)
      BY <1>2, <1>4, <2>2, <3>1, <3>3, <3>6 DEF Req
    <3> QED BY <3>2, <3>4, <3>5, <3>6
  <2> QED BY <2>1, <2>2
<1>5. \/ answer'[i] # Pending /\ Blocks(answer'[i], asked'[i])
      \/ \E v \in Workers : /\ job'[v].stage \in {"account", "emit", "count_exfil"}
                            /\ job'[v].id = i /\ Blocks(job'[v].dec, asked'[i])
  BY DEF Noted, Answered
<1> QED BY <1>1, <1>3, <1>4, <1>5

\* Few enough requests are noted.
LEMMA NotedIsFinite ==
    ASSUME GatewayTypeOK, NEW a
    PROVE  IsFiniteSet(Noted(a)) /\ Cardinality(Noted(a)) <= MaxRequests
           /\ Cardinality(Noted(a)) \in Nat
<1> DEFINE n == Len(asked)
<1>1. n \in Nat /\ n <= MaxRequests /\ Ids = 1..n
  BY DEF Ids, GatewayTypeOK
<1> HIDE DEF n
<1>2. IsFiniteSet(Ids) /\ Cardinality(Ids) = n
  BY <1>1, FS_Interval
<1>3. Noted(a) \subseteq Ids
  BY DEF Noted
<1>4. IsFiniteSet(Noted(a)) /\ Cardinality(Noted(a)) <= n /\ Cardinality(Noted(a)) \in Nat
  BY <1>2, <1>3, FS_Subset, FS_CardinalityType
<1> QED BY <1>1, <1>4, GatewayAssumption

\* A step of a worker keeps every history as long as its blocks.
LEMMA BlocksMove ==
    ASSUME RoomForBlocks, TypeInv, TypeInv', BlocksInv, NEW w \in Workers,
           Step(w) \/ Raise(w), NEW a \in Agents
    PROVE  Len(profiles'[a].block_times) >= Cardinality(Noted(a)')
<1> DEFINE id == job[w].id
           before == Len(profiles[a].block_times)
           after == Len(profiles'[a].block_times)
           m == Cardinality(Noted(a))
           n == Cardinality(Noted(a)')
<1>1. GatewayTypeOK /\ TypeOK /\ StoreBounded /\ GatewayTypeOK' /\ TypeOK'
  BY DEF TypeInv
<1>2. /\ IsFiniteSet(Noted(a)) /\ m \in Nat
      /\ IsFiniteSet(Noted(a)') /\ n \in Nat /\ n <= MaxRequests
  <2>1. IsFiniteSet(Noted(a)) /\ m \in Nat
    BY <1>1, NotedIsFinite
  <2>2. (IsFiniteSet(Noted(a)) /\ Cardinality(Noted(a)) <= MaxRequests
           /\ Cardinality(Noted(a)) \in Nat)'
    BY <1>1, NotedIsFinite, PTL
  <2> QED BY <2>1, <2>2
<1>3. before \in Nat /\ after \in Nat /\ before >= m
  BY <1>1 DEF TypeOK, Profile, BlocksInv
<1>4. /\ Locked(w) \/ after = before
      /\ Locked(w) => /\ after >= before
                      /\ op[w].kind = "block" /\ op[w].agent = a =>
                           after = before + 1 \/ after = BlockTimesMax
  BY <1>1, ProfilesChange, BlocksKept DEF RoomForBlocks, Workers
<1>5. CASE Noted(a)' \subseteq Noted(a)
  <2>1. n <= m
    BY <1>2, <1>5, FS_Subset
  <2> HIDE DEF before, after, m, n
  <2> QED BY <1>2, <1>3, <1>4, <2>1 DEF after, n
<1>6. CASE ~(Noted(a)' \subseteq Noted(a))
  <2>1. /\ CommitLocked(w) /\ Req(w).agent = a /\ Blocks(job[w].dec, Req(w))
        /\ Noted(a)' \subseteq Noted(a) \cup {id}
    BY <1>1, <1>6, NotedBefore
  <2>2. Busy(w) /\ job[w].stage = "locked"
    BY <1>1, <2>1, StepFacts, StageBefore DEF Step
  <2>3. op[w].kind = "block" /\ op[w].agent = a
    BY <2>1, <2>2 DEF BlocksInv, Reports
  <2>4. n <= m + 1
    <3>1. IsFiniteSet(Noted(a) \cup {id}) /\ Cardinality(Noted(a) \cup {id}) <= m + 1
      <4>1. /\ IsFiniteSet(Noted(a) \cup {id})
            /\ Cardinality(Noted(a) \cup {id}) = IF id \in Noted(a) THEN m ELSE m + 1
        BY <1>2, FS_AddElement
      <4> HIDE DEF m
      <4> QED BY <1>2, <4>1
    <3>2. n <= Cardinality(Noted(a) \cup {id}) /\ Cardinality(Noted(a) \cup {id}) \in Nat
      BY <2>1, <3>1, FS_Subset, FS_CardinalityType
    <3> HIDE DEF m, n
    <3> QED BY <1>2, <3>1, <3>2
  <2>5. Locked(w)
    BY <2>1 DEF CommitLocked, Locked
  <2>6. n <= BlockTimesMax /\ BlockTimesMax \in Nat /\ MaxRequests \in Nat
    BY <1>2, BoundsAssumption, GatewayAssumption DEF RoomForBlocks
  <2> HIDE DEF before, after, m, n
  <2>7. after = before + 1 \/ after = BlockTimesMax
    BY <1>4, <2>3, <2>5
  <2>8. after >= n
    BY <1>2, <1>3, <2>4, <2>6, <2>7
  <2> QED BY <2>8 DEF after, n
<1> QED BY <1>5, <1>6

\* Every step of the gateway keeps every history as long as its blocks.
LEMMA BlocksStep ==
    RoomForBlocks /\ TypeInv /\ BlocksInv /\ [GNext]_allvars => BlocksInv'
<1> SUFFICES ASSUME RoomForBlocks, TypeInv, BlocksInv, [GNext]_allvars PROVE BlocksInv'
  OBVIOUS
<1>1. TypeInv' /\ GatewayTypeOK /\ TypeOK
  BY TypeInvStep DEF TypeInv
<1>2. \A v \in Workers : Busy(v) => job[v].id \in Ids
  BY <1>1, BusyFacts
<1>3. CASE GTick \/ UNCHANGED allvars
  <2>1. UNCHANGED <<asked, answer, job, op, profiles>>
    BY <1>3 DEF GTick, Tick, gvars, allvars, vars
  <2>2. \A a \in Agents : Noted(a)' = Noted(a)
    BY <2>1 DEF Noted, Ids, Answered
  <2> QED BY ZenonT(60), <2>1, <2>2 DEF BlocksInv, Busy, Req
<1>4. ASSUME NEW w \in Workers, NEW req \in Requests, Submit(w, req)
      PROVE  BlocksInv'
  <2> DEFINE new == Len(asked) + 1
  <2>1. /\ Ids' = Ids \cup {new} /\ new \notin Ids
        /\ \A i \in Ids : asked'[i] = asked[i] /\ answer'[i] = answer[i]
        /\ answer'[new] = Pending
        /\ \A v \in Workers \ {w} : job'[v] = job[v]
        /\ job'[w].stage = "sanitize" /\ job'[w].id = new /\ ~Busy(w)
    BY <1>1, <1>4, SubmitFacts
  <2>2. op' = op /\ profiles' = profiles
    BY <1>4 DEF Submit, vars
  <2> HIDE DEF new
  <2>3. ASSUME NEW v \in Workers, Busy(v)'
        PROVE  Reports(job'[v], asked'[job'[v].id], op'[v])
    <3>1. CASE v = w
      BY <2>1, <3>1 DEF Reports
    <3>2. CASE v # w
      <4>1. job'[v] = job[v] /\ Busy(v) /\ job[v].id \in Ids
        BY <1>2, <2>1, <2>3, <3>2 DEF Busy
      <4>2. Reports(job[v], asked[job[v].id], op[v])
        BY <4>1 DEF BlocksInv, Req
      <4> QED BY <2>1, <2>2, <4>1, <4>2
    <3> QED BY <3>1, <3>2
  <2>4. ASSUME NEW a \in Agents
        PROVE  Len(profiles'[a].block_times) >= Cardinality(Noted(a)')
    <3>1. Noted(a)' \subseteq Noted(a)
      <4> SUFFICES ASSUME NEW i \in Noted(a)' PROVE i \in Noted(a)
        OBVIOUS
      <4>1. /\ i \in Ids' /\ asked'[i].agent = a
            /\ \/ answer'[i] # Pending /\ Blocks(answer'[i], asked'[i])
               \/ \E v \in Workers :
                    /\ job'[v].stage \in {"account", "emit", "count_exfil"}
                    /\ job'[v].id = i /\ Blocks(job'[v].dec, asked'[i])
        BY DEF Noted, Answered
      <4>2. CASE answer'[i] # Pending /\ Blocks(answer'[i], asked'[i])
        BY <2>1, <4>1, <4>2 DEF Noted, Answered
      <4>3. ASSUME NEW v \in Workers, job'[v].id = i, Blocks(job'[v].dec, asked'[i]),
                   job'[v].stage \in {"account", "emit", "count_exfil"}
            PROVE  i \in Noted(a)
        <5>1. v # w /\ job'[v] = job[v]
          BY <2>1, <4>3
        <5>2. job[v].id = i /\ i \in Ids
          <6>1. Busy(v)
            BY <4>3, <5>1 DEF Busy, IdleJob
          <6> QED BY <1>2, <4>3, <5>1, <6>1
        <5> QED BY <2>1, <4>1, <4>3, <5>1, <5>2 DEF Noted
      <4> QED BY <4>1, <4>2, <4>3
    <3>2. /\ IsFiniteSet(Noted(a)) /\ Cardinality(Noted(a)) \in Nat
          /\ Cardinality(Noted(a)') <= Cardinality(Noted(a))
          /\ Cardinality(Noted(a)') \in Nat
      BY <1>1, <3>1, NotedIsFinite, FS_Subset, FS_CardinalityType
    <3>3. /\ Len(profiles[a].block_times) >= Cardinality(Noted(a))
          /\ Len(profiles[a].block_times) \in Nat
      BY <1>1 DEF BlocksInv, TypeOK, Profile
    <3> QED BY <2>2, <3>2, <3>3
  <2> QED BY <2>3, <2>4 DEF BlocksInv, Req
<1>5. ASSUME NEW w \in Workers, Step(w) \/ Raise(w)
      PROVE  BlocksInv'
  <2>1. \A v \in Workers \ {w} : job'[v] = job[v] /\ op'[v] = op[v]
    <3>1. Raise(w) => op' = op
      BY DEF Raise, vars
    <3> QED BY <1>1, <1>5, <3>1, OthersStay, FrameStep
  <2>2. ASSUME NEW v \in Workers, Busy(v)'
        PROVE  Reports(job'[v], asked'[job'[v].id], op'[v])
    <3>1. CASE v = w
      <4>1. Reports(job'[w], Req(w), op'[w])
        BY <1>1, <1>5, ReportsStep
      <4>2. asked' = asked /\ job'[w].id = job[w].id
        BY <1>1, <1>5, <2>2, <3>1, FrameStep DEF Busy
      <4> QED BY <3>1, <4>1, <4>2 DEF Req
    <3>2. CASE v # w
      <4>1. Reports(job[v], asked[job[v].id], op[v])
        BY <2>1, <2>2, <3>2 DEF BlocksInv, Req, Busy
      <4>2. asked' = asked
        BY <1>1, <1>5, FrameStep
      <4> QED BY <2>1, <3>2, <4>1, <4>2
    <3> QED BY <3>1, <3>2
  <2>3. \A a \in Agents : Len(profiles'[a].block_times) >= Cardinality(Noted(a)')
    BY <1>1, <1>5, BlocksMove
  <2> QED BY <2>2, <2>3 DEF BlocksInv, Req
<1> QED BY <1>3, <1>4, <1>5 DEF GNext

\* At first no call was blocked.
LEMMA BlocksInit == GInit => BlocksInv
<1> SUFFICES ASSUME GInit PROVE BlocksInv
  OBVIOUS
<1>1. /\ \A w \in Workers : ~Busy(w)
      /\ \A a \in Agents : profiles[a] = NewProfile
  BY DEF GInit, Init, Busy
<1>2. \A a : Noted(a) = {}
  BY DEF GInit, Noted, Ids
<1>3. ASSUME NEW a \in Agents PROVE Len(profiles[a].block_times) >= Cardinality(Noted(a))
  <2>1. Len(profiles[a].block_times) = 0
    BY <1>1 DEF NewProfile
  <2>2. Cardinality(Noted(a)) = 0
    BY <1>2, FS_EmptySet
  <2> QED BY <2>1, <2>2
<1> QED BY <1>1, <1>3 DEF BlocksInv

\* Every blocked tool call reaches its agent's block history (gateway.py:302-303),
\* for every workload, number of workers, interleaving and pattern of faults, as
\* long as the store has room for the agents, the deque for the requests, and no
\* profile times out: no update of one worker is lost to another's.
THEOREM BlocksReachHistory == RoomForBlocks => (GSpec => []BlocksRemembered)
<1>1. ASSUME TypeInv, BlocksInv PROVE BlocksRemembered
  <2>1. GatewayTypeOK /\ TypeOK
    BY <1>1 DEF TypeInv
  <2> SUFFICES ASSUME NEW a \in Agents
               PROVE  Len(profiles[a].block_times) >=
                        Cardinality({id \in Ids : /\ asked[id].agent = a
                                                  /\ HasCall(asked[id])
                                                  /\ Answered(id) /\ ~answer[id].error
                                                  /\ answer[id].verdict = "block"})
    BY DEF BlocksRemembered
  <2> DEFINE blocked == {id \in Ids : /\ asked[id].agent = a /\ HasCall(asked[id])
                                      /\ Answered(id) /\ ~answer[id].error
                                      /\ answer[id].verdict = "block"}
  <2>2. blocked \subseteq Noted(a)
    BY DEF Noted, Blocks
  <2>3. /\ IsFiniteSet(Noted(a)) /\ Cardinality(Noted(a)) \in Nat
        /\ Len(profiles[a].block_times) >= Cardinality(Noted(a))
        /\ Len(profiles[a].block_times) \in Nat
    BY <1>1, <2>1, NotedIsFinite DEF BlocksInv, TypeOK, Profile
  <2> HIDE DEF blocked
  <2>4. Cardinality(blocked) <= Cardinality(Noted(a)) /\ Cardinality(blocked) \in Nat
    BY <2>2, <2>3, FS_Subset, FS_CardinalityType
  <2>5. Len(profiles[a].block_times) >= Cardinality(blocked)
    BY <2>3, <2>4
  <2> QED BY <2>5 DEF blocked
<1>2. RoomForBlocks /\ TypeInv /\ BlocksInv /\ [GNext]_allvars => (TypeInv /\ BlocksInv)'
  BY TypeInvStep, BlocksStep
<1>3. SUFFICES ASSUME RoomForBlocks PROVE GSpec => []BlocksRemembered
  OBVIOUS
<1> QED BY <1>1, <1>2, <1>3, TypeInvInit, BlocksInit, PTL DEF GSpec
-----------------------------------------------------------------------------
(* The sensitive reads *)

\* The tool of a request is a sensitive read and decision d let it run.
ReadRan(d, req) == d.executed /\ req.call.tool \in SensitiveReads

\* A worker (job j, operation o) tells the monitor of a sensitive read that ran,
\* and has done so (p, the agent's profile) by the time it counts the request.
TellsRead(j, req, o, p) ==
    /\ j.stage = "execute" => j.dec.verdict # "block"
    /\ ReadRan(j.dec, req) =>
         /\ j.stage = "commit" => j.dec.verdict # "block"
         /\ j.stage = "locked" => o.agent = req.agent /\ NotesRead(o)
         /\ j.stage \in {"account", "emit", "count_exfil"} => p.read_at # Never

\* Every sensitive read that a caller has an answer to is in its agent's profile.
ReadsInv ==
    /\ \A w \in Workers : Busy(w) =>
         TellsRead(job[w], Req(w), op[w], profiles[Req(w).agent])
    /\ \A id \in Ids : Answered(id) /\ ReadRan(answer[id], asked[id]) =>
         profiles[asked[id].agent].read_at # Never

\* A sensitive read that ran is on its way to the monitor when it leaves the
\* commit stage.
LEMMA CommitTellsRead ==
    ASSUME GatewayTypeOK, TypeOK, NEW w \in Workers, CommitBehaviour(w),
           HasCall(Req(w)), ReadRan(job[w].dec, Req(w)), job[w].dec.verdict # "block"
    PROVE  /\ job'[w].stage = "locked"
           /\ op'[w].agent = Req(w).agent /\ NotesRead(op'[w])
<1> DEFINE kind == CommitKind(Req(w), job[w].dec)
<1>1. /\ job[w] \in Job /\ job[w].dec \in Decision /\ DOMAIN job = Workers
      /\ op \in [Threads -> Op] /\ Workers = Threads
  BY StepFacts DEF Step, TypeOK, Workers
<1>2. job[w].dec.verdict \in {"allow", "sanitize", "quarantine"}
  BY <1>1 DEF Decision, Verdicts
<1>3. kind = "allow" \/ kind = "quarantined"
  BY <1>2 DEF CommitKind, ReadRan
<1> HIDE DEF kind
<1>4. kind # "nothing" /\ kind # "block"
  BY <1>3
<1>5. \/ kind = "allow" /\ CallRecordAllow(w, Req(w).agent, Req(w).call.tool)
      \/ kind = "quarantined" /\ CallRecordQuarantined(w, Req(w).agent, Req(w).call.tool)
  BY <1>4 DEF CommitBehaviour, kind
<1>6. job'[w].stage = "locked"
  BY <1>1, <1>4 DEF CommitBehaviour, Goto, Job, kind
<1>7. /\ op'[w].agent = Req(w).agent /\ op'[w].tool = Req(w).call.tool
      /\ op'[w].kind \in {"allow", "quarantined"}
  BY <1>1, <1>5 DEF CallRecordAllow, CallRecordQuarantined, Begin
<1> QED BY <1>6, <1>7 DEF NotesRead, ReadRan

\* No step of a worker forgets a sensitive read.
LEMMA ReadStays ==
    ASSUME TypeInv, RoomToRemember, NEW w \in Workers, Step(w) \/ Raise(w),
           NEW a \in Agents, profiles[a].read_at # Never
    PROVE  profiles'[a].read_at # Never
BY ProfilesChange, ReadKept DEF TypeInv, Workers

\* A step of a worker brings its own read nearer to the monitor.
LEMMA TellsReadStep ==
    ASSUME TypeInv, RoomToRemember, NEW w \in Workers, Step(w) \/ Raise(w),
           job'[w] # IdleJob, Midway(job[w], Req(w), effect[job[w].id]),
           TellsRead(job[w], Req(w), op[w], profiles[Req(w).agent])
    PROVE  TellsRead(job'[w], Req(w), op'[w], profiles'[Req(w).agent])
<1> DEFINE j == job[w]
           req == Req(w)
           jj == job'[w]
           p == profiles[req.agent]
           pp == profiles'[req.agent]
<1> SUFFICES TellsRead(jj, req, op'[w], pp)
  OBVIOUS
<1>1. /\ GatewayTypeOK /\ TypeOK
      /\ j \in Job /\ j.dec \in Decision /\ j.id \in Ids /\ req \in Requests
      /\ j.stage \in Stages /\ DOMAIN job = Workers
  BY StepFacts DEF TypeInv
<1>2. req.agent \in Agents
  BY <1>1, CallType
<1>3. ASSUME jj.stage \notin Late \cup {"execute"}
      PROVE  TellsRead(jj, req, op'[w], pp)
  BY <1>3 DEF TellsRead, Late
<1>4. ASSUME jj.stage = "commit", ~jj.dec.executed
      PROVE  TellsRead(jj, req, op'[w], pp)
  BY <1>4 DEF TellsRead, ReadRan
<1>5. CASE Raise(w)
  BY <1>1, <1>3, <1>5, LaterShape DEF Late
<1>6. CASE Sanitize(w)
  <2>1. NothingDone(j.dec)
    BY <1>6, StageBefore DEF Midway, Early
  <2>2. CASE jj.stage = "commit"
    <3>1. jj.dec = [j.dec EXCEPT !.verdict = "block", !.would_block = TRUE]
      BY <1>1, <1>6, <2>2, SanitizeShape
    <3>2. jj.dec.executed = j.dec.executed
      BY <1>1, <3>1 DEF Decision
    <3> QED BY <1>4, <2>1, <2>2, <3>2 DEF NothingDone
  <2>3. CASE jj.stage = "enforce"
    BY <1>3, <2>3 DEF Late
  <2> QED BY <1>1, <1>6, <2>2, <2>3, SanitizeShape
<1>7. CASE EnforcePolicy(w) \/ ObserveAttempt(w) \/ JudgeAttempt(w)
  <2>1. jj.stage \in {"observe", "judge", "resolve"}
    BY <1>1, <1>7, StageAfter DEF Step
  <2> QED BY <1>3, <2>1 DEF Late
<1>8. CASE Resolve(w)
  <2>1. NothingDone(j.dec)
    BY <1>8, StageBefore DEF Midway, Early
  <2> DEFINE v == Resolved(req, j.dec.verdict)
             denied == Refused(req, j.dec.verdict)
             allowed == Ends(req, j.dec.verdict) /\ v # "block"
  <2>2. jj.stage = IF Ends(req, j.dec.verdict) THEN "commit" ELSE "execute"
    BY <1>1, <1>8, ResolveShape
  <2>3. PICK scrub \in BOOLEAN :
          jj.dec = [j.dec EXCEPT !.verdict = v, !.would_block = denied,
                                 !.scrubbed = scrub, !.allowed = allowed]
    BY <1>1, <1>8, ResolveShape
  <2> HIDE DEF denied, allowed, v
  <2>4. jj.dec.verdict = v /\ jj.dec.executed = j.dec.executed
    BY <1>1, <2>3 DEF Decision
  <2>5. ~jj.dec.executed
    BY <2>1, <2>4 DEF NothingDone
  <2>6. CASE jj.stage = "commit"
    BY <1>4, <2>5, <2>6
  <2>7. CASE jj.stage = "execute"
    <3>1. v # "block"
      BY <2>2, <2>7 DEF Ends, v
    <3> QED BY <2>4, <2>7, <3>1 DEF TellsRead
  <2> QED BY <2>2, <2>6, <2>7
<1>9. CASE RouteAndExecute(w)
  <2>1. j.dec.verdict # "block"
    BY <1>9, StageBefore DEF TellsRead
  <2>2. PICK tier \in Tiers, isolate \in BOOLEAN, verdict \in Verdicts :
          LET out == Execute(tier, req.call, Enforce)
          IN  /\ isolate <=> j.force \/ j.dec.verdict = "quarantine"
              /\ verdict = IF out.blocked /\ j.dec.verdict # "quarantine"
                           THEN "block" ELSE j.dec.verdict
              /\ effect' = [effect EXCEPT ![j.id] =
                     [ran |-> ~out.blocked, isolated |-> isolate,
                      leaked |-> out.exfiltrated]]
              /\ jj.stage = "commit"
              /\ jj.dec = Entered(j.dec, verdict, ~out.blocked, tier,
                                 j.dec.would_block \/ out.attempt, out.attempt,
                                 out.exfiltrated)
    BY <1>1, <1>9, RouteAndExecuteShape
  <2> DEFINE out == Execute(tier, req.call, Enforce)
  <2>3. jj.dec.verdict = verdict /\ jj.dec.executed = ~out.blocked
    BY <1>1, <2>2 DEF Entered, Decision
  <2>4. jj.dec.executed => jj.dec.verdict # "block"
    BY <2>1, <2>2, <2>3
  <2>5. jj.stage = "commit"
    BY <2>2
  <2> HIDE DEF jj
  <2> QED BY <2>4, <2>5 DEF TellsRead, ReadRan
<1>10. CASE CommitBehaviour(w)
  <2>1. j.stage = "commit" /\ jj.stage \in {"account", "locked"} /\ jj.dec = j.dec
    BY <1>1, <1>10, StageBefore, LaterShape
  <2>2. Sound(j.dec, req, effect[j.id])
    BY <2>1 DEF Midway, Late
  <2>3. ASSUME ReadRan(j.dec, req)
        PROVE  jj.stage = "locked" /\ op'[w].agent = req.agent /\ NotesRead(op'[w])
    <3>1. HasCall(req)
      BY <2>2, <2>3 DEF Sound, ReadRan
    <3>2. j.dec.verdict # "block"
      BY <2>1, <2>3 DEF TellsRead
    <3> QED BY <1>1, <1>10, <2>3, <3>1, <3>2, CommitTellsRead
  <2> HIDE DEF jj
  <2> QED BY <2>1, <2>3 DEF TellsRead
<1>11. CASE CommitLocked(w)
  <2>1. j.stage = "locked" /\ jj.stage = "account" /\ jj.dec = j.dec
    BY <1>1, <1>11, StageBefore, StageAfter, LaterShape DEF Step
  <2>2. Locked(w)
    BY <1>11 DEF CommitLocked, Locked
  <2>3. ReadRan(j.dec, req) => op[w].agent = req.agent /\ NotesRead(op[w])
    BY <2>1 DEF TellsRead
  <2>4. ReadRan(j.dec, req) => pp.read_at # Never
    BY <1>1, <1>2, <2>2, <2>3, ReadKept DEF TypeInv, Workers
  <2> QED BY <2>1, <2>4 DEF TellsRead
<1>12. CASE Account(w) \/ Emit(w) \/ CountExfil(w)
  <2>1. /\ j.stage \in {"account", "emit", "count_exfil"} /\ jj.dec = j.dec
        /\ jj.stage \in {"account", "emit", "count_exfil"}
    BY <1>1, <1>12, StageBefore, LaterShape
  <2>2. ReadRan(j.dec, req) => p.read_at # Never
    BY <2>1 DEF TellsRead
  <2>3. ReadRan(j.dec, req) => pp.read_at # Never
    BY <1>2, <2>2, ReadStays
  <2> QED BY <2>1, <2>3 DEF TellsRead
<1>13. CASE Return(w) \/ FailClosed(w)
  BY <1>1, <1>13, LaterShape
<1> QED BY <1>5, <1>6, <1>7, <1>8, <1>9, <1>10, <1>11, <1>12, <1>13 DEF Step

\* Every step of the gateway keeps the reads it has answered in the profiles.
LEMMA ReadsStep ==
    RoomToRemember /\ TypeInv /\ RequestInv /\ ReadsInv /\ [GNext]_allvars => ReadsInv'
<1> SUFFICES ASSUME RoomToRemember, TypeInv, RequestInv, ReadsInv, [GNext]_allvars
             PROVE  ReadsInv'
  OBVIOUS
<1>1. TypeInv' /\ GatewayTypeOK /\ TypeOK
  BY TypeInvStep DEF TypeInv
<1>2. /\ \A v \in Workers : Busy(v) => job[v].id \in Ids
      /\ \A id \in Ids : asked[id] \in Requests /\ asked[id].agent \in Agents
  BY <1>1, BusyFacts, CallType DEF GatewayTypeOK, Ids
<1>3. CASE GTick \/ UNCHANGED allvars
  <2>1. UNCHANGED <<asked, answer, job, op, profiles>>
    BY <1>3 DEF GTick, Tick, gvars, allvars, vars
  <2> QED BY ZenonT(60), <2>1 DEF ReadsInv, Busy, Req, Ids, Answered
<1>4. ASSUME NEW w \in Workers, NEW req \in Requests, Submit(w, req)
      PROVE  ReadsInv'
  <2> DEFINE new == Len(asked) + 1
  <2>1. /\ Ids' = Ids \cup {new} /\ new \notin Ids
        /\ \A i \in Ids : asked'[i] = asked[i] /\ answer'[i] = answer[i]
        /\ answer'[new] = Pending
        /\ \A v \in Workers \ {w} : job'[v] = job[v]
        /\ job'[w].stage = "sanitize" /\ job'[w].id = new /\ ~Busy(w)
    BY <1>1, <1>4, SubmitFacts
  <2>2. op' = op /\ profiles' = profiles
    BY <1>4 DEF Submit, vars
  <2> HIDE DEF new
  <2>3. ASSUME NEW v \in Workers, Busy(v)'
        PROVE  TellsRead(job'[v], asked'[job'[v].id], op'[v],
                         profiles'[asked'[job'[v].id].agent])
    <3>1. CASE v = w
      BY <2>1, <3>1 DEF TellsRead
    <3>2. CASE v # w
      <4>1. job'[v] = job[v] /\ Busy(v) /\ job[v].id \in Ids
        BY <1>2, <2>1, <2>3, <3>2 DEF Busy
      <4>2. TellsRead(job[v], asked[job[v].id], op[v], profiles[asked[job[v].id].agent])
        BY <4>1 DEF ReadsInv, Req
      <4> QED BY <2>1, <2>2, <4>1, <4>2
    <3> QED BY <3>1, <3>2
  <2>4. ASSUME NEW id \in Ids', answer'[id] # Pending, ReadRan(answer'[id], asked'[id])
        PROVE  profiles'[asked'[id].agent].read_at # Never
    <3>1. id \in Ids /\ answer'[id] = answer[id] /\ asked'[id] = asked[id]
      BY <2>1, <2>4
    <3> QED BY <2>2, <2>4, <3>1 DEF ReadsInv, Answered
  <2> QED BY <2>3, <2>4 DEF ReadsInv, Req, Answered
<1>5. ASSUME NEW w \in Workers, Step(w) \/ Raise(w)
      PROVE  ReadsInv'
  <2>1. \A v \in Workers \ {w} : job'[v] = job[v] /\ op'[v] = op[v]
    <3>1. Raise(w) => op' = op
      BY DEF Raise, vars
    <3> QED BY <1>1, <1>5, <3>1, OthersStay, FrameStep
  <2>2. /\ asked' = asked /\ Ids' = Ids
        /\ \A i \in Ids \ {job[w].id} : answer'[i] = answer[i]
        /\ ~Return(w) /\ ~FailClosed(w) => answer' = answer
        /\ Busy(w) /\ job[w].id \in Ids
    BY <1>1, <1>5, FrameStep, StepFacts
  <2>3. \A a \in Agents : profiles[a].read_at # Never => profiles'[a].read_at # Never
    BY <1>5, ReadStays
  <2>4. ASSUME NEW v \in Workers, Busy(v)'
        PROVE  TellsRead(job'[v], asked'[job'[v].id], op'[v],
                         profiles'[asked'[job'[v].id].agent])
    <3>1. CASE v = w
      <4>1. Midway(job[w], Req(w), effect[job[w].id])
        BY <2>2 DEF RequestInv, OnCourse
      <4>2. TellsRead(job[w], Req(w), op[w], profiles[Req(w).agent])
        BY <2>2 DEF ReadsInv
      <4>3. job'[w] # IdleJob
        BY <2>4, <3>1 DEF Busy
      <4>4. TellsRead(job'[w], Req(w), op'[w], profiles'[Req(w).agent])
        BY <1>5, <4>1, <4>2, <4>3, TellsReadStep
      <4>5. job'[w].id = job[w].id
        BY <1>1, <1>5, <4>3, FrameStep
      <4> QED BY <2>2, <3>1, <4>4, <4>5 DEF Req
    <3>2. CASE v # w
      <4>1. job'[v] = job[v] /\ op'[v] = op[v] /\ Busy(v) /\ job[v].id \in Ids
        BY <1>2, <2>1, <2>4, <3>2 DEF Busy
      <4>2. TellsRead(job[v], asked[job[v].id], op[v], profiles[asked[job[v].id].agent])
        BY <4>1 DEF ReadsInv, Req
      <4>3. /\ asked[job[v].id].agent \in Agents
            /\ asked'[job'[v].id] = asked[job[v].id]
        BY <1>2, <2>2, <4>1
      <4> QED BY <2>3, <4>1, <4>2, <4>3 DEF TellsRead
    <3> QED BY <3>1, <3>2
  <2>5. ASSUME NEW id \in Ids, answer'[id] # Pending, ReadRan(answer'[id], asked[id])
        PROVE  profiles'[asked[id].agent].read_at # Never
    <3>1. CASE answer'[id] = answer[id]
      BY <1>2, <2>3, <2>5, <3>1 DEF ReadsInv, Answered
    <3>2. CASE answer'[id] # answer[id]
      <4>1. id = job[w].id /\ (Return(w) \/ FailClosed(w))
        BY <2>2, <3>2
      <4>2. job'[w] = IdleJob /\ Step(w)
        BY <1>1, <4>1, LaterShape DEF Step
      <4>3. answer'[id] = IF Return(w) THEN job[w].dec ELSE FailClosedDecision
        BY <1>1, <4>1, <4>2, Conclusion
      <4>4. Return(w) /\ answer'[id] = job[w].dec
        BY <2>5, <4>1, <4>3, FailClosedFacts DEF ReadRan
      <4>5. job[w].stage = "count_exfil"
        BY <4>4, StageBefore
      <4>6. profiles[asked[id].agent].read_at # Never
        BY <2>2, <2>5, <4>1, <4>4, <4>5 DEF ReadsInv, TellsRead, Req
      <4> QED BY <1>2, <2>3, <4>6
    <3> QED BY <3>1, <3>2
  <2> QED BY <2>2, <2>4, <2>5 DEF ReadsInv, Req, Answered
<1> QED BY <1>3, <1>4, <1>5 DEF GNext

\* At first nothing was read.
LEMMA ReadsInit == GInit => ReadsInv
BY DEF GInit, ReadsInv, Busy, Ids
-----------------------------------------------------------------------------
(* Risky egress after a sensitive read *)

\* Enforcement, with the thresholds and windows that let a sensitive read hold
\* back egress: the time of the behaviour is within the window, 30% of the score
\* are anomaly enough to isolate, and isolation has no egress.
ReadsCount ==
    /\ Enforce /\ RoomToRemember /\ MaxClock <= Config.sensitive_read_window
    /\ Config.thresholds.anomaly_quarantine <= 70
    /\ Config.tier_caps["no_net"].egress = "none"

\* A risky call (job j, request req, operation o) is on its way to isolation.
Restrained(j, req, o) ==
    /\ j.stage = "observe" => o.agent = req.agent /\ o.risky
    /\ j.stage = "judge" => 100 * o.keep <= 30 * Scale
    /\ j.stage \in {"resolve", "execute"} => j.dec.verdict \in {"block", "quarantine"}

\* evaluate blocks a risky call, isolates it or asks the monitor about it.
LEMMA EnforceRestrains ==
    ASSUME GatewayTypeOK, TypeOK, NEW w \in Workers, EnforcePolicy(w), IsRisky(Req(w).call)
    PROVE  \/ /\ job'[w].stage = "observe"
              /\ op'[w].agent = Req(w).agent /\ op'[w].risky
           \/ job'[w].stage = "resolve" /\ job'[w].dec.verdict \in {"block", "quarantine"}
<1>1. /\ job[w] \in Job /\ job[w].dec \in Decision /\ DOMAIN job = Workers
      /\ op \in [Threads -> Op] /\ Workers = Threads
  BY StepFacts DEF Step, TypeOK, Workers
<1>2. HasCall(Req(w))
  BY DEF HasCall, NoCall, IsRisky, External
<1>3. ASSUME NEW verdict, NEW force,
             Goto(w, [job[w] EXCEPT !.dec.verdict = verdict, !.force = force], "resolve")
      PROVE  job'[w].stage = "resolve" /\ job'[w].dec.verdict = verdict
  BY SMTT(60), <1>1, <1>3 DEF Goto, Job, Decision
<1>4. \/ /\ CallObserve(w, Req(w).agent, Req(w).call.tool, IsRisky(Req(w).call))
         /\ Goto(w, job[w], "observe")
      \/ Goto(w, [job[w] EXCEPT !.dec.verdict = "block", !.force = FALSE], "resolve")
      \/ Goto(w, [job[w] EXCEPT !.dec.verdict = "quarantine", !.force = TRUE], "resolve")
  BY ZenonT(60), <1>2 DEF EnforcePolicy
<1>5. ASSUME CallObserve(w, Req(w).agent, Req(w).call.tool, IsRisky(Req(w).call)),
             Goto(w, job[w], "observe")
      PROVE  /\ job'[w].stage = "observe"
             /\ op'[w].agent = Req(w).agent /\ op'[w].risky
  <2>1. job'[w].stage = "observe"
    BY <1>1, <1>5 DEF Goto, Job
  <2>2. /\ op'[w].agent = Req(w).agent
        /\ op'[w].risky = IsRisky(Req(w).call)
    BY <1>1, <1>5, Zenon DEF CallObserve, Begin
  <2> QED BY <2>1, <2>2
<1> QED BY <1>3, <1>4, <1>5

\* The monitor's score blocks or isolates it.
LEMMA JudgeRestrains ==
    ASSUME ReadsCount, NEW tool, NEW injection, NEW keep \in Nat, 100 * keep <= 30 * Scale
    PROVE  Judge(tool, injection, keep, Scale) \in {"block", "quarantine"}
<1> DEFINE limit == Config.thresholds.anomaly_quarantine
<1>1. limit \in Percent /\ limit <= 70
  BY ConfigIsValid DEF Validate, ThresholdsValid, ReadsCount
<1>2. Scale \in Nat
  BY ScaleType
<1>3. 100 * keep <= (100 - limit) * Scale
  <2> HIDE DEF limit
  <2>1. 100 - limit \in Nat /\ 30 <= 100 - limit
    BY <1>1 DEF Percent
  <2>2. 30 * Scale <= (100 - limit) * Scale
    BY <1>2, <2>1, ProductGrows
  <2>3. (100 - limit) * Scale \in Nat
    BY <1>2, <2>1, NatProduct
  <2> QED BY <1>2, <2>2, <2>3
<1>4. AnomalyAtLeast(limit, keep, Scale)
  BY <1>3 DEF AnomalyAtLeast
<1> QED BY <1>4 DEF Judge

\* What is isolated does not reach the network.
LEMMA QuarantineHoldsEgress ==
    ASSUME ReadsCount, GatewayTypeOK, NEW w \in Workers, RouteAndExecute(w),
           IsRisky(Req(w).call), job[w].dec.verdict = "quarantine"
    PROVE  ~effect'[job[w].id].ran
<1> DEFINE j == job[w]
           req == Req(w)
           isolate == j.force \/ j.dec.verdict = "quarantine"
           tier == Route(req.role, req.call.tool, InjectionScore(req), j.keep, Scale, isolate)
           out == Execute(tier, req.call, Enforce)
<1>1. j \in Job /\ j.id \in Ids /\ req \in Requests
  BY StepFacts DEF Step
<1>2. isolate = TRUE /\ j.keep \in Nat
  BY <1>1 DEF Job
<1>3. effect' = [effect EXCEPT ![j.id] =
                   [ran |-> ~out.blocked, isolated |-> isolate, leaked |-> out.exfiltrated]]
  BY DEF RouteAndExecute
<1> HIDE DEF isolate
<1>4. tier = "no_net"
  BY <1>1, <1>2, InjectionScoreType, ScaleType, RouteRespectsTrust
<1> HIDE DEF tier
<1>5. Enforce = TRUE /\ IsEgressTool(req.call.tool)
  BY GatewayAssumption DEF ReadsCount, IsRisky
<1>6. out.blocked
  BY <1>4, <1>5, NoNetTierBlocksEgress DEF ReadsCount
<1> HIDE DEF out, j
<1>7. effect'[j.id].ran = ~out.blocked
  BY <1>1, <1>3 DEF GatewayTypeOK, Ids
<1> QED BY <1>6, <1>7 DEF j

\* A step of its worker keeps a risky call of an agent that made a sensitive read
\* on its way to isolation, and does not run it.
LEMMA RestrainedStep ==
    ASSUME ReadsCount, TypeInv, TypeInv', NEW w \in Workers, Step(w) \/ Raise(w),
           TellsRead(job[w], Req(w), op[w], profiles[Req(w).agent]),
           IsRisky(Req(w).call), profiles[Req(w).agent].read_at # Never,
           ~effect[job[w].id].ran, Restrained(job[w], Req(w), op[w])
    PROVE  ~effect'[job[w].id].ran /\ Restrained(job'[w], Req(w), op'[w])
<1> DEFINE j == job[w]
           jj == job'[w]
           req == Req(w)
<1>1. /\ GatewayTypeOK /\ TypeOK /\ TypeOK'
      /\ j \in Job /\ j.dec \in Decision /\ j.id \in Ids /\ req \in Requests
      /\ j.stage \in Stages /\ DOMAIN job = Workers
  BY StepFacts DEF TypeInv
<1>2. ~effect'[j.id].ran
  <2>1. CASE RouteAndExecute(w)
    <3>1. j.stage = "execute"
      BY <2>1, StageBefore
    <3>2. j.dec.verdict = "quarantine"
      BY <3>1 DEF Restrained, TellsRead
    <3> QED BY <1>1, <2>1, <3>2, QuarantineHoldsEgress
  <2>2. CASE ~RouteAndExecute(w)
    BY <1>1, <2>2, FrameStep
  <2> QED BY <2>1, <2>2
<1> SUFFICES Restrained(jj, req, op'[w])
  BY <1>2
<1>3. ASSUME jj.stage \notin {"observe", "judge", "resolve", "execute"}
      PROVE  Restrained(jj, req, op'[w])
  BY <1>3 DEF Restrained
<1>4. CASE EnforcePolicy(w)
  BY <1>1, <1>4, EnforceRestrains DEF Restrained
<1>5. CASE ObserveAttempt(w)
  <2>1. j.stage = "observe" /\ jj.stage = "judge" /\ Observe(w)
    BY <1>1, <1>5, StageBefore, StageAfter DEF Step, ObserveAttempt
  <2>2. op[w].agent = req.agent /\ op[w].risky
    BY <2>1 DEF Restrained
  <2>3. 100 * op'[w].keep <= 30 * Scale
    BY <1>1, <2>1, <2>2, RiskyAttemptScore DEF ReadsCount, Workers
  <2> QED BY <2>1, <2>3 DEF Restrained
<1>6. CASE JudgeAttempt(w)
  <2>1. j.stage = "judge" /\ jj.stage = "resolve"
    BY <1>1, <1>6, StageBefore, StageAfter DEF Step
  <2> DEFINE verdict == Judge(req.call.tool, InjectionScore(req), op[w].keep, Scale)
  <2>2. jj.dec = [j.dec EXCEPT !.verdict = verdict]
    BY <1>1, <1>6, JudgeAttemptShape
  <2>3. 100 * op[w].keep <= 30 * Scale
    BY <2>1 DEF Restrained
  <2>4. op[w].keep \in Nat
    <3>1. op[w].kind = "idle" /\ op[w] \in Op
      BY <1>1, <2>1 DEF TypeInv, OpMatchesJob, TypeOK, Workers
    <3> QED BY <3>1 DEF Op, Kinds
  <2>5. verdict \in {"block", "quarantine"}
    BY <2>3, <2>4, JudgeRestrains
  <2> HIDE DEF verdict
  <2>6. jj.dec.verdict = verdict
    BY <1>1, <2>2 DEF Decision
  <2> QED BY <2>1, <2>5, <2>6 DEF Restrained
<1>7. CASE Resolve(w)
  <2>1. j.stage = "resolve"
    BY <1>7, StageBefore
  <2> DEFINE v == Resolved(req, j.dec.verdict)
             denied == Refused(req, j.dec.verdict)
             allowed == Ends(req, j.dec.verdict) /\ v # "block"
  <2>2. jj.stage = "commit" \/ jj.stage = "execute"
    BY <1>1, <1>7, StageAfter DEF Step
  <2>3. PICK scrub \in BOOLEAN :
          jj.dec = [j.dec EXCEPT !.verdict = v, !.would_block = denied,
                                 !.scrubbed = scrub, !.allowed = allowed]
    BY <1>1, <1>7, ResolveShape
  <2>4. v \in {"block", "quarantine"}
    BY <2>1 DEF Restrained, Resolved, Refused, ReadsCount
  <2> HIDE DEF denied, allowed, v
  <2>5. jj.dec.verdict = v
    BY <1>1, <2>3 DEF Decision
  <2> QED BY <2>2, <2>4, <2>5 DEF Restrained
<1>8. CASE Raise(w)
  BY <1>1, <1>3, <1>8, LaterShape
<1>9. CASE \/ Sanitize(w) \/ RouteAndExecute(w) \/ CommitBehaviour(w) \/ CommitLocked(w)
           \/ Account(w) \/ Emit(w) \/ CountExfil(w) \/ Return(w) \/ FailClosed(w)
  BY <1>1, <1>3, <1>9, StageAfter DEF Step
<1> QED BY <1>2, <1>4, <1>5, <1>6, <1>7, <1>8, <1>9 DEF Step
=============================================================================
