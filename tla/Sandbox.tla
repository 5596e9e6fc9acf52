------------------------------- MODULE Sandbox -------------------------------
(***************************************************************************)
(* aegis/sandbox: the router that picks a tier, the egress filter and the   *)
(* executor's capability gate.  None of them keeps state between calls, so  *)
(* they are operators.                                                      *)
(*                                                                         *)
(* A tool call is abstracted to what these rules look at: its name, the     *)
(* hosts of its address arguments (dests), the hosts its whole argument     *)
(* text mentions (text_hosts), and whether that text, with its decodable    *)
(* blobs, matches a secret pattern (secret).  Each scan is bounded and      *)
(* looks for different forms, so none of the three determines another.      *)
(***************************************************************************)
EXTENDS AegisConfig

Calls(tools) ==
    [tool : tools, dests : SUBSET Hosts, text_hosts : SUBSET Hosts, secret : BOOLEAN]

External(hosts) == {h \in hosts : ~IsInternal(h)}

-----------------------------------------------------------------------------
(* SandboxRouter *)

Rank == [no_net |-> 0, read_only |-> 1, restricted |-> 2, trusted |-> 3]

MinTier(a, b) == IF Rank[a] <= Rank[b] THEN a ELSE b

TrustTier(trust) ==
    CASE trust >= 90 -> "trusted"
      [] trust >= 60 /\ trust < 90 -> "restricted"
      [] trust >= 30 /\ trust < 60 -> "read_only"
      [] OTHER -> "no_net"

BaseTier(role, tool) ==
    IF IsGuarded(tool) /\ tool \notin EGRESS_TOOLS /\ ~IsWriteTool(tool)
    THEN MinTier(TrustTier(Trust(role)), "read_only")
    ELSE TrustTier(Trust(role))

(***************************************************************************)
(* The anomaly score arrives as the probability kept by its noisy-OR, a     *)
(* fraction keep/scale.  The risk is 1 - (1 - injection)(1 - anomaly), so   *)
(* risk >= r hundredths is KeptBy(injection, keep) <= (100 - r) * scale.    *)
(***************************************************************************)
KeptBy(injection, keep) == (100 - injection) * keep

RiskAtLeast(percent, injection, keep, scale) ==
    KeptBy(injection, keep) <= (100 - percent) * scale

Route(role, tool, injection, keep, scale, force) ==
    CASE force \/ RiskAtLeast(60, injection, keep, scale) -> "no_net"
      [] ~force /\ ~RiskAtLeast(60, injection, keep, scale)
           /\ RiskAtLeast(35, injection, keep, scale) ->
              MinTier(BaseTier(role, tool), "read_only")
      [] OTHER -> BaseTier(role, tool)

-----------------------------------------------------------------------------
(* EgressFilter *)

\* External destination or secret-bearing payload (used by the monitor).
IsRisky(call) ==
    IsEgressTool(call.tool) /\ (External(call.dests) # {} \/ call.secret)

Permitted == [allowed |-> TRUE, exfil |-> FALSE]
Denied(isExfil) == [allowed |-> FALSE, exfil |-> isExfil]

\* Mutant: only egress tools are filtered.
TrustsOtherTools(call) == Permitted

\* Any tool: a secret and an external host in the same argument text.
InspectOtherTool(call) ==
    IF call.secret /\ External(call.text_hosts) # {} THEN Denied(TRUE) ELSE Permitted

\* Mutant: a tier without egress denies, and reports no attempt.
DeniesSilently(tier, call) ==
    LET cap == Config.tier_caps[tier]
        external == External(call.dests)
    IN  IF cap.egress = "none" THEN Denied(FALSE)
        ELSE IF call.dests \cap Config.known_bad_destinations # {} THEN Denied(TRUE)
        ELSE IF call.secret /\ external # {} THEN Denied(TRUE)
        ELSE IF external \ cap.allow_destinations # {} THEN Denied(TRUE)
        ELSE IF call.secret THEN Denied(FALSE)
        ELSE Permitted

\* The ordered rules of an egress tool; the first that applies decides.
InspectEgressTool(tier, call) ==
    LET cap == Config.tier_caps[tier]
        external == External(call.dests)
    IN  IF cap.egress = "none" THEN Denied(call.secret \/ external # {})
        ELSE IF call.dests \cap Config.known_bad_destinations # {} THEN Denied(TRUE)
        ELSE IF call.secret /\ external # {} THEN Denied(TRUE)
        ELSE IF external \ cap.allow_destinations # {} THEN Denied(TRUE)
        ELSE IF call.secret THEN Denied(FALSE)
        ELSE Permitted

Inspect(tier, call) ==
    IF IsEgressTool(call.tool) THEN InspectEgressTool(tier, call)
                               ELSE InspectOtherTool(call)

-----------------------------------------------------------------------------
(* SandboxExecutor *)

TierPermits(tier, tool) ==
    /\ IsSecretTool(tool) => Config.tier_caps[tier].secret_access # "none"
    /\ IsWriteTool(tool) => Config.tier_caps[tier].filesystem \notin {"none", "ro"}

\* Secret bytes reach an external destination once the call runs.
GroundTruthExfil(call) ==
    /\ call.secret
    /\ External(IF IsEgressTool(call.tool) THEN call.dests ELSE call.text_hosts) # {}

ExecOutcome == [blocked : BOOLEAN, exfiltrated : BOOLEAN, attempt : BOOLEAN]

\* Mutant: monitor-only mode keeps the tier's capability gate.
GatesAlways(tier, call, enforceEgress) ==
    LET verdict == Inspect(tier, call)
        blocked == ~TierPermits(tier, call.tool) \/ (enforceEgress /\ ~verdict.allowed)
    IN  [blocked |-> blocked, exfiltrated |-> ~blocked /\ GroundTruthExfil(call),
         attempt |-> verdict.exfil]

Execute(tier, call, enforceEgress) ==
    LET verdict == Inspect(tier, call)
    IN  IF enforceEgress /\ ~TierPermits(tier, call.tool)
        THEN [blocked |-> TRUE, exfiltrated |-> FALSE, attempt |-> FALSE]
        ELSE IF enforceEgress /\ ~verdict.allowed
        THEN [blocked |-> TRUE, exfiltrated |-> FALSE, attempt |-> verdict.exfil]
        ELSE [blocked |-> FALSE, exfiltrated |-> GroundTruthExfil(call),
              attempt |-> verdict.exfil]
=============================================================================
