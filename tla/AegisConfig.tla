----------------------------- MODULE AegisConfig -----------------------------
(***************************************************************************)
(* aegis/config.py: the configuration record every component reads, its    *)
(* consistency check and its fail-closed accessors.                        *)
(*                                                                         *)
(* Every probability, trust and threshold of the code is a float of [0,1];  *)
(* here it is a whole number of hundredths.  Durations are whole ticks of   *)
(* the monotonic clock.                                                     *)
(***************************************************************************)
EXTENDS Naturals, Integers

CONSTANTS
    Config,     \* the AegisConfig a gateway owns (its private copy)
    Hosts       \* the host names a tool call can mention

Levels == {"low", "medium", "high", "critical"}
Tiers == {"no_net", "read_only", "restricted", "trusted"}
Verdicts == {"allow", "sanitize", "quarantine", "block"}
Percent == 0..100

\* Tools the *module* EGRESS_TOOLS names; Config.egress_tools is a copy that an
\* operator may change.
EGRESS_TOOLS == {"http_post", "send_email", "transfer_funds"}

TierCapability ==
    [egress : {"none", "allowlist", "broad"},
     filesystem : {"none", "ro", "scratch"},
     secret_access : {"none", "scoped", "full"},
     allow_destinations : SUBSET Hosts]

ThresholdsValid(th) ==
    /\ {th.injection_block, th.injection_sanitize,
        th.anomaly_quarantine, th.anomaly_block} \subseteq Percent
    /\ th.injection_sanitize <= th.injection_block
    /\ th.anomaly_quarantine <= th.anomaly_block

(***************************************************************************)
(* AegisConfig.validate.  The last three conjuncts are not checked by the   *)
(* code: they are the declared types of the fields.                         *)
(***************************************************************************)
Validate(c) ==
    /\ \A role \in DOMAIN c.role_trust : c.role_trust[role] \in Percent
    /\ c.sensitivity_trust_floor \in [Levels -> Percent]
    /\ \A tool \in DOMAIN c.tool_sensitivity : c.tool_sensitivity[tool] \in Levels
    /\ c.rate_limit \in Nat /\ c.rate_limit >= 1
    /\ c.rate_window \in Nat /\ c.rate_window > 0
    /\ c.max_agents \in Nat /\ c.max_agents >= 1
    /\ c.max_content_length \in Nat /\ c.max_content_length >= 1
    /\ ThresholdsValid(c.thresholds)
    /\ {c.profile_ttl, c.sensitive_read_window, c.block_window} \subseteq Int
    /\ c.tier_caps \in [Tiers -> TierCapability]
    /\ {c.internal_hosts, c.known_bad_destinations} \subseteq SUBSET Hosts

ASSUME ConfigIsValid == Validate(Config)

-----------------------------------------------------------------------------
(* Accessors: an unknown role, tool or level gets the restrictive answer.    *)

Trust(role) ==
    IF role \in DOMAIN Config.role_trust THEN Config.role_trust[role] ELSE 0

SensitivityOf(tool) ==
    IF tool \in DOMAIN Config.tool_sensitivity
    THEN Config.tool_sensitivity[tool] ELSE "high"

TrustFloor(level) == Config.sensitivity_trust_floor[level]

IsPermitted(role, tool) ==
    /\ role \in DOMAIN Config.role_tool_matrix
    /\ tool \in Config.role_tool_matrix[role]

IsEgressTool(tool) == tool \in Config.egress_tools
IsWriteTool(tool) == tool \in Config.write_tools
IsSecretTool(tool) == tool \in Config.secret_tools
IsInternal(host) == host \in Config.internal_hosts

\* "high or critical", the test the enforcer, the policy and the router share
IsGuarded(tool) == SensitivityOf(tool) \in {"high", "critical"}
=============================================================================
