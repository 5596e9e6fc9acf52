----------------------------- MODULE Enforcement -----------------------------
(***************************************************************************)
(* aegis/monitor/policy.py and enforcer.py: the decision rules of the       *)
(* Policy Enforcement Point.  PolicyEnforcementPoint.evaluate consults the  *)
(* behaviour monitor in the middle, so it is split there: PolicyCheck comes *)
(* before the call to observe, Judge after it.                              *)
(***************************************************************************)
EXTENDS AegisConfig

\* Mutant: only the guarded tools have a trust floor.
FloorsGuardedOnly(role, tool) ==
    IF ~IsPermitted(role, tool) THEN "hard"
    ELSE IF Trust(role) >= TrustFloor(SensitivityOf(tool)) THEN "ok"
    ELSE IF IsGuarded(tool) THEN "hard"
    ELSE "ok"

\* PolicyEngine.check: "hard" may never run, "soft" runs isolated.
PolicyCheck(role, tool) ==
    IF ~IsPermitted(role, tool) THEN "hard"
    ELSE IF Trust(role) >= TrustFloor(SensitivityOf(tool)) THEN "ok"
    ELSE IF IsGuarded(tool) THEN "hard"
    ELSE "soft"

\* A request without a tool call is judged on its injection score alone.
JudgeContent(injection) ==
    IF injection >= Config.thresholds.injection_block THEN "block"
    ELSE IF injection >= Config.thresholds.injection_sanitize THEN "sanitize"
    ELSE "allow"

\* anomaly >= percent hundredths, the anomaly being 1 - keep/scale
AnomalyAtLeast(percent, keep, scale) == 100 * keep <= (100 - percent) * scale

\* Mutant: only guarded tools are blocked, whatever the injection score.
SparesReads(tool, injection, keep, scale) ==
    IsGuarded(tool) /\ injection >= Config.thresholds.injection_sanitize

MustBlock(tool, injection, keep, scale) ==
    \/ injection >= Config.thresholds.injection_block
    \/ IsGuarded(tool) /\ injection >= Config.thresholds.injection_sanitize
    \/ IsGuarded(tool) /\ AnomalyAtLeast(Config.thresholds.anomaly_block, keep, scale)

Judge(tool, injection, keep, scale) ==
    IF MustBlock(tool, injection, keep, scale) THEN "block"
    ELSE IF AnomalyAtLeast(Config.thresholds.anomaly_quarantine, keep, scale)
         THEN "quarantine"
    ELSE IF injection >= Config.thresholds.injection_sanitize THEN "sanitize"
    ELSE "allow"
=============================================================================
