------------------------------ MODULE MCBehavior ------------------------------
(* Small instances of the behaviour monitor for TLC. *)
EXTENDS BehaviorHistory, AegisDefaults, TLC

\* Windows of one or two ticks, a rate limit the deques can exceed.
SmallConfig ==
    [DefaultConfig EXCEPT !.rate_limit = 1, !.rate_window = 1, !.max_agents = 2,
        !.profile_ttl = 2, !.sensitive_read_window = 1, !.block_window = 1]

\* A profile lives long enough to survive the delays of the model.
PatientConfig == [SmallConfig EXCEPT !.profile_ttl = 9]

AgentSymmetry == Permutations(Agents)
=============================================================================
