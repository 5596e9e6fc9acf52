--------------------------- MODULE BehaviorHistory ---------------------------
(***************************************************************************)
(* What the behaviour monitor promises, as a history next to its state: an  *)
(* unbounded profile per agent, never evicted, restarted only when the      *)
(* agent has really been idle for longer than the TTL, and immune to the    *)
(* order in which stale clock readings reach the lock.  The properties      *)
(* compare the bounded store and the scores with it.                        *)
(***************************************************************************)
EXTENDS BehaviorMonitor

CONSTANT MaxOps     \* bound on the operations begun in a behaviour

VARIABLES
    ideal,      \* the unbounded profile of each agent
    forgotten,  \* agents whose profile was evicted at least once
    begun       \* operations begun so far

hvars == <<vars, ideal, forgotten, begun>>

Later(a, b) == IF a >= b THEN a ELSE b

IdealFetched(agent, mono) ==
    LET p == IF mono - ideal[agent].last_seen > Config.profile_ttl
             THEN NewProfile ELSE ideal[agent]
    IN  [p EXCEPT !.last_seen = Later(mono, p.last_seen)]

\* The profile h after operation o, with nothing dropped from it.
Recorded(h, o) ==
    LET readAt == IF o.tool \in SensitiveReads THEN Later(o.mono, h.read_at)
                                               ELSE h.read_at
    IN  CASE o.kind = "observe" -> [h EXCEPT !.call_times = Append(@, o.mono)]
          [] o.kind = "block" -> [h EXCEPT !.block_times = Append(@, o.mono)]
          [] o.kind = "quarantined" -> [h EXCEPT !.read_at = readAt]
          [] o.kind = "allow" -> [h EXCEPT !.seen_tools = @ \cup {o.tool},
                                           !.total_calls = @ + 1,
                                           !.read_at = readAt]

HInit ==
    /\ Init
    /\ ideal = [a \in Agents |-> NewProfile]
    /\ forgotten = {}
    /\ begun = 0

HTick == Tick /\ UNCHANGED <<ideal, forgotten, begun>>

HCall(t) ==
    /\ begun < MaxOps
    /\ begun' = begun + 1
    /\ Call(t)
    /\ UNCHANGED <<ideal, forgotten>>

HLocked(t) ==
    LET o == op[t]
    IN  /\ Locked(t)
        /\ ideal' = [ideal EXCEPT ![o.agent] =
                        Recorded(IdealFetched(o.agent, o.mono), o)]
        /\ forgotten' = forgotten \cup (Tracked \ Tracked')
        /\ UNCHANGED begun

HNext == HTick \/ \E t \in Threads : HCall(t) \/ HLocked(t)

HSpec == HInit /\ [][HNext]_hvars

-----------------------------------------------------------------------------
\* The agent's profile was never dropped to make room.
Remembered(a) == a \notin forgotten'

\* observe (behavior.py:104-164) loses nothing by bounding the deques and the
\* store: until an agent is evicted, its score is the one the unbounded history
\* gives.
ScoreIsExact ==
    [][\A t \in Threads :
         LET o == op[t]
         IN  Runs(t) /\ o.kind = "observe" /\ Remembered(o.agent)
             => op'[t].keep = Score(ideal'[o.agent], o.mono, o.tool, o.risky)]_hvars

\* "TTL: a long-idle profile is stale; start fresh" (behavior.py:84): a profile
\* that stays in the store loses calls or tools only when the agent's newest
\* access is more than the TTL ago.
ResetOnlyWhenIdle ==
    [][\A a \in Tracked \cap Tracked' :
         \/ profiles'[a].total_calls < profiles[a].total_calls
         \/ ~(profiles[a].seen_tools \subseteq profiles'[a].seen_tools)
         => clock - ideal[a].last_seen > Config.profile_ttl]_hvars

\* "a burst above the sustained rate is suspicious" (behavior.py:8-9): more than
\* rate_limit attempts within the window always raise the score.
BurstIsSuspicious ==
    [][\A t \in Threads :
         LET o == op[t]
         IN  /\ Runs(t) /\ o.kind = "observe" /\ Remembered(o.agent)
             /\ Recent(ideal'[o.agent].call_times, o.mono, Config.rate_window)
                  > Config.rate_limit
             => op'[t].keep < Scale]_hvars

\* "blocks within a recent time window (not a lifetime net counter, so a few
\* benign calls can't wash out an attack burst)" (behavior.py:13-14): whatever
\* the agent does after a block, an attempt in the window is scored for it.
BlocksNotWashedOut ==
    [][\A t \in Threads :
         LET o == op[t]
             blocks == Recent(IdealFetched(o.agent, o.mono).block_times, o.mono,
                              Config.block_window)
         IN  Runs(t) /\ o.kind = "observe" /\ Remembered(o.agent) /\ blocks > 0
             => 20 * op'[t].keep <= BlocksKeep(blocks) * Scale]_hvars
=============================================================================
