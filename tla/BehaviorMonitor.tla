--------------------------- MODULE BehaviorMonitor ---------------------------
(***************************************************************************)
(* aegis/monitor/behavior.py: the per-agent profiles that score how far an  *)
(* attempted tool call deviates from the agent's baseline, kept in a        *)
(* bounded OrderedDict (least recently used first) shared by every worker   *)
(* thread.                                                                  *)
(*                                                                         *)
(* Each operation reads the monotonic clock BEFORE it takes the lock, so it *)
(* is two steps: Call... reads the clock into the thread's local mono, and  *)
(* the locked section runs later with that value, possibly after other      *)
(* threads' sections that read a newer clock.                               *)
(***************************************************************************)
EXTENDS AegisConfig, SequencesExt

CONSTANTS
    Agents,         \* agent ids
    Tools,          \* tool names
    Threads,        \* threads that share the monitor
    MaxClock,       \* bound on the clock of the model
    CallTimesMax,   \* maxlen of AgentProfile.call_times (256 in the code)
    BlockTimesMax   \* maxlen of AgentProfile.block_times (64 in the code)

ASSUME BoundsAssumption ==
    /\ MaxClock \in Nat
    /\ CallTimesMax \in Nat \ {0}
    /\ BlockTimesMax \in Nat \ {0}

VARIABLES
    clock,      \* the monotonic clock
    lru,        \* keys of _profiles, the least recently used first
    profiles,   \* _profiles; an agent that has no entry maps to NewProfile
    op          \* what each thread is doing in the monitor

vars == <<clock, lru, profiles, op>>

SensitiveReads == {"read_secret", "read_file", "db_query"}

Never == -1     \* last_sensitive_read_at is None
Times == 0..MaxClock

NewProfile ==
    [seen_tools |-> {}, call_times |-> <<>>, block_times |-> <<>>,
     read_at |-> Never, total_calls |-> 0, last_seen |-> 0]

Profile ==
    [seen_tools : SUBSET Tools, call_times : Seq(Times), block_times : Seq(Times),
     read_at : Times \cup {Never}, total_calls : Nat, last_seen : Times]

-----------------------------------------------------------------------------
(* _profile and _evict_if_needed: the entry of agent, and the dictionary's   *)
(* order, once an operation has fetched it.  Both run under the lock.        *)

Tracked == {lru[i] : i \in 1..Len(lru)}

IndexOf(agent) == CHOOSE i \in 1..Len(lru) : lru[i] = agent

\* Mutant: a profile idle for exactly the TTL is reset as well.
ResetsAtTtl(agent, mono) ==
    LET p == IF mono - profiles[agent].last_seen >= Config.profile_ttl
             THEN NewProfile ELSE profiles[agent]
    IN  [p EXCEPT !.last_seen = mono]

Fetched(agent, mono) ==
    LET p == IF mono - profiles[agent].last_seen > Config.profile_ttl
             THEN NewProfile ELSE profiles[agent]
    IN  [p EXCEPT !.last_seen = mono]

\* Mutant: a known agent keeps its place.
LeavesInPlace(agent) == IF agent \in Tracked THEN lru ELSE Append(lru, agent)

\* move_to_end of the agent's key, or its insertion
Touched(agent) ==
    Append(IF agent \in Tracked THEN RemoveAt(lru, IndexOf(agent)) ELSE lru, agent)

\* Mutant: the dictionary may exceed its cap by one.
OneTooMany(s) == IF Len(s) > Config.max_agents + 1 THEN Len(s) - Config.max_agents ELSE 0

\* popitem(last=False) while the dictionary is over its cap
Overflow(s) == IF Len(s) > Config.max_agents THEN Len(s) - Config.max_agents ELSE 0

\* Mutant: popitem(last=True).
DropNewest(s) == SubSeq(s, 1, Len(s) - Overflow(s))

Evict(s) == SubSeq(s, Overflow(s) + 1, Len(s))

\* Mutant: one default profile object that all agents share.
SharesProfile(agent, p) ==
    /\ lru' = Evict(Touched(agent))
    /\ profiles' = [a \in Agents |-> IF a \in Tracked' THEN p ELSE NewProfile]

\* The locked section of one operation leaves p as the agent's profile.
Store(agent, p) ==
    /\ lru' = Evict(Touched(agent))
    /\ profiles' = [a \in Agents |->
                      IF a \in Tracked'
                      THEN IF a = agent THEN p ELSE profiles[a]
                      ELSE NewProfile]

\* Mutants: a list without maxlen; a full deque that refuses the newest.
Unbounded(s, x, max) == Append(s, x)
KeepsOldest(s, x, max) == IF Len(s) < max THEN Append(s, x) ELSE s

\* deque(maxlen = max).append(x)
Push(s, x, max) == IF Len(s) < max THEN Append(s, x) ELSE Append(Tail(s), x)

-----------------------------------------------------------------------------
(* The score.  A signal s multiplies the kept probability by 1 - s; with     *)
(* these weights each factor is a whole number of 20ths, the rate factor a   *)
(* whole number of (20 * rate_limit)ths.  The anomaly is 1 - keep / Scale.   *)

Scale == 20 * 20 * 20 * (20 * Config.rate_limit)

Recent(times, mono, window) ==
    Cardinality({i \in 1..Len(times) : mono - times[i] <= window})

\* Mutant: the first attempt above the limit goes unnoticed.
NoticesLate(attempts) ==
    IF attempts <= Config.rate_limit + 1 THEN 20 * Config.rate_limit
                                         ELSE 8 * Config.rate_limit

RateKeep(attempts) ==
    LET limit == Config.rate_limit
        kept == 14 * limit - 6 * (attempts - limit)
    IN  IF attempts <= limit THEN 20 * limit
        ELSE IF kept > 8 * limit THEN kept ELSE 8 * limit

\* The novelty and the no-baseline signal, which need three calls and none.
BaselineKeep(p, tool) ==
    IF \/ tool \notin p.seen_tools /\ p.total_calls >= 3
       \/ SensitivityOf(tool) = "critical" /\ p.total_calls = 0
    THEN 15 ELSE 20

\* Mutant: the window excludes its last tick.
ShortWindow(p, mono, risky) ==
    IF risky /\ p.read_at # Never /\ mono - p.read_at < Config.sensitive_read_window
    THEN 6 ELSE 20

SequenceKeep(p, mono, risky) ==
    IF risky /\ p.read_at # Never /\ mono - p.read_at <= Config.sensitive_read_window
    THEN 6 ELSE 20

BlocksKeep(blocks) ==
    IF blocks = 0 THEN 20 ELSE IF blocks = 1 THEN 16 ELSE IF blocks = 2 THEN 12 ELSE 10

Score(p, mono, tool, risky) ==
    RateKeep(Recent(p.call_times, mono, Config.rate_window))
      * BaselineKeep(p, tool)
      * SequenceKeep(p, mono, risky)
      * BlocksKeep(Recent(p.block_times, mono, Config.block_window))

-----------------------------------------------------------------------------
(* Threads.  An idle thread keeps the score its last observe returned.       *)

Kinds == {"observe", "allow", "quarantined", "block"}

Op ==
    [kind : {"idle"}, keep : Nat] \cup
    [kind : Kinds, agent : Agents, tool : Tools, risky : BOOLEAN, mono : Times]

Idle(t) == op[t].kind = "idle"

Returned(keep) == [kind |-> "idle", keep |-> keep]

Begin(t, kind, agent, tool, risky) ==
    /\ Idle(t)
    /\ op' = [op EXCEPT ![t] = [kind |-> kind, agent |-> agent, tool |-> tool,
                                risky |-> risky, mono |-> clock]]
    /\ UNCHANGED <<clock, lru, profiles>>

\* observe: the egress risk of the call and the clock are taken unlocked.
CallObserve(t, agent, tool, risky) == Begin(t, "observe", agent, tool, risky)

CallRecordAllow(t, agent, tool) == Begin(t, "allow", agent, tool, FALSE)

\* record_quarantined returns at once unless the tool is a sensitive read.
CallRecordQuarantined(t, agent, tool) ==
    /\ tool \in SensitiveReads
    /\ Begin(t, "quarantined", agent, tool, FALSE)

CallRecordBlock(t, agent, tool) == Begin(t, "block", agent, tool, FALSE)

Finish(t, keep) ==
    /\ op' = [op EXCEPT ![t] = Returned(keep)]
    /\ UNCHANGED clock

Observe(t) ==
    LET o == op[t]
        p == Fetched(o.agent, o.mono)
        q == [p EXCEPT !.call_times = Push(p.call_times, o.mono, CallTimesMax)]
    IN  /\ o.kind = "observe"
        /\ Store(o.agent, q)
        /\ Finish(t, Score(q, o.mono, o.tool, o.risky))

\* Mutant: a net counter, from which each allowed call takes a block away.
ForgivesBlock(t) ==
    LET o == op[t]
        p == Fetched(o.agent, o.mono)
    IN  /\ o.kind = "allow"
        /\ Store(o.agent,
             [p EXCEPT !.total_calls = p.total_calls + 1,
                       !.seen_tools = p.seen_tools \cup {o.tool},
                       !.block_times = IF p.block_times = <<>> THEN <<>>
                                                               ELSE Tail(p.block_times)])
        /\ Finish(t, Scale)

RecordAllow(t) ==
    LET o == op[t]
        p == Fetched(o.agent, o.mono)
    IN  /\ o.kind = "allow"
        /\ Store(o.agent,
             [p EXCEPT !.total_calls = p.total_calls + 1,
                       !.seen_tools = p.seen_tools \cup {o.tool},
                       !.read_at = IF o.tool \in SensitiveReads THEN o.mono
                                                                ELSE p.read_at])
        /\ Finish(t, Scale)

RecordQuarantined(t) ==
    LET o == op[t]
    IN  /\ o.kind = "quarantined"
        /\ Store(o.agent, [Fetched(o.agent, o.mono) EXCEPT !.read_at = o.mono])
        /\ Finish(t, Scale)

RecordBlock(t) ==
    LET o == op[t]
        p == Fetched(o.agent, o.mono)
    IN  /\ o.kind = "block"
        /\ Store(o.agent,
             [p EXCEPT !.block_times = Push(p.block_times, o.mono, BlockTimesMax)])
        /\ Finish(t, Scale)

Tick ==
    /\ clock < MaxClock
    /\ clock' = clock + 1
    /\ UNCHANGED <<lru, profiles, op>>

Init ==
    /\ clock = 0
    /\ lru = <<>>
    /\ profiles = [a \in Agents |-> NewProfile]
    /\ op = [t \in Threads |-> Returned(Scale)]

Call(t) ==
    \E agent \in Agents, tool \in Tools :
        \/ \E risky \in BOOLEAN : /\ risky => IsEgressTool(tool)
                                  /\ CallObserve(t, agent, tool, risky)
        \/ CallRecordAllow(t, agent, tool)
        \/ CallRecordQuarantined(t, agent, tool)
        \/ CallRecordBlock(t, agent, tool)

Locked(t) == Observe(t) \/ RecordAllow(t) \/ RecordQuarantined(t) \/ RecordBlock(t)

Next == Tick \/ \E t \in Threads : Call(t) \/ Locked(t)

Spec == Init /\ [][Next]_vars

-----------------------------------------------------------------------------
\* Type invariant: the deques respect their maxlen and every time is a past
\* reading of the clock.
TypeOK ==
    /\ clock \in Times
    /\ lru \in Seq(Agents)
    /\ profiles \in [Agents -> Profile]
    /\ op \in [Threads -> Op]
    /\ \A a \in Agents : /\ Len(profiles[a].call_times) <= CallTimesMax
                         /\ Len(profiles[a].block_times) <= BlockTimesMax

\* The store never holds more than max_agents profiles, at most one of an agent
\* (_evict_if_needed), and an agent it does not hold has no history left.
StoreBounded ==
    /\ Len(lru) <= Config.max_agents
    /\ \A i, j \in 1..Len(lru) : lru[i] = lru[j] => i = j
    /\ \A a \in Agents \ Tracked : profiles[a] = NewProfile

\* The thread that runs its locked section in this step.
Runs(t) == op[t].kind # "idle" /\ op'[t].kind = "idle"

\* The dictionary's order is the order of last use (behavior.py:88, 101): the
\* entry evicted next is never one used later than another entry.
LruOrderedByLastUse ==
    \A i, j \in 1..Len(lru) :
        i < j => profiles[lru[i]].last_seen <= profiles[lru[j]].last_seen

\* An operation's own profile survives the eviction it triggers
\* (behavior.py:92-94): what it then writes reaches the store.
OwnProfileKept ==
    [][\A t \in Threads : Runs(t) =>
         /\ op[t].agent \in Tracked'
         /\ profiles'[op[t].agent].last_seen = op[t].mono]_vars
=============================================================================
