------------------------ MODULE BehaviorMonitorProofs ------------------------
(***************************************************************************)
(* The behaviour monitor's type invariant, the bound of its store and what *)
(* eviction may take, for every configuration, number of agents and        *)
(* threads, clock and deque size; and what a locked section can do to a    *)
(* profile, which the proofs about the gateway use.                        *)
(***************************************************************************)
EXTENDS BehaviorMonitor, SequenceTheorems, FiniteSetTheorems, TLAPS

LEMMA ConfigFacts ==
    /\ Config.rate_limit \in Nat \ {0}
    /\ Config.max_agents \in Nat \ {0}
    /\ Config.profile_ttl \in Int
BY ConfigIsValid DEF Validate

-----------------------------------------------------------------------------
(* Sequences *)

Distinct(s) == \A i, j \in 1..Len(s) : s[i] = s[j] => i = j

\* Removing an element keeps the others, in their order.
LEMMA RemoveAtFacts ==
    ASSUME NEW S, NEW s \in Seq(S), NEW k \in 1..Len(s)
    PROVE  /\ RemoveAt(s, k) \in Seq(S)
           /\ Len(RemoveAt(s, k)) = Len(s) - 1
           /\ \A i \in 1..(Len(s) - 1) :
                 RemoveAt(s, k)[i] = IF i < k THEN s[i] ELSE s[i + 1]
<1> DEFINE a == SubSeq(s, 1, k - 1)
           b == SubSeq(s, k + 1, Len(s))
<1>1. a \in Seq(S) /\ Len(a) = k - 1 /\ \A i \in 1..(k - 1) : a[i] = s[i]
  BY SubSeqProperties
<1>2. b \in Seq(S) /\ Len(b) = Len(s) - k /\ \A i \in 1..(Len(s) - k) : b[i] = s[i + k]
  BY SubSeqProperties
<1>3. RemoveAt(s, k) = a \o b
  BY DEF RemoveAt
<1> HIDE DEF a, b
<1>4. Len(s) \in Nat /\ k \in Nat /\ k >= 1 /\ k <= Len(s)
  OBVIOUS
<1>5. a \o b \in Seq(S) /\ Len(a \o b) = Len(s) - 1
  <2>1. a \o b \in Seq(S) /\ Len(a \o b) = Len(a) + Len(b)
    BY <1>1, <1>2, ConcatProperties
  <2> QED BY <1>1, <1>2, <1>4, <2>1
<1>6. ASSUME NEW i \in 1..(Len(s) - 1)
      PROVE  (a \o b)[i] = IF i < k THEN s[i] ELSE s[i + 1]
  <2>1. i \in Int /\ (i < k \/ i >= k)
    BY <1>4
  <2>2. (a \o b)[i] = IF i <= Len(a) THEN a[i] ELSE b[i - Len(a)]
    BY <1>1, <1>2, <1>4, ConcatProperties
  <2>3. CASE i < k
    BY <1>1, <1>4, <2>1, <2>2, <2>3
  <2>4. CASE i >= k
    <3>1. (a \o b)[i] = b[i - (k - 1)]
      BY <1>1, <1>4, <2>1, <2>2, <2>4
    <3>2. i - (k - 1) \in 1..(Len(s) - k) /\ (i - (k - 1)) + k = i + 1
      BY <1>4, <2>1, <2>4
    <3>3. b[i - (k - 1)] = s[(i - (k - 1)) + k]
      BY <1>2, <3>2
    <3> QED BY <1>4, <2>1, <2>4, <3>1, <3>2, <3>3
  <2> QED BY <2>1, <2>3, <2>4
<1> QED BY <1>3, <1>5, <1>6

\* A function on 1..n+1 that continues one on 1..n appends to it.
LEMMA AppendIsExtension ==
    ASSUME NEW n \in Nat, NEW S, NEW f \in [1..n -> S], NEW x \in S, NEW g,
           g = [i \in 1..(n + 1) |-> IF i = n + 1 THEN x ELSE f[i]]
    PROVE  g = Append(f, x)
<1>1. f \in Seq(S) /\ Len(f) = n
  OBVIOUS
<1>2. g \in Seq(S) /\ Len(g) = n + 1
  OBVIOUS
<1>3. Append(f, x) \in Seq(S) /\ Len(Append(f, x)) = n + 1
  BY <1>1
<1>4. \A i \in 1..(n + 1) : g[i] = Append(f, x)[i]
  BY <1>1
<1> QED BY ONLY <1>2, <1>3, <1>4, SeqEqual, Zenon

\* deque.append keeps the element type and never exceeds maxlen.
LEMMA PushType ==
    ASSUME NEW S, NEW s \in Seq(S), NEW x \in S, NEW max \in Nat \ {0},
           Len(s) <= max
    PROVE  Push(s, x, max) \in Seq(S) /\ Len(Push(s, x, max)) <= max
<1>1. CASE Len(s) < max
  BY <1>1 DEF Push
<1>2. CASE Len(s) = max
  <2>1. Tail(s) \in Seq(S) /\ Len(Tail(s)) = max - 1
    BY <1>2
  <2> QED BY <1>2, <2>1 DEF Push
<1> QED BY <1>1, <1>2

-----------------------------------------------------------------------------
(* The store *)

\* move_to_end or insertion: one entry per agent, the agent's entry is the last.
LEMMA TouchedFacts ==
    ASSUME lru \in Seq(Agents), Distinct(lru), NEW agent \in Agents
    PROVE  /\ Touched(agent) \in Seq(Agents)
           /\ Distinct(Touched(agent))
           /\ Len(Touched(agent)) >= 1
           /\ Touched(agent)[Len(Touched(agent))] = agent
<1>1. CASE agent \in Tracked
  <2> DEFINE k == IndexOf(agent)
             r == RemoveAt(lru, k)
  <2>1. k \in 1..Len(lru) /\ lru[k] = agent
    BY <1>1 DEF Tracked, IndexOf
  <2>2. /\ r \in Seq(Agents) /\ Len(r) = Len(lru) - 1
        /\ \A i \in 1..(Len(lru) - 1) : r[i] = IF i < k THEN lru[i] ELSE lru[i + 1]
    BY <2>1, RemoveAtFacts
  <2>3. Touched(agent) = Append(r, agent)
    BY <1>1 DEF Touched
  <2> HIDE DEF k, r
  <2>4. ASSUME NEW i \in 1..Len(r)
        PROVE  r[i] # agent
    <3>1. PICK j \in 1..Len(lru) : r[i] = lru[j] /\ j # k
      BY <2>1, <2>2
    <3> QED BY <2>1, <3>1 DEF Distinct
  <2>5. Distinct(r)
    BY <2>1, <2>2 DEF Distinct
  <2> QED BY SMTT(60), <2>2, <2>3, <2>4, <2>5 DEF Distinct
<1>2. CASE agent \notin Tracked
  <2>1. Touched(agent) = Append(lru, agent)
    BY <1>2 DEF Touched
  <2>2. \A i \in 1..Len(lru) : lru[i] # agent
    BY <1>2 DEF Tracked
  <2> QED BY <2>1, <2>2 DEF Distinct
<1> QED BY <1>1, <1>2

\* popitem(last=False): the newest max_agents entries stay.
LEMMA EvictFacts ==
    ASSUME NEW s \in Seq(Agents), Distinct(s), Len(s) >= 1
    PROVE  /\ Evict(s) \in Seq(Agents)
           /\ Distinct(Evict(s))
           /\ Len(Evict(s)) <= Config.max_agents
           /\ Len(Evict(s)) >= 1
           /\ Evict(s)[Len(Evict(s))] = s[Len(s)]
<1> DEFINE n == Overflow(s)
<1>1. n \in 0..(Len(s) - 1) /\ Len(s) - n <= Config.max_agents
  BY ConfigFacts DEF Overflow
<1>2. Evict(s) = SubSeq(s, n + 1, Len(s))
  BY DEF Evict
<1> HIDE DEF n
<1>3. /\ Evict(s) \in Seq(Agents) /\ Len(Evict(s)) = Len(s) - n
      /\ \A i \in 1..(Len(s) - n) : Evict(s)[i] = s[i + n]
  BY <1>1, <1>2, SubSeqProperties
<1> QED BY SMTT(60), <1>1, <1>3 DEF Distinct

\* A locked section that stores a well-formed profile keeps the store well
\* formed and within its bound.
LEMMA StoreFacts ==
    ASSUME TypeOK, StoreBounded, NEW agent \in Agents, NEW p \in Profile,
           Len(p.call_times) <= CallTimesMax, Len(p.block_times) <= BlockTimesMax,
           NewProfile \in Profile, Store(agent, p)
    PROVE  /\ lru' \in Seq(Agents)
           /\ profiles' \in [Agents -> Profile]
           /\ \A a \in Agents : /\ Len(profiles'[a].call_times) <= CallTimesMax
                                /\ Len(profiles'[a].block_times) <= BlockTimesMax
           /\ StoreBounded'
           /\ agent \in Tracked' /\ profiles'[agent] = p
<1>1. lru \in Seq(Agents) /\ Distinct(lru)
  BY DEF TypeOK, StoreBounded, Distinct
<1>2. /\ lru' \in Seq(Agents) /\ Distinct(lru') /\ Len(lru') <= Config.max_agents
      /\ Len(lru') >= 1 /\ lru'[Len(lru')] = agent
  BY <1>1, TouchedFacts, EvictFacts DEF Store
<1>3. profiles' = [a \in Agents |-> IF a \in Tracked'
                                    THEN IF a = agent THEN p ELSE profiles[a]
                                    ELSE NewProfile]
  BY DEF Store
<1>4. agent \in Tracked'
  BY <1>2 DEF Tracked
<1>5. \A a \in Agents \ Tracked' : profiles'[a] = NewProfile
  BY <1>3
<1>6. StoreBounded'
  BY <1>2, <1>5 DEF StoreBounded, Distinct
<1>7. ASSUME NEW a \in Agents
      PROVE  /\ profiles'[a] \in Profile
             /\ Len(profiles'[a].call_times) <= CallTimesMax
             /\ Len(profiles'[a].block_times) <= BlockTimesMax
  <2>1. Len(NewProfile.call_times) <= CallTimesMax
        /\ Len(NewProfile.block_times) <= BlockTimesMax
    BY BoundsAssumption DEF NewProfile
  <2> QED BY <1>3, <2>1 DEF TypeOK
<1> QED BY <1>2, <1>3, <1>4, <1>6, <1>7

-----------------------------------------------------------------------------
(* The score *)

LEMMA NatProduct ==
    ASSUME NEW m \in Nat, NEW n \in Nat
    PROVE  m * n \in Nat
OBVIOUS

LEMMA RecentType ==
    ASSUME NEW times \in Seq(Times), NEW mono \in Times, NEW window \in Int
    PROVE  Recent(times, mono, window) \in Nat
<1> DEFINE hits == {i \in 1..Len(times) : mono - times[i] <= window}
<1>1. IsFiniteSet(1..Len(times))
  BY FS_Interval
<1>2. IsFiniteSet(hits)
  BY <1>1, FS_Subset
<1> QED BY <1>2, FS_CardinalityType DEF Recent

\* observe returns a score: none of its factors is negative.
LEMMA ScoreType ==
    ASSUME NEW p \in Profile, NEW mono \in Times, NEW tool, NEW risky
    PROVE  Score(p, mono, tool, risky) \in Nat
<1> DEFINE attempts == Recent(p.call_times, mono, Config.rate_window)
           blocks == Recent(p.block_times, mono, Config.block_window)
<1>1. attempts \in Nat /\ blocks \in Nat
  <2>1. Config.rate_window \in Int /\ Config.block_window \in Int
    BY ConfigIsValid DEF Validate
  <2>2. p.call_times \in Seq(Times) /\ p.block_times \in Seq(Times)
    BY DEF Profile
  <2> QED BY <2>1, <2>2, RecentType
<1> HIDE DEF attempts, blocks
<1>2. RateKeep(attempts) \in Nat
  BY <1>1, ConfigFacts DEF RateKeep
<1>3. BaselineKeep(p, tool) \in Nat
  BY DEF BaselineKeep
<1>4. SequenceKeep(p, mono, risky) \in Nat
  BY DEF SequenceKeep
<1>5. BlocksKeep(blocks) \in Nat
  BY DEF BlocksKeep
<1>6. RateKeep(attempts) * BaselineKeep(p, tool) \in Nat
  BY <1>2, <1>3, NatProduct
<1>7. RateKeep(attempts) * BaselineKeep(p, tool) * SequenceKeep(p, mono, risky) \in Nat
  BY <1>4, <1>6, NatProduct
<1>8. RateKeep(attempts) * BaselineKeep(p, tool) * SequenceKeep(p, mono, risky)
        * BlocksKeep(blocks) \in Nat
  BY <1>5, <1>7, NatProduct
<1> QED BY <1>8 DEF Score, attempts, blocks

LEMMA ScaleType == Scale \in Nat
BY ConfigFacts DEF Scale

-----------------------------------------------------------------------------
(* Type correctness and the bound of the store *)

LEMMA NewProfileType == NewProfile \in Profile
BY BoundsAssumption DEF NewProfile, Profile, Times, Never

\* What a locked section reads: the fetched profile is well formed.
LEMMA FetchedType ==
    ASSUME TypeOK, NEW agent \in Agents, NEW mono \in Times
    PROVE  LET p == Fetched(agent, mono)
           IN  /\ p \in Profile /\ p.last_seen = mono
               /\ Len(p.call_times) <= CallTimesMax
               /\ Len(p.block_times) <= BlockTimesMax
<1>1. /\ profiles[agent] \in Profile
      /\ Len(profiles[agent].call_times) <= CallTimesMax
      /\ Len(profiles[agent].block_times) <= BlockTimesMax
  BY DEF TypeOK
<1>2. /\ Len(NewProfile.call_times) <= CallTimesMax
      /\ Len(NewProfile.block_times) <= BlockTimesMax
  BY BoundsAssumption DEF NewProfile
<1> QED BY <1>1, <1>2, NewProfileType DEF Fetched, Profile

LEMMA BusyType ==
    ASSUME TypeOK, NEW t \in Threads, op[t].kind \in Kinds
    PROVE  op[t].agent \in Agents /\ op[t].tool \in Tools /\ op[t].mono \in Times
BY DEF TypeOK, Op, Kinds

LEMMA CallKeepsType ==
    ASSUME TypeOK, StoreBounded, NEW t \in Threads, Call(t)
    PROVE  TypeOK' /\ StoreBounded'
<1>1. PICK kind \in Kinds, agent \in Agents, tool \in Tools, risky \in BOOLEAN :
          Begin(t, kind, agent, tool, risky)
  BY DEF Call, CallObserve, CallRecordAllow, CallRecordQuarantined,
         CallRecordBlock, Kinds
<1>2. op' \in [Threads -> Op]
  BY <1>1 DEF Begin, TypeOK, Op
<1> QED BY <1>1, <1>2 DEF Begin, TypeOK, StoreBounded, Tracked

LEMMA FinishKeepsType ==
    ASSUME TypeOK, NEW t \in Threads, NEW keep \in Nat, Finish(t, keep)
    PROVE  op' \in [Threads -> Op] /\ clock' \in Times
BY DEF Finish, TypeOK, Op, Returned

\* Every locked section stores a well-formed profile, stamped with its clock
\* reading, and returns a score.
LEMMA LockedSection ==
    ASSUME TypeOK, NEW t \in Threads, Locked(t)
    PROVE  /\ op[t].agent \in Agents
           /\ \E q \in Profile, keep \in Nat :
                 /\ Len(q.call_times) <= CallTimesMax
                 /\ Len(q.block_times) <= BlockTimesMax
                 /\ q.last_seen = op[t].mono
                 /\ Store(op[t].agent, q)
                 /\ Finish(t, keep)
<1> DEFINE o == op[t]
           p == Fetched(o.agent, o.mono)
           Stores(q, keep) == /\ Len(q.call_times) <= CallTimesMax
                              /\ Len(q.block_times) <= BlockTimesMax
                              /\ q.last_seen = o.mono
                              /\ Store(o.agent, q)
                              /\ Finish(t, keep)
<1> SUFFICES o.agent \in Agents /\ \E q \in Profile, keep \in Nat : Stores(q, keep)
  OBVIOUS
<1>1. o.kind \in Kinds
  BY DEF Locked, Observe, RecordAllow, RecordQuarantined, RecordBlock, Kinds
<1>2. o.agent \in Agents /\ o.tool \in Tools /\ o.mono \in Times
  BY <1>1, BusyType
<1>3. /\ p \in Profile /\ p.last_seen = o.mono /\ Len(p.call_times) <= CallTimesMax
      /\ Len(p.block_times) <= BlockTimesMax
  BY <1>2, FetchedType
<1> HIDE DEF o, p
<1>4. CASE Observe(t)
  <2> DEFINE calls == Push(p.call_times, o.mono, CallTimesMax)
             q == [p EXCEPT !.call_times = calls]
  <2>1. calls \in Seq(Times) /\ Len(calls) <= CallTimesMax
    BY <1>2, <1>3, PushType, BoundsAssumption DEF Profile
  <2>2. q \in Profile /\ Len(q.call_times) <= CallTimesMax
        /\ Len(q.block_times) <= BlockTimesMax /\ q.last_seen = o.mono
    BY <1>3, <2>1 DEF Profile
  <2>3. Store(o.agent, q) /\ Finish(t, Score(q, o.mono, o.tool, o.risky))
    BY <1>4 DEF Observe, o, p
  <2> HIDE DEF q
  <2>4. Score(q, o.mono, o.tool, o.risky) \in Nat
    BY <1>2, <2>2, ScoreType
  <2> QED BY <1>2, <2>2, <2>3, <2>4
<1>5. CASE RecordAllow(t)
  <2> DEFINE readAt == IF o.tool \in SensitiveReads THEN o.mono ELSE p.read_at
             calls == p.total_calls + 1
             seen == p.seen_tools \cup {o.tool}
             q == [p EXCEPT !.total_calls = calls, !.seen_tools = seen,
                            !.read_at = readAt]
  <2>1. readAt \in Times \cup {Never} /\ calls \in Nat /\ seen \in SUBSET Tools
    BY <1>2, <1>3 DEF Profile
  <2>2. Store(o.agent, q) /\ Finish(t, Scale)
    BY <1>5 DEF RecordAllow, o, p
  <2> HIDE DEF readAt, calls, seen
  <2>3. q \in Profile /\ Len(q.call_times) <= CallTimesMax
        /\ Len(q.block_times) <= BlockTimesMax /\ q.last_seen = o.mono
    BY <1>2, <1>3, <2>1 DEF Profile
  <2> QED BY <1>2, <2>2, <2>3, ScaleType
<1>6. CASE RecordQuarantined(t)
  <2> DEFINE q == [p EXCEPT !.read_at = o.mono]
  <2>1. q \in Profile /\ Len(q.call_times) <= CallTimesMax
        /\ Len(q.block_times) <= BlockTimesMax /\ q.last_seen = o.mono
    BY <1>2, <1>3 DEF Profile
  <2>2. Store(o.agent, q) /\ Finish(t, Scale)
    BY <1>6 DEF RecordQuarantined, o, p
  <2> QED BY <1>2, <2>1, <2>2, ScaleType
<1>7. CASE RecordBlock(t)
  <2> DEFINE blocked == Push(p.block_times, o.mono, BlockTimesMax)
             q == [p EXCEPT !.block_times = blocked]
  <2>1. blocked \in Seq(Times) /\ Len(blocked) <= BlockTimesMax
    BY <1>2, <1>3, PushType, BoundsAssumption DEF Profile
  <2>2. q \in Profile /\ Len(q.call_times) <= CallTimesMax
        /\ Len(q.block_times) <= BlockTimesMax /\ q.last_seen = o.mono
    BY <1>3, <2>1 DEF Profile
  <2>3. Store(o.agent, q) /\ Finish(t, Scale)
    BY <1>7 DEF RecordBlock, o, p
  <2> QED BY <1>2, <2>2, <2>3, ScaleType
<1> QED BY <1>4, <1>5, <1>6, <1>7 DEF Locked

LEMMA LockedKeepsType ==
    ASSUME TypeOK, StoreBounded, NEW t \in Threads, Locked(t)
    PROVE  TypeOK' /\ StoreBounded'
<1>1. PICK q \in Profile, keep \in Nat :
          /\ op[t].agent \in Agents
          /\ Len(q.call_times) <= CallTimesMax
          /\ Len(q.block_times) <= BlockTimesMax
          /\ Store(op[t].agent, q)
          /\ Finish(t, keep)
  BY LockedSection
<1>2. op' \in [Threads -> Op] /\ clock' \in Times
  BY <1>1, FinishKeepsType
<1>3. /\ lru' \in Seq(Agents)
      /\ profiles' \in [Agents -> Profile]
      /\ \A a \in Agents : /\ Len(profiles'[a].call_times) <= CallTimesMax
                           /\ Len(profiles'[a].block_times) <= BlockTimesMax
      /\ StoreBounded'
  BY <1>1, NewProfileType, StoreFacts
<1> QED BY <1>2, <1>3 DEF TypeOK

LEMMA MonitorInit == Init => TypeOK /\ StoreBounded
<1> SUFFICES ASSUME Init PROVE TypeOK /\ StoreBounded
  OBVIOUS
<1>1. TypeOK
  BY NewProfileType, ScaleType, BoundsAssumption
     DEF Init, TypeOK, Op, Returned, Times, NewProfile
<1>2. StoreBounded
  BY ConfigFacts DEF Init, StoreBounded, Tracked
<1> QED BY <1>1, <1>2

LEMMA MonitorStep == TypeOK /\ StoreBounded /\ [Next]_vars => TypeOK' /\ StoreBounded'
<1> SUFFICES ASSUME TypeOK, StoreBounded, [Next]_vars
             PROVE  TypeOK' /\ StoreBounded'
  OBVIOUS
<1>1. CASE Tick
  BY <1>1, BoundsAssumption DEF Tick, TypeOK, StoreBounded, Tracked, Times
<1>2. ASSUME NEW t \in Threads, Call(t)
      PROVE  TypeOK' /\ StoreBounded'
  BY <1>2, CallKeepsType
<1>3. ASSUME NEW t \in Threads, Locked(t)
      PROVE  TypeOK' /\ StoreBounded'
  BY <1>3, LockedKeepsType
<1>4. CASE UNCHANGED vars
  BY <1>4 DEF vars, TypeOK, StoreBounded, Tracked
<1> QED BY <1>1, <1>2, <1>3, <1>4 DEF Next

\* The monitor's variables keep their types (behavior.py:43-69): the deques
\* respect their maxlen whatever the threads interleave.
THEOREM MonitorTypeCorrect == Spec => []TypeOK
<1>1. Spec => [](TypeOK /\ StoreBounded)
  BY MonitorInit, MonitorStep, PTL DEF Spec
<1> QED BY <1>1, PTL

\* The store is bounded by max_agents, holds an agent once, and keeps nothing of
\* an agent it evicted (behavior.py:79-101), for every number of agents and
\* threads.
THEOREM MonitorStoreBounded == Spec => []StoreBounded
<1>1. Spec => [](TypeOK /\ StoreBounded)
  BY MonitorInit, MonitorStep, PTL DEF Spec
<1> QED BY <1>1, PTL

-----------------------------------------------------------------------------
(* What a locked section does to the baselines *)

\* A baseline that counts no more calls and knows no other tools than another.
Within(p, q) == p.total_calls <= q.total_calls /\ p.seen_tools \subseteq q.seen_tools

\* At most one call of tool more.
WithinAfter(p, q, tool) ==
    /\ p.total_calls <= q.total_calls + 1
    /\ p.seen_tools \subseteq q.seen_tools \cup {tool}

\* A profile that times out loses its baseline, another keeps it.
LEMMA FetchedBaseline ==
    ASSUME TypeOK, NEW agent \in Agents, NEW mono \in Times
    PROVE  Within(Fetched(agent, mono), profiles[agent])
<1>1. profiles[agent] \in Profile
  BY DEF TypeOK
<1> QED BY <1>1 DEF Fetched, Within, Profile, NewProfile

\* Storing a profile takes nothing but the profile to the other agents' baselines.
LEMMA StoredBaseline ==
    ASSUME TypeOK, NEW agent \in Agents, NEW p, Store(agent, p), NEW a \in Agents
    PROVE  Within(profiles'[a], profiles[a]) \/ (a = agent /\ profiles'[a] = p)
<1>1. profiles[a] \in Profile
  BY DEF TypeOK
<1>2. profiles'[a] \in {profiles[a], NewProfile} \/ (a = agent /\ profiles'[a] = p)
  BY DEF Store
<1> QED BY <1>1, <1>2 DEF Within, Profile, NewProfile

\* Only record_allow adds to a baseline, and only to that of its own agent.
LEMMA LockedBaseline ==
    ASSUME TypeOK, NEW t \in Threads, Locked(t), NEW a \in Agents
    PROVE  \/ Within(profiles'[a], profiles[a])
           \/ /\ op[t].kind = "allow" /\ a = op[t].agent
              /\ WithinAfter(profiles'[a], profiles[a], op[t].tool)
<1> DEFINE o == op[t]
           p == Fetched(o.agent, o.mono)
<1>1. o.kind \in Kinds
  BY DEF Locked, Observe, RecordAllow, RecordQuarantined, RecordBlock, Kinds
<1>2. o.agent \in Agents /\ o.tool \in Tools /\ o.mono \in Times
  BY <1>1, BusyType
<1>3. p \in Profile /\ Within(p, profiles[o.agent]) /\ profiles[o.agent] \in Profile
  BY <1>2, FetchedType, FetchedBaseline DEF TypeOK
<1> HIDE DEF p
<1>4. ASSUME NEW q, Store(o.agent, q), q.total_calls = p.total_calls,
             q.seen_tools = p.seen_tools
      PROVE  Within(profiles'[a], profiles[a])
  <2>1. Within(profiles'[a], profiles[a]) \/ (a = o.agent /\ profiles'[a] = q)
    BY <1>2, <1>4, StoredBaseline
  <2> QED BY <1>3, <1>4, <2>1 DEF Within
<1>5. CASE Observe(t)
  <2>1. PICK calls : Store(o.agent, [p EXCEPT !.call_times = calls])
    BY <1>5 DEF Observe, p
  <2> QED BY <1>3, <1>4, <2>1 DEF Profile
<1>6. CASE RecordAllow(t)
  <2> DEFINE calls == p.total_calls + 1
             seen == p.seen_tools \cup {o.tool}
  <2>1. PICK at : Store(o.agent, [p EXCEPT !.total_calls = calls, !.seen_tools = seen,
                                           !.read_at = at])
    BY <1>6 DEF RecordAllow, p
  <2> HIDE DEF calls, seen
  <2> DEFINE q == [p EXCEPT !.total_calls = calls, !.seen_tools = seen, !.read_at = at]
  <2>2. Store(o.agent, q) /\ q.total_calls = calls /\ q.seen_tools = seen
    BY <1>3, <2>1 DEF Profile
  <2> HIDE DEF q
  <2>3. Within(profiles'[a], profiles[a]) \/ (a = o.agent /\ profiles'[a] = q)
    BY <1>2, <2>2, StoredBaseline
  <2>4. o.kind = "allow"
    BY <1>6 DEF RecordAllow
  <2>5. p.total_calls \in Nat /\ profiles[o.agent].total_calls \in Nat
    BY <1>3 DEF Profile
  <2> QED BY <1>3, <2>2, <2>3, <2>4, <2>5 DEF Within, WithinAfter, calls, seen
<1>7. CASE RecordQuarantined(t)
  <2>1. Store(o.agent, [p EXCEPT !.read_at = o.mono])
    BY <1>7 DEF RecordQuarantined, p
  <2> QED BY <1>3, <1>4, <2>1 DEF Profile
<1>8. CASE RecordBlock(t)
  <2>1. PICK blocked : Store(o.agent, [p EXCEPT !.block_times = blocked])
    BY <1>8 DEF RecordBlock, p
  <2> QED BY <1>3, <1>4, <2>1 DEF Profile
<1> QED BY <1>5, <1>6, <1>7, <1>8 DEF Locked

-----------------------------------------------------------------------------
(* What a locked section does to the store *)

\* Only a locked section takes a thread from an operation back to idle.
LEMMA RunsAreLockedSections ==
    ASSUME TypeOK, [Next]_vars, NEW t \in Threads, Runs(t)
    PROVE  Locked(t)
<1>1. op' # op
  BY DEF Runs
<1>2. PICK u \in Threads : Call(u) \/ Locked(u)
  BY <1>1 DEF Next, Tick, vars
<1>3. CASE Call(u)
  <2>1. PICK kind \in Kinds, agent \in Agents, tool \in Tools, risky \in BOOLEAN :
            Begin(u, kind, agent, tool, risky)
    BY <1>3 DEF Call, CallObserve, CallRecordAllow, CallRecordQuarantined,
           CallRecordBlock, Kinds
  <2>2. op'[t] = op[t] \/ op'[t].kind = kind
    BY <2>1 DEF Begin, TypeOK
  <2> QED BY <2>1, <2>2 DEF Runs, Kinds
<1>4. CASE Locked(u)
  <2>1. PICK keep \in Nat : Finish(u, keep)
    BY <1>4, LockedSection
  <2>2. u = t
    BY <2>1 DEF Finish, TypeOK, Runs
  <2> QED BY <1>4, <2>2
<1> QED BY <1>2, <1>3, <1>4

LEMMA OwnProfileStep ==
    ASSUME TypeOK, StoreBounded, [Next]_vars, NEW t \in Threads, Runs(t)
    PROVE  op[t].agent \in Tracked' /\ profiles'[op[t].agent].last_seen = op[t].mono
<1>1. PICK q \in Profile :
          /\ op[t].agent \in Agents
          /\ Len(q.call_times) <= CallTimesMax
          /\ Len(q.block_times) <= BlockTimesMax
          /\ q.last_seen = op[t].mono
          /\ Store(op[t].agent, q)
  BY RunsAreLockedSections, LockedSection
<1>2. op[t].agent \in Tracked' /\ profiles'[op[t].agent] = q
  BY <1>1, NewProfileType, StoreFacts
<1> QED BY <1>1, <1>2

\* An operation's profile is still in the store when its locked section ends,
\* with the operation's own time stamp (behavior.py:79-101), for every number of
\* agents and every cap that validate accepts: it evicts others, never itself.
THEOREM OwnProfileSurvives == Spec => OwnProfileKept
<1>1. TypeOK /\ StoreBounded /\ [Next]_vars
        => [\A t \in Threads : Runs(t) =>
              /\ op[t].agent \in Tracked'
              /\ profiles'[op[t].agent].last_seen = op[t].mono]_vars
  BY OwnProfileStep
<1>2. Spec => [](TypeOK /\ StoreBounded)
  BY MonitorInit, MonitorStep, PTL DEF Spec
<1> QED BY <1>1, <1>2, PTL DEF Spec, OwnProfileKept

\* The entries before the last keep their order, and none is the agent's.
LEMMA TouchedKeepsOrder ==
    ASSUME lru \in Seq(Agents), Distinct(lru), NEW agent \in Agents,
           NEW i \in Nat \ {0}, NEW j \in Nat, i < j, j < Len(Touched(agent))
    PROVE  \E k, l \in 1..Len(lru) :
              /\ k < l
              /\ lru[k] = Touched(agent)[i] /\ lru[l] = Touched(agent)[j]
              /\ lru[k] # agent /\ lru[l] # agent
<1>1. CASE agent \in Tracked
  <2> DEFINE p == IndexOf(agent)
             r == RemoveAt(lru, p)
  <2>1. p \in 1..Len(lru) /\ lru[p] = agent
    BY <1>1 DEF Tracked, IndexOf
  <2>2. /\ r \in Seq(Agents) /\ Len(r) = Len(lru) - 1
        /\ \A n \in 1..(Len(lru) - 1) : r[n] = IF n < p THEN lru[n] ELSE lru[n + 1]
    BY <2>1, RemoveAtFacts
  <2>3. Touched(agent) = Append(r, agent)
    BY <1>1 DEF Touched
  <2> HIDE DEF p, r
  <2> DEFINE k == IF i < p THEN i ELSE i + 1
             l == IF j < p THEN j ELSE j + 1
  <2>4. i \in 1..Len(r) /\ j \in 1..Len(r)
    BY <2>2, <2>3
  <2>5. Touched(agent)[i] = r[i] /\ Touched(agent)[j] = r[j]
    BY <2>2, <2>3, <2>4
  <2>6. k \in 1..Len(lru) /\ l \in 1..Len(lru) /\ k < l /\ k # p /\ l # p
    BY <2>1, <2>2, <2>4
  <2>7. lru[k] = r[i] /\ lru[l] = r[j]
    BY <2>2, <2>4
  <2>8. lru[k] # agent /\ lru[l] # agent
    BY <2>1, <2>6 DEF Distinct
  <2> HIDE DEF k, l
  <2> QED BY <2>5, <2>6, <2>7, <2>8
<1>2. CASE agent \notin Tracked
  <2>1. Touched(agent) = Append(lru, agent)
    BY <1>2 DEF Touched
  <2>2. i \in 1..Len(lru) /\ j \in 1..Len(lru)
    BY <2>1
  <2>3. Touched(agent)[i] = lru[i] /\ Touched(agent)[j] = lru[j]
    BY <2>1, <2>2
  <2>4. lru[i] # agent /\ lru[j] # agent
    BY <1>2, <2>2 DEF Tracked
  <2> QED BY <2>2, <2>3, <2>4
<1> QED BY <1>1, <1>2

\* The order of the store after a locked section: entries other than the
\* operation's agent come after one another as before.
LEMMA StoreKeepsOrder ==
    ASSUME lru \in Seq(Agents), Distinct(lru), NEW agent \in Agents, NEW q,
           Store(agent, q), NEW i \in 1..Len(lru'), NEW j \in 1..Len(lru'), i < j
    PROVE  \/ lru'[j] = agent
           \/ \E k, l \in 1..Len(lru) : /\ k < l
                                        /\ lru[k] = lru'[i] /\ lru[l] = lru'[j]
                                        /\ lru[k] # agent /\ lru[l] # agent
<1> DEFINE s == Touched(agent)
           n == Overflow(s)
<1>1. /\ s \in Seq(Agents) /\ Distinct(s) /\ Len(s) >= 1 /\ s[Len(s)] = agent
  BY TouchedFacts
<1>2. n \in 0..(Len(s) - 1)
  BY <1>1, ConfigFacts DEF Overflow
<1>3. lru' = SubSeq(s, n + 1, Len(s))
  BY DEF Store, Evict
<1> HIDE DEF n
<1>4. Len(lru') = Len(s) - n /\ \A m \in 1..(Len(s) - n) : lru'[m] = s[m + n]
  BY <1>1, <1>2, <1>3, SubSeqProperties
<1>5. lru'[i] = s[i + n] /\ lru'[j] = s[j + n] /\ i + n \in Nat \ {0} /\ j + n \in Nat
      /\ i + n < j + n /\ (j + n = Len(s) \/ j + n < Len(s))
  <2>1. i \in 1..(Len(s) - n) /\ j \in 1..(Len(s) - n)
    BY <1>4
  <2>2. Len(s) \in Nat
    BY <1>1, LenProperties
  <2> HIDE DEF s
  <2>3. lru'[i] = s[i + n] /\ lru'[j] = s[j + n]
    BY <1>4, <2>1
  <2>4. i \in Nat /\ i >= 1 /\ j \in Nat /\ j <= Len(s) - n /\ n \in Nat
    BY <1>2, <2>1, <2>2
  <2> QED BY <2>2, <2>3, <2>4
<1>6. CASE j + n = Len(s)
  BY <1>1, <1>5, <1>6
<1>7. CASE j + n < Len(s)
  BY <1>5, <1>7, TouchedKeepsOrder
<1> QED BY <1>5, <1>6, <1>7

-----------------------------------------------------------------------------
(* The order of the store is the order of last use, with one thread *)

\* No profile was used later than the clock reads, or than the reading of the
\* operation under way.
LastUseInv ==
    /\ LruOrderedByLastUse
    /\ \A a \in Agents : profiles[a].last_seen <= clock
    /\ \A t \in Threads : op[t].kind \in Kinds =>
         /\ op[t].mono <= clock
         /\ \A a \in Agents : profiles[a].last_seen <= op[t].mono

\* One thread, as the clock readings of several can reach the lock out of order.
OneThread == \A t, u \in Threads : t = u

\* With one thread every operation writes the latest time at the end of the order.
LEMMA LastUseStep ==
    ASSUME OneThread, TypeOK, StoreBounded, LastUseInv, [Next]_vars
    PROVE  LastUseInv'
<1>1. \A a \in Agents : profiles[a].last_seen \in Times
  BY DEF TypeOK, Profile
<1>2. CASE Tick
  <2>1. clock \in Int /\ clock' = clock + 1 /\ UNCHANGED <<lru, profiles, op>>
    BY <1>2 DEF Tick, TypeOK, Times
  <2>2. \A x \in Times : x \in Int
    BY DEF Times
  <2>3. \A x \in Times : x <= clock => x <= clock'
    BY <2>1, <2>2
  <2>4. \A t \in Threads : op[t].kind \in Kinds => op[t].mono \in Times
    BY BusyType
  <2> QED BY <1>1, <2>1, <2>3, <2>4 DEF LastUseInv, LruOrderedByLastUse
<1>3. ASSUME NEW t \in Threads, Call(t)
      PROVE  LastUseInv'
  <2>1. PICK kind \in Kinds, agent \in Agents, tool \in Tools, risky \in BOOLEAN :
            Begin(t, kind, agent, tool, risky)
    BY <1>3 DEF Call, CallObserve, CallRecordAllow, CallRecordQuarantined,
           CallRecordBlock, Kinds
  <2>2. op'[t].mono = clock /\ UNCHANGED <<clock, lru, profiles>>
    BY <2>1 DEF Begin, TypeOK
  <2>3. \A u \in Threads : u = t
    BY DEF OneThread
  <2>4. clock <= clock
    BY DEF TypeOK, Times
  <2> QED BY <2>2, <2>3, <2>4 DEF LastUseInv, LruOrderedByLastUse
<1>4. ASSUME NEW t \in Threads, Locked(t)
      PROVE  LastUseInv'
  <2> DEFINE agent == op[t].agent
             mono == op[t].mono
  <2>1. PICK q \in Profile, keep \in Nat :
            /\ agent \in Agents
            /\ Len(q.call_times) <= CallTimesMax
            /\ Len(q.block_times) <= BlockTimesMax
            /\ q.last_seen = mono
            /\ Store(agent, q)
            /\ Finish(t, keep)
    BY <1>4, LockedSection
  <2>2. op[t].kind \in Kinds
    BY <1>4 DEF Locked, Observe, RecordAllow, RecordQuarantined, RecordBlock, Kinds
  <2>3. mono \in Times /\ mono <= clock /\ \A a \in Agents : profiles[a].last_seen <= mono
    BY <2>2, BusyType DEF LastUseInv
  <2>4. /\ lru \in Seq(Agents) /\ Distinct(lru)
        /\ lru' \in Seq(Agents) /\ profiles' \in [Agents -> Profile]
        /\ agent \in Tracked' /\ profiles'[agent] = q
    BY <2>1, NewProfileType, StoreFacts DEF TypeOK, StoreBounded, Distinct
  <2>5. \A a \in Agents : \/ a = agent /\ profiles'[a].last_seen = mono
                          \/ a \in Tracked' /\ profiles'[a] = profiles[a]
                          \/ profiles'[a].last_seen = 0
    BY <2>1, <2>4 DEF Store, NewProfile
  <2>6. \A a \in Agents : profiles'[a].last_seen <= mono
    BY <2>3, <2>5 DEF Times
  <2>7. clock' = clock /\ clock \in Times
    BY <2>1 DEF Finish, TypeOK
  <2>8. \A a \in Agents : profiles'[a].last_seen <= clock'
    BY <2>3, <2>5, <2>7 DEF Times, LastUseInv
  <2>9. \A u \in Threads : op'[u].kind \notin Kinds
    BY <2>1 DEF Finish, OneThread, TypeOK, Returned, Kinds
  <2>10. LruOrderedByLastUse'
    <3> SUFFICES ASSUME NEW i \in 1..Len(lru'), NEW j \in 1..Len(lru'), i < j
                 PROVE  profiles'[lru'[i]].last_seen <= profiles'[lru'[j]].last_seen
      BY DEF LruOrderedByLastUse
    <3>1. lru'[i] \in Agents /\ lru'[j] \in Agents /\ lru'[i] \in Tracked'
          /\ lru'[j] \in Tracked'
      BY <2>4 DEF Tracked
    <3>2. CASE lru'[j] = agent
      BY <2>1, <2>4, <2>6, <3>1, <3>2
    <3>3. CASE lru'[j] # agent
      <4>1. PICK k \in 1..Len(lru), l \in 1..Len(lru) :
                /\ k < l
                /\ lru[k] = lru'[i] /\ lru[l] = lru'[j]
                /\ lru[k] # agent /\ lru[l] # agent
        <5>1. lru \in Seq(Agents) /\ Distinct(lru) /\ agent \in Agents /\ Store(agent, q)
          BY <2>1, <2>4
        <5> HIDE DEF agent
        <5>2. \/ lru'[j] = agent
              \/ \E k, l \in 1..Len(lru) : /\ k < l
                                           /\ lru[k] = lru'[i] /\ lru[l] = lru'[j]
                                           /\ lru[k] # agent /\ lru[l] # agent
          BY <5>1, StoreKeepsOrder
        <5> QED BY <3>3, <5>2
      <4>2. profiles[lru[k]].last_seen <= profiles[lru[l]].last_seen
        BY <4>1 DEF LastUseInv, LruOrderedByLastUse
      <4>3. profiles'[lru'[i]] = profiles[lru'[i]] /\ profiles'[lru'[j]] = profiles[lru'[j]]
        <5>1. profiles' = [a \in Agents |->
                             IF a \in Tracked'
                             THEN IF a = agent THEN q ELSE profiles[a]
                             ELSE NewProfile]
          BY <2>1 DEF Store
        <5> QED BY <3>1, <4>1, <5>1
      <4> QED BY <4>1, <4>2, <4>3
    <3> QED BY <3>2, <3>3
  <2> HIDE DEF agent, mono
  <2> QED BY <2>8, <2>9, <2>10 DEF LastUseInv
<1>5. CASE UNCHANGED vars
  BY <1>5 DEF vars, LastUseInv, LruOrderedByLastUse
<1> QED BY <1>2, <1>3, <1>4, <1>5 DEF Next

\* With one thread, the entry that is evicted next is the one used least
\* recently (behavior.py:88, 101), for every number of agents and every cap: a
\* reading of the clock that waits for the lock cannot be overtaken.  With more
\* threads it can.
THEOREM StoreOrderedByLastUse == OneThread /\ Spec => []LruOrderedByLastUse
<1> DEFINE Inv == TypeOK /\ StoreBounded /\ LastUseInv
<1>1. Init => Inv
  <2> SUFFICES ASSUME Init PROVE Inv
    OBVIOUS
  <2>1. LastUseInv
    BY DEF Init, LastUseInv, LruOrderedByLastUse, NewProfile, Returned, Kinds
  <2> QED BY <2>1, MonitorInit
<1>2. OneThread /\ Inv /\ [Next]_vars => Inv'
  BY MonitorStep, LastUseStep
<1>3. Inv => LruOrderedByLastUse
  BY DEF LastUseInv
<1> HIDE DEF Inv
<1>4. OneThread => (Spec => []LruOrderedByLastUse)
  <2> SUFFICES ASSUME OneThread PROVE Spec => []LruOrderedByLastUse
    OBVIOUS
  <2>1. Inv /\ [Next]_vars => Inv'
    BY <1>2
  <2> QED BY <1>1, <1>3, <2>1, PTL DEF Spec
<1> QED BY <1>4

-----------------------------------------------------------------------------
(* A store with room forgets nothing *)

\* The store has room for every agent, and no profile ever times out.
RoomToRemember ==
    /\ IsFiniteSet(Agents) /\ Cardinality(Agents) <= Config.max_agents
    /\ MaxClock <= Config.profile_ttl

\* A sequence without repetitions is no longer than its set.
LEMMA DistinctIsShort ==
    ASSUME NEW S, IsFiniteSet(S), NEW s \in Seq(S), Distinct(s)
    PROVE  Len(s) <= Cardinality(S)
<1>1. s \in Injection(1..Len(s), S)
  BY DEF Injection, IsInjective, Distinct
<1>2. Cardinality(1..Len(s)) <= Cardinality(S)
  BY <1>1, FS_Injection
<1> DEFINE n == Len(s)
<1>3. n \in Nat
  OBVIOUS
<1> HIDE DEF n
<1>4. Cardinality(1..n) = n
  BY <1>3, FS_Interval
<1> QED BY <1>2, <1>4 DEF n

\* Touching an entry keeps the others.
LEMMA TouchedKeeps ==
    ASSUME lru \in Seq(Agents), NEW agent \in Agents, NEW a \in Tracked
    PROVE  \E i \in 1..Len(Touched(agent)) : Touched(agent)[i] = a
<1>1. PICK k \in 1..Len(lru) : lru[k] = a
  BY DEF Tracked
<1>2. CASE agent \in Tracked
  <2> DEFINE p == IndexOf(agent)
             r == RemoveAt(lru, p)
  <2>1. p \in 1..Len(lru) /\ lru[p] = agent
    BY <1>2 DEF Tracked, IndexOf
  <2>2. /\ r \in Seq(Agents) /\ Len(r) = Len(lru) - 1
        /\ \A n \in 1..(Len(lru) - 1) : r[n] = IF n < p THEN lru[n] ELSE lru[n + 1]
    BY <2>1, RemoveAtFacts
  <2>3. Touched(agent) = Append(r, agent)
    BY <1>2 DEF Touched
  <2> HIDE DEF p, r
  <2>4. CASE k = p
    <3>1. Len(r) + 1 \in 1..Len(Touched(agent)) /\ Touched(agent)[Len(r) + 1] = agent
      BY <2>2, <2>3
    <3> QED BY <1>1, <2>1, <2>4, <3>1
  <2>5. CASE k # p
    <3> DEFINE i == IF k < p THEN k ELSE k - 1
    <3>1. i \in 1..Len(r) /\ r[i] = a
      BY <1>1, <2>1, <2>2, <2>5
    <3> HIDE DEF i
    <3>2. i \in 1..Len(Touched(agent)) /\ Touched(agent)[i] = a
      BY <2>2, <2>3, <3>1
    <3> QED BY <3>2
  <2> QED BY <2>4, <2>5
<1>3. CASE agent \notin Tracked
  <2>1. Touched(agent) = Append(lru, agent)
    BY <1>3 DEF Touched
  <2>2. k \in 1..Len(Touched(agent)) /\ Touched(agent)[k] = a
    BY <1>1, <2>1
  <2> QED BY <2>2
<1> QED BY <1>2, <1>3

\* With room in the store, an operation evicts no other agent.
LEMMA StoreKeepsOthers ==
    ASSUME TypeOK, StoreBounded, RoomToRemember, NEW agent \in Agents, NEW p,
           Store(agent, p), NEW a \in Agents
    PROVE  profiles'[a] = IF a = agent THEN p ELSE profiles[a]
<1> DEFINE s == Touched(agent)
<1>1. lru \in Seq(Agents) /\ Distinct(lru)
  BY DEF TypeOK, StoreBounded, Distinct
<1>2. /\ s \in Seq(Agents) /\ Distinct(s) /\ Len(s) >= 1 /\ s[Len(s)] = agent
  BY <1>1, TouchedFacts
<1>3. Len(s) <= Config.max_agents
  <2>1. Len(s) <= Cardinality(Agents) /\ Cardinality(Agents) \in Nat
    BY <1>2, DistinctIsShort, FS_CardinalityType DEF RoomToRemember
  <2> QED BY <1>2, <2>1, ConfigFacts DEF RoomToRemember
<1>4. lru' = SubSeq(s, 1, Len(s))
  BY <1>3, ConfigFacts DEF Store, Evict, Overflow
<1>5. \A i \in 1..Len(s) : i \in 1..Len(lru') /\ lru'[i] = s[i]
  BY <1>2, <1>4
<1>6. agent \in Tracked'
  BY <1>2, <1>5 DEF Tracked
<1>7. profiles'[a] = IF a \in Tracked' THEN IF a = agent THEN p ELSE profiles[a]
                                       ELSE NewProfile
  BY DEF Store
<1>8. CASE a \in Tracked
  <2>1. PICK i \in 1..Len(s) : s[i] = a
    BY <1>1, <1>8, TouchedKeeps
  <2>2. a \in Tracked'
    BY <1>5, <2>1 DEF Tracked
  <2> QED BY <1>7, <2>2
<1>9. CASE a \notin Tracked
  <2>1. profiles[a] = NewProfile
    BY <1>9 DEF StoreBounded
  <2> QED BY <1>6, <1>7, <2>1
<1> QED BY <1>8, <1>9

\* Appending to a deque never makes it shorter.
LEMMA PushLength ==
    ASSUME NEW S, NEW s \in Seq(S), NEW x \in S, NEW max \in Nat \ {0}, Len(s) <= max
    PROVE  Len(Push(s, x, max)) = Len(s) + 1 \/ (Len(Push(s, x, max)) = max /\ Len(s) = max)
<1>1. CASE Len(s) < max
  BY <1>1 DEF Push
<1>2. CASE Len(s) = max
  <2>1. Tail(s) \in Seq(S) /\ Len(Tail(s)) = max - 1
    BY <1>2
  <2> QED BY <1>2, <2>1 DEF Push
<1> QED BY <1>1, <1>2

\* With room to remember, what a locked section reads is the agent's own profile.
LEMMA FetchedRemembers ==
    ASSUME TypeOK, RoomToRemember, NEW agent \in Agents, NEW mono \in Times
    PROVE  LET p == Fetched(agent, mono)
           IN  /\ p \in Profile
               /\ p.block_times = profiles[agent].block_times
               /\ p.read_at = profiles[agent].read_at
<1> DEFINE seen == profiles[agent].last_seen
<1>1. profiles[agent] \in Profile
  BY DEF TypeOK
<1>2. mono \in 0..MaxClock /\ seen \in 0..MaxClock
  BY <1>1 DEF Times, Profile
<1>3. MaxClock \in Nat /\ Config.profile_ttl \in Int /\ MaxClock <= Config.profile_ttl
  BY BoundsAssumption, ConfigFacts DEF RoomToRemember
<1> HIDE DEF seen
<1>4. ~(mono - seen > Config.profile_ttl)
  BY <1>2, <1>3
<1>5. Fetched(agent, mono) = [profiles[agent] EXCEPT !.last_seen = mono]
  BY <1>4 DEF Fetched, seen
<1> QED BY <1>1, <1>5, FetchedType DEF Profile

\* No operation takes a block out of a history with room; record_block adds one.
LEMMA BlocksKept ==
    ASSUME TypeOK, StoreBounded, RoomToRemember, NEW t \in Threads, Locked(t),
           NEW a \in Agents
    PROVE  LET before == Len(profiles[a].block_times)
               after == Len(profiles'[a].block_times)
           IN  /\ after >= before
               /\ op[t].kind = "block" /\ op[t].agent = a =>
                    after = before + 1 \/ after = BlockTimesMax
<1> DEFINE o == op[t]
           p == Fetched(o.agent, o.mono)
           before == Len(profiles[a].block_times)
           after == Len(profiles'[a].block_times)
<1> SUFFICES /\ after >= before
             /\ o.kind = "block" /\ o.agent = a =>
                  after = before + 1 \/ after = BlockTimesMax
  OBVIOUS
<1>1. o.kind \in Kinds
  BY DEF Locked, Observe, RecordAllow, RecordQuarantined, RecordBlock, Kinds
<1>2. o.agent \in Agents /\ o.tool \in Tools /\ o.mono \in Times
  BY <1>1, BusyType
<1>3. /\ profiles[o.agent] \in Profile /\ profiles[a] \in Profile
      /\ Len(profiles[o.agent].block_times) <= BlockTimesMax
      /\ before \in Nat
  BY <1>2 DEF TypeOK, Profile
<1>4. p.block_times = profiles[o.agent].block_times /\ p \in Profile
  BY <1>2, FetchedRemembers
<1> HIDE DEF p
<1>5. ASSUME NEW q, Store(o.agent, q), q.block_times = p.block_times
      PROVE  after = before
  BY <1>2, <1>4, <1>5, StoreKeepsOthers
<1>6. CASE Observe(t)
  <2>1. PICK calls : Store(o.agent, [p EXCEPT !.call_times = calls])
    BY <1>6 DEF Observe, p
  <2>2. o.kind # "block"
    BY <1>6 DEF Observe
  <2>3. after = before
    BY <1>4, <1>5, <2>1 DEF Profile
  <2> QED BY <1>3, <2>2, <2>3
<1>7. CASE RecordAllow(t)
  <2> DEFINE calls == p.total_calls + 1
             seen == p.seen_tools \cup {o.tool}
  <2>1. PICK at : Store(o.agent, [p EXCEPT !.total_calls = calls, !.seen_tools = seen,
                                           !.read_at = at])
    BY <1>7 DEF RecordAllow, p
  <2>2. o.kind # "block"
    BY <1>7 DEF RecordAllow
  <2> HIDE DEF calls, seen
  <2>3. after = before
    BY <1>4, <1>5, <2>1 DEF Profile
  <2> QED BY <1>3, <2>2, <2>3
<1>8. CASE RecordQuarantined(t)
  <2>1. Store(o.agent, [p EXCEPT !.read_at = o.mono])
    BY <1>8 DEF RecordQuarantined, p
  <2>2. o.kind # "block"
    BY <1>8 DEF RecordQuarantined
  <2>3. after = before
    BY <1>4, <1>5, <2>1 DEF Profile
  <2> QED BY <1>3, <2>2, <2>3
<1>9. CASE RecordBlock(t)
  <2> DEFINE blocked == Push(p.block_times, o.mono, BlockTimesMax)
             q == [p EXCEPT !.block_times = blocked]
  <2>1. Store(o.agent, q)
    BY <1>9 DEF RecordBlock, p
  <2>2. /\ Len(blocked) = Len(p.block_times) + 1
           \/ (Len(blocked) = BlockTimesMax /\ Len(p.block_times) = BlockTimesMax)
        /\ Len(p.block_times) \in Nat
    <3> DEFINE b == p.block_times
    <3>1. b \in Seq(Times) /\ Len(b) <= BlockTimesMax /\ Len(b) \in Nat
      BY <1>3, <1>4 DEF Profile
    <3> HIDE DEF b
    <3> QED BY <1>2, <3>1, PushLength, BoundsAssumption DEF b
  <2> HIDE DEF blocked
  <2>3. q.block_times = blocked
    BY <1>4 DEF Profile
  <2> HIDE DEF q
  <2>4. profiles'[a] = IF a = o.agent THEN q ELSE profiles[a]
    BY <1>2, <2>1, StoreKeepsOthers
  <2> QED BY <1>3, <1>4, <2>2, <2>3, <2>4
<1> QED BY <1>6, <1>7, <1>8, <1>9 DEF Locked

-----------------------------------------------------------------------------
(* A sensitive read is remembered, and counts *)

\* The operations that note a sensitive read.
NotesRead(o) ==
    o.kind = "quarantined" \/ (o.kind = "allow" /\ o.tool \in SensitiveReads)

\* No operation forgets that an agent made a sensitive read, and the record of
\* one notes it.
LEMMA ReadKept ==
    ASSUME TypeOK, StoreBounded, RoomToRemember, NEW t \in Threads, Locked(t),
           NEW a \in Agents,
           \/ profiles[a].read_at # Never
           \/ op[t].agent = a /\ NotesRead(op[t])
    PROVE  profiles'[a].read_at # Never
<1> DEFINE o == op[t]
           p == Fetched(o.agent, o.mono)
<1>1. o.kind \in Kinds
  BY DEF Locked, Observe, RecordAllow, RecordQuarantined, RecordBlock, Kinds
<1>2. o.agent \in Agents /\ o.tool \in Tools /\ o.mono \in Times
  BY <1>1, BusyType
<1>3. p \in Profile /\ p.read_at = profiles[o.agent].read_at
  BY <1>2, FetchedRemembers
<1>4. o.mono # Never
  BY <1>2, BoundsAssumption DEF Times, Never
<1> HIDE DEF p
<1>5. ASSUME NEW q, Store(o.agent, q), o.agent = a => q.read_at # Never
      PROVE  profiles'[a].read_at # Never
  <2>1. profiles'[a] = IF a = o.agent THEN q ELSE profiles[a]
    BY <1>2, <1>5, StoreKeepsOthers
  <2> QED BY <1>5, <2>1
<1>6. CASE Observe(t)
  <2>1. PICK calls : Store(o.agent, [p EXCEPT !.call_times = calls])
    BY <1>6 DEF Observe, p
  <2>2. ~NotesRead(o)
    BY <1>6 DEF Observe, NotesRead
  <2>3. [p EXCEPT !.call_times = calls].read_at = p.read_at
    BY <1>3 DEF Profile
  <2> QED BY <1>3, <1>5, <2>1, <2>2, <2>3
<1>7. CASE RecordAllow(t)
  <2> DEFINE at == IF o.tool \in SensitiveReads THEN o.mono ELSE p.read_at
             calls == p.total_calls + 1
             seen == p.seen_tools \cup {o.tool}
             q == [p EXCEPT !.total_calls = calls, !.seen_tools = seen, !.read_at = at]
  <2>1. Store(o.agent, q) /\ o.kind = "allow"
    BY <1>7 DEF RecordAllow, p
  <2>2. o.agent = a => at # Never
    BY <1>3, <1>4, <2>1 DEF NotesRead
  <2> HIDE DEF at, calls, seen
  <2>3. q.read_at = at
    BY <1>3 DEF Profile
  <2> HIDE DEF q
  <2> QED BY <1>5, <2>1, <2>2, <2>3
<1>8. CASE RecordQuarantined(t)
  <2> DEFINE q == [p EXCEPT !.read_at = o.mono]
  <2>1. Store(o.agent, q)
    BY <1>8 DEF RecordQuarantined, p
  <2>2. q.read_at = o.mono
    BY <1>3 DEF Profile
  <2> HIDE DEF q
  <2> QED BY <1>4, <1>5, <2>1, <2>2
<1>9. CASE RecordBlock(t)
  <2>1. PICK blocks : Store(o.agent, [p EXCEPT !.block_times = blocks])
    BY <1>9 DEF RecordBlock, p
  <2>2. ~NotesRead(o)
    BY <1>9 DEF RecordBlock, NotesRead
  <2>3. [p EXCEPT !.block_times = blocks].read_at = p.read_at
    BY <1>3 DEF Profile
  <2> QED BY <1>3, <1>5, <2>1, <2>2, <2>3
<1> QED BY <1>6, <1>7, <1>8, <1>9 DEF Locked

\* A product grows with each of its factors.
LEMMA ProductGrows ==
    ASSUME NEW a \in Nat, NEW b \in Nat, NEW c \in Nat, NEW d \in Nat, a <= b, c <= d
    PROVE  a * c <= b * d
<1>1. a * c <= b * c
  OBVIOUS
<1>2. b * c <= b * d
  OBVIOUS
<1> QED BY <1>1, <1>2

\* Risky egress within the window of a sensitive read keeps 30% at most, whatever
\* the other signals say.
LEMMA SequenceScore ==
    ASSUME NEW p \in Profile, NEW mono \in Times, NEW tool, p.read_at # Never,
           mono - p.read_at <= Config.sensitive_read_window
    PROVE  100 * Score(p, mono, tool, TRUE) <= 30 * Scale
<1> DEFINE attempts == Recent(p.call_times, mono, Config.rate_window)
           blocks == Recent(p.block_times, mono, Config.block_window)
           limit == Config.rate_limit
           rate == RateKeep(attempts)
           base == BaselineKeep(p, tool)
           block == BlocksKeep(blocks)
<1>1. attempts \in Nat /\ limit \in Nat \ {0}
  <2>1. Config.rate_window \in Int
    BY ConfigIsValid DEF Validate
  <2>2. p.call_times \in Seq(Times)
    BY DEF Profile
  <2> QED BY <2>1, <2>2, RecentType, ConfigFacts
<1> HIDE DEF attempts, blocks
<1>2. rate \in Nat /\ rate <= 20 * limit
  BY <1>1 DEF RateKeep
<1>3. base \in Nat /\ base <= 20
  BY DEF BaselineKeep
<1>4. block \in Nat /\ block <= 20
  BY DEF BlocksKeep
<1>5. SequenceKeep(p, mono, TRUE) = 6
  BY DEF SequenceKeep
<1>6. Score(p, mono, tool, TRUE) = rate * base * 6 * block
  BY <1>5 DEF Score, attempts, blocks
<1>7. Scale = 20 * 20 * 20 * (20 * limit)
  BY DEF Scale
<1> HIDE DEF rate, base, block, limit
<1>8. rate * base <= (20 * limit) * 20 /\ rate * base \in Nat
  BY <1>1, <1>2, <1>3, ProductGrows, NatProduct
<1>9. rate * base * 6 <= (20 * limit) * 20 * 6 /\ rate * base * 6 \in Nat
  BY <1>1, <1>8
<1>10. (rate * base * 6) * block <= ((20 * limit) * 20 * 6) * 20
  <2> DEFINE x == rate * base * 6
             y == (20 * limit) * 20 * 6
  <2>1. x \in Nat /\ y \in Nat /\ x <= y
    BY <1>1, <1>9
  <2> HIDE DEF x, y
  <2>2. x * block <= y * 20
    BY <1>4, <2>1, ProductGrows
  <2> QED BY <2>2 DEF x, y
<1>11. rate * base * 6 * block \in Nat
  BY <1>4, <1>9, NatProduct
<1> DEFINE score == rate * base * 6 * block
<1>12. score \in Nat /\ score <= ((20 * limit) * 20 * 6) * 20
  BY <1>10, <1>11
<1> HIDE DEF score
<1>13. 100 * score <= 30 * (20 * 20 * 20 * (20 * limit))
  BY <1>1, <1>12
<1> QED BY <1>6, <1>7, <1>13 DEF score

\* An attempt at risky egress by an agent that made a sensitive read scores so.
LEMMA RiskyAttemptScore ==
    ASSUME TypeOK, RoomToRemember, MaxClock <= Config.sensitive_read_window,
           NEW t \in Threads, Observe(t), op[t].risky, profiles[op[t].agent].read_at # Never
    PROVE  op'[t].kind = "idle" /\ 100 * op'[t].keep <= 30 * Scale
<1> DEFINE o == op[t]
           p == Fetched(o.agent, o.mono)
           calls == Push(p.call_times, o.mono, CallTimesMax)
           q == [p EXCEPT !.call_times = calls]
           keep == Score(q, o.mono, o.tool, o.risky)
<1>1. o.kind = "observe" /\ Finish(t, keep)
  BY DEF Observe
<1>2. o.agent \in Agents /\ o.tool \in Tools /\ o.mono \in Times
  BY <1>1, BusyType DEF Kinds
<1>3. p \in Profile /\ p.read_at = profiles[o.agent].read_at
  BY <1>2, FetchedRemembers
<1>4. Len(p.call_times) <= CallTimesMax
  BY <1>2, FetchedType
<1> HIDE DEF p
<1>5. calls \in Seq(Times)
  BY <1>2, <1>3, <1>4, PushType, BoundsAssumption DEF Profile
<1>6. q \in Profile /\ q.read_at # Never
  BY <1>3, <1>5 DEF Profile
<1> HIDE DEF q
<1>7. o.mono - q.read_at <= Config.sensitive_read_window
  <2>1. q.read_at \in 0..MaxClock /\ o.mono \in 0..MaxClock
    BY <1>2, <1>6 DEF Profile, Times
  <2>2. Config.sensitive_read_window \in Int /\ MaxClock \in Nat
    BY ConfigIsValid, BoundsAssumption DEF Validate
  <2> HIDE DEF o
  <2> QED BY <2>1, <2>2
<1>8. o.risky = TRUE
  <2>1. o.risky \in BOOLEAN
    BY <1>1 DEF TypeOK, Op
  <2> QED BY <2>1
<1>9. 100 * keep <= 30 * Scale
  <2> HIDE DEF o
  <2> QED BY <1>2, <1>6, <1>7, <1>8, SequenceScore
<1>10. op'[t] = Returned(keep)
  BY <1>1 DEF Finish, TypeOK
<1> HIDE DEF keep, o, calls
<1>11. op'[t].kind = "idle" /\ op'[t].keep = keep
  BY <1>10 DEF Returned
<1> QED BY <1>9, <1>11
=============================================================================
