------------------------ MODULE BehaviorHistoryProofs ------------------------
(***************************************************************************)
(* The scores of the bounded monitor against the history that forgets       *)
(* nothing, for every configuration, number of agents, clock and length of  *)
(* behaviour, and where it matters for every number of threads.             *)
(***************************************************************************)
EXTENDS BehaviorHistory, BehaviorMonitorProofs

-----------------------------------------------------------------------------
(* What a deque keeps of a history *)

LastOf(h, max) == IF Len(h) <= max THEN h ELSE SubSeq(h, Len(h) - max + 1, Len(h))

\* The entries after entry i that were read from the clock before it.
Late(h, i) == {j \in (i + 1)..Len(h) : h[j] < h[i]}

LEMMA LastOfFacts ==
    ASSUME NEW S, NEW h \in Seq(S), NEW max \in Nat \ {0}
    PROVE  /\ LastOf(h, max) \in Seq(S)
           /\ Len(h) <= max => LastOf(h, max) = h
           /\ Len(h) > max =>
                /\ Len(LastOf(h, max)) = max
                /\ \A i \in 1..max : LastOf(h, max)[i] = h[i + (Len(h) - max)]
<1> DEFINE n == Len(h)
           m == n - max + 1
<1>1. n \in Nat
  OBVIOUS
<1>2. CASE n <= max
  BY <1>1, <1>2 DEF LastOf
<1>3. CASE n > max
  <2>1. m \in 1..(n + 1) /\ n - m + 1 = max /\ \A i \in 1..max : m + i - 1 = i + (n - max)
    BY <1>1, <1>3
  <2>2. LastOf(h, max) = SubSeq(h, m, n)
    BY <1>1, <1>3 DEF LastOf
  <2>3. /\ SubSeq(h, m, n) \in Seq(S)
        /\ Len(SubSeq(h, m, n)) = n - m + 1
        /\ \A i \in 1..(n - m + 1) : SubSeq(h, m, n)[i] = h[m + i - 1]
    BY <1>1, <2>1, SubSeqProperties
  <2> QED BY <1>1, <1>3, <2>1, <2>2, <2>3
<1> QED BY <1>1, <1>2, <1>3

\* A deque keeps the last entries, whenever they come.
LEMMA PushKeepsLast ==
    ASSUME NEW S, NEW h \in Seq(S), NEW x \in S, NEW max \in Nat \ {0}
    PROVE  Push(LastOf(h, max), x, max) = LastOf(Append(h, x), max)
<1> DEFINE n == Len(h)
           g == Append(h, x)
           r == LastOf(h, max)
           s == LastOf(g, max)
<1>1. /\ n \in Nat /\ g \in Seq(S) /\ Len(g) = n + 1
      /\ \A i \in 1..n : g[i] = h[i]
      /\ g[n + 1] = x
  OBVIOUS
<1>2. /\ r \in Seq(S)
      /\ n <= max => r = h
      /\ n > max => Len(r) = max /\ \A i \in 1..max : r[i] = h[i + (n - max)]
  BY LastOfFacts
<1> HIDE DEF g
<1>3. /\ s \in Seq(S)
      /\ Len(g) <= max => s = g
      /\ Len(g) > max =>
           Len(s) = max /\ \A i \in 1..max : s[i] = g[i + (Len(g) - max)]
  BY ONLY <1>1, LastOfFacts, max \in Nat \ {0}
<1>4. max \in Nat /\ max >= 1
  OBVIOUS
<1>5. CASE n < max
  <2> HIDE DEF r, s, n
  <2>1. n <= max /\ Len(g) <= max
    BY ONLY <1>1, <1>4, <1>5
  <2>2. r = h /\ s = g
    BY ONLY <1>2, <1>3, <2>1
  <2>3. Push(r, x, max) = Append(r, x)
    BY ONLY <1>5, <2>2 DEF Push, n
  <2> QED BY ONLY <2>2, <2>3 DEF g, r, s
<1>6. CASE n >= max
  <2> HIDE DEF r, s, n
  <2>1. Len(r) = max /\ \A i \in 1..max : r[i] = h[i + (n - max)]
    <3>1. CASE n = max
      <4>1. r = h /\ Len(r) = max
        BY ONLY <1>1, <1>2, <3>1 DEF n
      <4>2. \A i \in 1..max : i + (n - max) = i
        BY ONLY <1>1, <1>4, <3>1
      <4> QED BY ONLY <4>1, <4>2
    <3>2. CASE n > max
      BY ONLY <1>2, <3>2
    <3> QED BY ONLY <1>1, <1>4, <1>6, <3>1, <3>2
  <2>2. Push(r, x, max) = Append(Tail(r), x)
    BY <1>4, <2>1 DEF Push
  <2> DEFINE t == Tail(r)
  <2>3. t \in Seq(S) /\ Len(t) = max - 1 /\ \A i \in 1..(max - 1) : t[i] = r[i + 1]
    <3>1. r # <<>>
      BY <1>4, <2>1
    <3>2. /\ t \in Seq(S) /\ Len(t) = Len(r) - 1
          /\ \A i \in 1..(Len(r) - 1) : t[i] = r[i + 1]
      BY ONLY <1>2, <3>1, HeadTailProperties
    <3> QED BY ONLY <2>1, <3>2
  <2> HIDE DEF t
  <2>4. /\ Append(t, x) \in Seq(S) /\ Len(Append(t, x)) = max
        /\ \A i \in 1..(max - 1) : Append(t, x)[i] = t[i]
        /\ Append(t, x)[max] = x
    BY ONLY <1>4, <2>3, AppendProperties, x \in S
  <2>5. Len(s) = max /\ \A i \in 1..max : s[i] = g[i + (Len(g) - max)]
    <3>1. Len(g) > max
      BY ONLY <1>1, <1>4, <1>6
    <3> QED BY ONLY <1>3, <3>1
  <2>6. ASSUME NEW i \in 1..max
        PROVE  Append(t, x)[i] = s[i]
    <3>1. s[i] = g[i + (Len(g) - max)]
      BY ONLY <2>5, <2>6
    <3>2. CASE i = max
      <4>1. i + (Len(g) - max) = n + 1
        BY ONLY <1>1, <1>4, <3>2
      <4> QED BY ONLY <1>1, <2>4, <3>1, <3>2, <4>1
    <3>3. CASE i < max
      <4>1. /\ i \in 1..(max - 1) /\ i + 1 \in 1..max
            /\ i + (Len(g) - max) \in 1..n
            /\ (i + 1) + (n - max) = i + (Len(g) - max)
        BY ONLY <1>1, <1>4, <1>6, <2>6, <3>3
      <4>2. Append(t, x)[i] = r[i + 1]
        BY ONLY <2>3, <2>4, <4>1
      <4>3. r[i + 1] = h[(i + 1) + (n - max)]
        BY ONLY <2>1, <4>1
      <4> QED BY ONLY <1>1, <3>1, <4>1, <4>2, <4>3
    <3>4. i = max \/ i < max
      BY ONLY <1>4, <2>6
    <3> QED BY ONLY <3>2, <3>3, <3>4
  <2>7. Append(t, x) = s
    BY ONLY <1>3, <2>4, <2>5, <2>6, SeqEqual
  <2> QED BY ONLY <2>2, <2>7 DEF t, s, r, g
<1> QED BY ONLY <1>1, <1>4, <1>5, <1>6

\* Shifting indexes is one to one.
LEMMA ShiftedCount ==
    ASSUME NEW A, NEW B, IsFiniteSet(B), NEW d \in Int, A \subseteq Int,
           \A i \in A : i + d \in B
    PROVE  IsFiniteSet(A) /\ Cardinality(A) <= Cardinality(B)
<1> DEFINE f == [i \in A |-> i + d]
<1>1. f \in [A -> B] /\ \A i, j \in A : f[i] = f[j] => i = j
  OBVIOUS
<1>2. f \in Injection(A, B)
  BY <1>1 DEF Injection, IsInjective
<1> QED BY <1>2, FS_Injection

\* If all but max entries of a history are dropped, as many as before are within
\* the window, or nearly max of them: those of the last max entries that are not
\* within it came late, after an older entry that is.
LEMMA RecentSurvives ==
    ASSUME NEW h \in Seq(Times), NEW mono \in Times, NEW window \in Int,
           NEW max \in Nat \ {0}, NEW N \in Nat,
           \A i \in 1..Len(h) : Cardinality(Late(h, i)) <= N
    PROVE  LET all == Recent(h, mono, window)
               kept == Recent(LastOf(h, max), mono, window)
           IN  /\ all \in Nat /\ kept \in Nat
               /\ kept <= all
               /\ kept = all \/ kept >= max - N
<1> DEFINE n == Len(h)
           d == n - max
           r == LastOf(h, max)
           within(t) == mono - t <= window
           I == {i \in 1..n : within(h[i])}
           K == {i \in 1..max : within(r[i])}
<1>1. /\ n \in Nat /\ max \in Nat /\ max >= 1 /\ d \in Int
      /\ \A i \in 1..n : h[i] \in Int
      /\ mono \in Int
  <2>1. \A x \in Times : x \in Int
    BY BoundsAssumption DEF Times
  <2>2. \A i \in 1..n : h[i] \in Times
    OBVIOUS
  <2> QED BY <2>1, <2>2
<1>2. Recent(h, mono, window) \in Nat /\ Recent(r, mono, window) \in Nat
  BY LastOfFacts, RecentType
<1>3. CASE n <= max
  <2>1. r = h
    BY <1>3, LastOfFacts
  <2> HIDE DEF r
  <2>2. Recent(h, mono, window) <= Recent(h, mono, window)
    BY ONLY <1>2
  <2> QED BY ONLY <1>2, <2>1, <2>2 DEF r
<1>4. CASE n > max
  <2>1. Len(r) = max /\ \A i \in 1..max : r[i] = h[i + d]
    BY <1>4, LastOfFacts
  <2>2. Recent(h, mono, window) = Cardinality(I)
    BY DEF Recent
  <2>3. Recent(r, mono, window) = Cardinality(K)
    BY <2>1 DEF Recent
  <2> HIDE DEF r
  <2>4. \A i \in 1..max : i + d \in 1..n /\ i + d > d
    BY ONLY <1>1, <1>4
  <2>5. IsFiniteSet(I) /\ IsFiniteSet(1..max)
    <3>1. IsFiniteSet(1..n)
      BY ONLY <1>1, FS_Interval
    <3>2. I \in SUBSET (1..n)
      OBVIOUS
    <3>3. IsFiniteSet(1..max)
      BY ONLY <1>1, FS_Interval
    <3> HIDE DEF I
    <3> QED BY ONLY <3>1, <3>2, <3>3, FS_Subset
  <2>6. Cardinality(K) <= Cardinality(I)
    <3>1. K \subseteq Int /\ \A i \in K : i + d \in I
      BY ONLY <2>1, <2>4
    <3> HIDE DEF K, I, d
    <3> QED BY ONLY <1>1, <2>5, <3>1, ShiftedCount
  <2>7. CASE \A e \in I : e > d
    <3>1. I \subseteq Int /\ \A i \in I : i + (-d) \in K
      <4>1. ASSUME NEW i \in I
            PROVE  i \in Int /\ i + (-d) \in K
        <5>1. i \in Int /\ i >= 1 /\ i <= n /\ i > d /\ within(h[i])
          BY ONLY <1>1, <2>7, <4>1
        <5>2. i + (-d) \in 1..max /\ (i + (-d)) + d = i
          BY ONLY <1>1, <1>4, <5>1
        <5> QED BY ONLY <2>1, <5>1, <5>2
      <4> QED BY ONLY <4>1
    <3>2. IsFiniteSet(K)
      <4>1. K \in SUBSET (1..max)
        OBVIOUS
      <4> HIDE DEF K
      <4> QED BY ONLY <2>5, <4>1, FS_Subset
    <3>3. Cardinality(I) <= Cardinality(K)
      <4>1. -d \in Int
        BY ONLY <1>1
      <4> HIDE DEF K, I, d
      <4> QED BY ONLY <3>1, <3>2, <4>1, ShiftedCount
    <3> HIDE DEF K, I
    <3> QED BY ONLY <1>2, <2>2, <2>3, <2>6, <3>3 DEF r
  <2>8. CASE \E e \in I : e <= d
    <3>1. PICK e \in I : e <= d
      BY ONLY <2>8
    <3> DEFINE rest == (1..max) \ K
    <3>2. rest \subseteq Int /\ \A j \in rest : j + d \in Late(h, e)
      <4>1. ASSUME NEW j \in rest
            PROVE  j \in Int /\ j + d \in Late(h, e)
        <5>1. /\ j \in 1..max /\ j \in Int /\ j + d \in 1..n
              /\ e \in 1..n /\ e \in Int /\ e + 1 <= j + d
          BY ONLY <1>1, <1>4, <2>4, <3>1, <4>1
        <5>2. ~within(h[j + d])
          BY ONLY <2>1, <4>1, <5>1
        <5>3. within(h[e])
          BY ONLY <3>1
        <5>4. h[j + d] \in Int /\ h[e] \in Int
          BY ONLY <1>1, <5>1
        <5>5. h[j + d] < h[e]
          BY ONLY <1>1, <5>2, <5>3, <5>4, window \in Int
        <5>6. j + d \in (e + 1)..Len(h)
          BY ONLY <1>1, <5>1
        <5> QED BY ONLY <5>1, <5>5, <5>6 DEF Late
      <4> QED BY ONLY <4>1
    <3>3. IsFiniteSet(Late(h, e)) /\ Cardinality(Late(h, e)) <= N
      <4>1. e \in 1..Len(h) /\ e \in Int
        BY ONLY <1>1, <3>1
      <4>2. IsFiniteSet((e + 1)..Len(h))
        BY ONLY <1>1, <4>1, FS_Interval
      <4>3. Late(h, e) \in SUBSET ((e + 1)..Len(h))
        BY DEF Late
      <4> QED BY <4>1, <4>2, <4>3, FS_Subset
    <3> HIDE DEF d
    <3>4. Cardinality(rest) <= Cardinality(Late(h, e)) /\ IsFiniteSet(rest)
      <4> HIDE DEF rest
      <4> QED BY ONLY <1>1, <3>2, <3>3, ShiftedCount
    <3>5. Cardinality(rest) = max - Cardinality(K)
      <4>1. (1..max) \cap K = K
        OBVIOUS
      <4> HIDE DEF K
      <4>2. Cardinality(1..max) = max
        BY ONLY <1>1, FS_Interval
      <4>3. Cardinality(rest) = Cardinality(1..max) - Cardinality((1..max) \cap K)
        BY ONLY <2>5, FS_Difference
      <4> QED BY ONLY <4>1, <4>2, <4>3
    <3>6. Cardinality(Late(h, e)) \in Nat /\ Cardinality(rest) \in Nat
      <4> HIDE DEF rest
      <4> QED BY ONLY <3>3, <3>4, FS_CardinalityType
    <3> HIDE DEF K, I, rest
    <3> QED BY ONLY <1>1, <1>2, <2>2, <2>3, <2>6, <3>3, <3>4, <3>5, <3>6, N \in Nat DEF r
  <2>9. (\A e \in I : e > d) \/ (\E e \in I : e <= d)
    <3>1. \A e \in I : e \in Int
      BY ONLY <1>1
    <3> HIDE DEF I, d
    <3> QED BY ONLY <1>1, <3>1
  <2> QED BY ONLY <2>7, <2>8, <2>9
<1>5. n <= max \/ n > max
  BY ONLY <1>1
<1> QED BY ONLY <1>3, <1>4, <1>5

-----------------------------------------------------------------------------
(* The order in which clock readings reach the lock *)

\* Operations under way, of those in ops, that read the clock before x.
Waiting(ops, x) == {t \in Threads : ops[t].kind \in Kinds /\ ops[t].mono < x}

\* Only an operation that was under way when an entry was read can come after it
\* with an older reading.
Orderly(ops, h) ==
    \A i \in 1..Len(h) :
        Cardinality(Late(h, i)) + Cardinality(Waiting(ops, h[i])) < Cardinality(Threads)

LEMMA WaitingFacts ==
    ASSUME IsFiniteSet(Threads), NEW ops, NEW x
    PROVE  /\ IsFiniteSet(Waiting(ops, x)) /\ Cardinality(Waiting(ops, x)) \in Nat
           /\ Cardinality(Threads) \in Nat
<1>1. Waiting(ops, x) \in SUBSET Threads
  BY DEF Waiting
<1> QED BY <1>1, FS_Subset, FS_CardinalityType

LEMMA LateFacts ==
    ASSUME NEW h \in Seq(Times), NEW i \in 1..Len(h)
    PROVE  IsFiniteSet(Late(h, i)) /\ Cardinality(Late(h, i)) \in Nat
<1>1. IsFiniteSet((i + 1)..Len(h))
  BY FS_Interval
<1>2. Late(h, i) \in SUBSET ((i + 1)..Len(h))
  BY DEF Late
<1> QED BY <1>1, <1>2, FS_Subset, FS_CardinalityType

\* No more operations of new than of ops are older than an entry of h.
NoneOlder(ops, new, h) ==
    \A u \in Threads, i \in 1..Len(h) :
        new[u].kind \in Kinds /\ new[u].mono < h[i]
            => ops[u].kind \in Kinds /\ ops[u].mono < h[i]

LEMMA OrderlyStays ==
    ASSUME IsFiniteSet(Threads), NEW ops, NEW new, NEW h \in Seq(Times),
           Orderly(ops, h), NoneOlder(ops, new, h)
    PROVE  Orderly(new, h)
<1> SUFFICES ASSUME NEW i \in 1..Len(h)
             PROVE  Cardinality(Late(h, i)) + Cardinality(Waiting(new, h[i]))
                      < Cardinality(Threads)
  BY DEF Orderly
<1>1. Waiting(new, h[i]) \in SUBSET Waiting(ops, h[i])
  BY DEF Waiting, NoneOlder
<1>2. Cardinality(Waiting(new, h[i])) <= Cardinality(Waiting(ops, h[i]))
  BY <1>1, WaitingFacts, FS_Subset
<1>3. Cardinality(Late(h, i)) + Cardinality(Waiting(ops, h[i])) < Cardinality(Threads)
  BY DEF Orderly
<1>4. /\ Cardinality(Late(h, i)) \in Nat
      /\ Cardinality(Waiting(new, h[i])) \in Nat
      /\ Cardinality(Waiting(ops, h[i])) \in Nat
      /\ Cardinality(Threads) \in Nat
  BY WaitingFacts, LateFacts
<1> QED BY ONLY <1>2, <1>3, <1>4

\* An operation that ends may come late after an entry, and waits no more.
LEMMA OrderlyGrows ==
    ASSUME IsFiniteSet(Threads), NEW ops, NEW new, NEW h \in Seq(Times),
           NEW x \in Times, NEW t \in Threads, Orderly(ops, h),
           ops[t].kind \in Kinds, ops[t].mono = x, new[t].kind \notin Kinds,
           \A u \in Threads \ {t} : new[u] = ops[u]
    PROVE  Orderly(new, Append(h, x))
<1> DEFINE g == Append(h, x)
           n == Len(h)
<1>1. /\ n \in Nat /\ g \in Seq(Times) /\ Len(g) = n + 1
      /\ \A j \in 1..n : g[j] = h[j]
      /\ g[n + 1] = x
  OBVIOUS
<1> HIDE DEF g
<1>2. ASSUME NEW y
      PROVE  /\ Waiting(new, y) = Waiting(ops, y) \ {t}
             /\ x < y => t \in Waiting(ops, y)
  BY DEF Waiting
<1> SUFFICES ASSUME NEW i \in 1..Len(g)
             PROVE  Cardinality(Late(g, i)) + Cardinality(Waiting(new, g[i]))
                      < Cardinality(Threads)
  BY DEF Orderly, g
<1>3. Cardinality(Threads) \in Nat /\ i \in Int
  BY WaitingFacts, <1>1
<1>4. CASE i = n + 1
  <2>1. Late(g, i) = {}
    BY <1>1, <1>4 DEF Late
  <2>2. Waiting(new, g[i]) \in SUBSET (Threads \ {t})
    BY <1>2 DEF Waiting
  <2>3. IsFiniteSet(Threads \ {t}) /\ Cardinality(Threads \ {t}) = Cardinality(Threads) - 1
    BY FS_RemoveElement
  <2>4. Cardinality(Waiting(new, g[i])) <= Cardinality(Threads) - 1
    BY <2>2, <2>3, FS_Subset
  <2>5. Cardinality(Waiting(new, g[i])) \in Nat /\ Cardinality(Late(g, i)) = 0
    BY <2>1, WaitingFacts, FS_EmptySet
  <2> QED BY ONLY <1>3, <2>4, <2>5
<1>5. CASE i \in 1..n
  <2>1. /\ Cardinality(Late(h, i)) + Cardinality(Waiting(ops, h[i])) < Cardinality(Threads)
        /\ Cardinality(Late(h, i)) \in Nat /\ IsFiniteSet(Late(h, i))
        /\ Cardinality(Waiting(ops, h[i])) \in Nat /\ IsFiniteSet(Waiting(ops, h[i]))
    BY <1>5, LateFacts, WaitingFacts DEF Orderly
  <2>2. g[i] = h[i]
    BY <1>1, <1>5
  <2>3. Cardinality(Waiting(new, g[i])) =
          IF t \in Waiting(ops, h[i]) THEN Cardinality(Waiting(ops, h[i])) - 1
                                      ELSE Cardinality(Waiting(ops, h[i]))
    <3> DEFINE W == Waiting(ops, h[i])
    <3>1. Waiting(new, g[i]) = W \ {t}
      BY <1>2, <2>2
    <3>2. IsFiniteSet(W)
      BY <2>1
    <3> HIDE DEF W
    <3>3. Cardinality(W \ {t}) = IF t \in W THEN Cardinality(W) - 1 ELSE Cardinality(W)
      BY ONLY <3>2, FS_RemoveElement
    <3> QED BY ONLY <3>1, <3>3 DEF W
  <2>4. n + 1 \notin Late(h, i)
    BY <1>1 DEF Late
  <2>5. CASE x < h[i]
    <3>1. Late(g, i) = Late(h, i) \cup {n + 1}
      <4>1. ASSUME NEW j
            PROVE  j \in Late(g, i) <=> j \in Late(h, i) \cup {n + 1}
        <5>1. j \in (i + 1)..(n + 1) <=> j \in (i + 1)..n \/ j = n + 1
          BY <1>1, <1>5
        <5>2. j \in (i + 1)..n => j \in 1..n
          BY <1>1, <1>5
        <5> QED BY <1>1, <2>2, <2>5, <5>1, <5>2 DEF Late
      <4> QED BY <4>1
    <3>2. Cardinality(Late(g, i)) = Cardinality(Late(h, i)) + 1
      BY <2>1, <2>4, <3>1, FS_AddElement
    <3>3. t \in Waiting(ops, h[i])
      BY <1>2, <2>5
    <3> QED BY ONLY <1>3, <2>1, <2>3, <3>2, <3>3
  <2>6. CASE ~(x < h[i])
    <3>1. Late(g, i) = Late(h, i)
      <4>1. ASSUME NEW j
            PROVE  j \in Late(g, i) <=> j \in Late(h, i)
        <5>1. j \in (i + 1)..(n + 1) <=> j \in (i + 1)..n \/ j = n + 1
          BY <1>1, <1>5
        <5>2. j \in (i + 1)..n => j \in 1..n
          BY <1>1, <1>5
        <5> QED BY <1>1, <2>2, <2>6, <5>1, <5>2 DEF Late
      <4> QED BY <4>1
    <3> QED BY ONLY <1>3, <2>1, <2>3, <3>1
  <2> QED BY ONLY <2>5, <2>6
<1> QED BY <1>1, <1>4, <1>5

-----------------------------------------------------------------------------
(* What a locked section writes *)

\* The profile p after operation o.
Written(p, o) ==
    CASE o.kind = "observe" ->
           [p EXCEPT !.call_times = Push(p.call_times, o.mono, CallTimesMax)]
      [] o.kind = "block" ->
           [p EXCEPT !.block_times = Push(p.block_times, o.mono, BlockTimesMax)]
      [] o.kind = "quarantined" -> [p EXCEPT !.read_at = o.mono]
      [] o.kind = "allow" ->
           [p EXCEPT !.total_calls = p.total_calls + 1,
                     !.seen_tools = p.seen_tools \cup {o.tool},
                     !.read_at = IF o.tool \in SensitiveReads THEN o.mono ELSE p.read_at]

LEMMA LockedWrites ==
    ASSUME NEW t \in Threads, Locked(t)
    PROVE  LET o == op[t]
               q == Written(Fetched(o.agent, o.mono), o)
           IN  /\ o.kind \in Kinds
               /\ Store(o.agent, q)
               /\ \E keep : /\ Finish(t, keep)
                            /\ o.kind = "observe" =>
                                 keep = Score(q, o.mono, o.tool, o.risky)
<1> DEFINE o == op[t]
           p == Fetched(o.agent, o.mono)
           q == Written(p, o)
<1>1. CASE Observe(t)
  <2>1. o.kind = "observe"
    BY <1>1 DEF Observe
  <2>2. q = [p EXCEPT !.call_times = Push(p.call_times, o.mono, CallTimesMax)]
    BY <2>1 DEF Written
  <2>3. Store(o.agent, q) /\ Finish(t, Score(q, o.mono, o.tool, o.risky))
    BY <1>1, <2>2 DEF Observe
  <2> HIDE DEF q, p
  <2> QED BY <2>1, <2>3 DEF Kinds, q, p
<1>2. CASE RecordAllow(t)
  <2>1. o.kind = "allow"
    BY <1>2 DEF RecordAllow
  <2>2. q = [p EXCEPT !.total_calls = p.total_calls + 1,
                      !.seen_tools = p.seen_tools \cup {o.tool},
                      !.read_at = IF o.tool \in SensitiveReads THEN o.mono ELSE p.read_at]
    BY <2>1 DEF Written
  <2>3. Store(o.agent, q) /\ Finish(t, Scale)
    BY <1>2, <2>2 DEF RecordAllow
  <2> HIDE DEF q, p
  <2> QED BY <2>1, <2>3 DEF Kinds, q, p
<1>3. CASE RecordQuarantined(t)
  <2>1. o.kind = "quarantined"
    BY <1>3 DEF RecordQuarantined
  <2>2. q = [p EXCEPT !.read_at = o.mono]
    BY <2>1 DEF Written
  <2>3. Store(o.agent, q) /\ Finish(t, Scale)
    BY <1>3, <2>2 DEF RecordQuarantined
  <2> HIDE DEF q, p
  <2> QED BY <2>1, <2>3 DEF Kinds, q, p
<1>4. CASE RecordBlock(t)
  <2>1. o.kind = "block"
    BY <1>4 DEF RecordBlock
  <2>2. q = [p EXCEPT !.block_times = Push(p.block_times, o.mono, BlockTimesMax)]
    BY <2>1 DEF Written
  <2>3. Store(o.agent, q) /\ Finish(t, Scale)
    BY <1>4, <2>2 DEF RecordBlock
  <2> HIDE DEF q, p
  <2> QED BY <2>1, <2>3 DEF Kinds, q, p
<1> QED BY <1>1, <1>2, <1>3, <1>4 DEF Locked

\* An operation as it waits for the lock.
Pending == [kind : Kinds, agent : Agents, tool : Tools, risky : BOOLEAN, mono : Times]

LEMMA WrittenType ==
    ASSUME NEW p \in Profile, NEW o \in Pending, Len(p.call_times) <= CallTimesMax,
           Len(p.block_times) <= BlockTimesMax
    PROVE  LET q == Written(p, o)
           IN  /\ q \in Profile /\ q.last_seen = p.last_seen
               /\ p.total_calls <= q.total_calls /\ p.seen_tools \subseteq q.seen_tools
               /\ Len(q.call_times) <= CallTimesMax /\ Len(q.block_times) <= BlockTimesMax
<1> DEFINE calls == Push(p.call_times, o.mono, CallTimesMax)
           blocks == Push(p.block_times, o.mono, BlockTimesMax)
           readAt == IF o.tool \in SensitiveReads THEN o.mono ELSE p.read_at
<1>1. o.tool \in Tools /\ o.mono \in Times /\ o.kind \in Kinds
  BY DEF Pending
<1>2. calls \in Seq(Times) /\ Len(calls) <= CallTimesMax
  BY <1>1, PushType, BoundsAssumption DEF Profile
<1>3. blocks \in Seq(Times) /\ Len(blocks) <= BlockTimesMax
  BY <1>1, PushType, BoundsAssumption DEF Profile
<1>4. /\ readAt \in Times \cup {Never} /\ p.total_calls \in Nat /\ p.seen_tools \subseteq Tools
      /\ p.total_calls <= p.total_calls /\ p.total_calls <= p.total_calls + 1
  BY <1>1 DEF Profile
<1> DEFINE q == Written(p, o)
<1> HIDE DEF calls, blocks, readAt, q
<1>5. CASE o.kind = "observe"
  <2>1. q = [p EXCEPT !.call_times = calls]
    BY <1>5 DEF Written, calls, q
  <2>2. q \in Profile
    BY ONLY <1>2, <1>4, <2>1, p \in Profile DEF Profile
  <2>3. /\ q.last_seen = p.last_seen
        /\ p.total_calls <= q.total_calls /\ p.seen_tools \subseteq q.seen_tools
    BY ONLY <1>4, <2>1, p \in Profile DEF Profile
  <2>4. Len(q.call_times) <= CallTimesMax /\ Len(q.block_times) <= BlockTimesMax
    BY <1>2, <1>4, <2>1 DEF Profile
  <2> QED BY <2>2, <2>3, <2>4 DEF q
<1>6. CASE o.kind = "block"
  <2>1. q = [p EXCEPT !.block_times = blocks]
    BY <1>6 DEF Written, blocks, q
  <2>2. q \in Profile
    BY ONLY <1>3, <1>4, <2>1, p \in Profile DEF Profile
  <2>3. /\ q.last_seen = p.last_seen
        /\ p.total_calls <= q.total_calls /\ p.seen_tools \subseteq q.seen_tools
    BY ONLY <1>4, <2>1, p \in Profile DEF Profile
  <2>4. Len(q.call_times) <= CallTimesMax /\ Len(q.block_times) <= BlockTimesMax
    BY <1>3, <1>4, <2>1 DEF Profile
  <2> QED BY <2>2, <2>3, <2>4 DEF q
<1>7. CASE o.kind = "quarantined"
  <2>1. q = [p EXCEPT !.read_at = o.mono]
    BY <1>7 DEF Written, q
  <2>2. q \in Profile
    BY ONLY <1>1, <1>4, <2>1, p \in Profile DEF Profile
  <2>3. /\ q.last_seen = p.last_seen
        /\ p.total_calls <= q.total_calls /\ p.seen_tools \subseteq q.seen_tools
    BY ONLY <1>4, <2>1, p \in Profile DEF Profile
  <2>4. Len(q.call_times) <= CallTimesMax /\ Len(q.block_times) <= BlockTimesMax
    BY <1>1, <1>4, <2>1 DEF Profile
  <2> QED BY <2>2, <2>3, <2>4 DEF q
<1>8. CASE o.kind = "allow"
  <2>1. q = [p EXCEPT !.total_calls = p.total_calls + 1,
                      !.seen_tools = p.seen_tools \cup {o.tool}, !.read_at = readAt]
    BY <1>8 DEF Written, readAt, q
  <2>2. q \in Profile
    <3> DEFINE n == p.total_calls + 1
               seen == p.seen_tools \cup {o.tool}
    <3>1. n \in Nat /\ seen \in SUBSET Tools
      BY <1>1, <1>4
    <3>2. q = [p EXCEPT !.total_calls = n, !.seen_tools = seen, !.read_at = readAt]
      BY ONLY <2>1
    <3> HIDE DEF n, seen
    <3> QED BY ONLY <1>4, <3>1, <3>2, p \in Profile DEF Profile
  <2>3. /\ q.last_seen = p.last_seen
        /\ p.total_calls <= q.total_calls /\ p.seen_tools \subseteq q.seen_tools
    BY ONLY <1>4, <2>1, p \in Profile DEF Profile
  <2>4. Len(q.call_times) <= CallTimesMax /\ Len(q.block_times) <= BlockTimesMax
    BY <1>1, <1>4, <2>1 DEF Profile
  <2> QED BY <2>2, <2>3, <2>4 DEF q
<1> QED BY ONLY <1>1, <1>5, <1>6, <1>7, <1>8 DEF Kinds, q

\* What an operation adds to the history.
LEMMA RecordedFacts ==
    ASSUME NEW h \in Profile, NEW o \in Pending
    PROVE  LET g == Recorded(h, o)
           IN  /\ g \in Profile /\ g.last_seen = h.last_seen
               /\ g.call_times = IF o.kind = "observe" THEN Append(h.call_times, o.mono)
                                                       ELSE h.call_times
               /\ g.block_times = IF o.kind = "block" THEN Append(h.block_times, o.mono)
                                                      ELSE h.block_times
               /\ g.read_at \in {h.read_at, o.mono}
<1> DEFINE g == Recorded(h, o)
           readAt == IF o.tool \in SensitiveReads THEN Later(o.mono, h.read_at)
                                                  ELSE h.read_at
<1>1. o.tool \in Tools /\ o.mono \in Times /\ o.kind \in Kinds
  BY DEF Pending
<1>2. Append(h.call_times, o.mono) \in Seq(Times) /\ Append(h.block_times, o.mono) \in Seq(Times)
  BY <1>1 DEF Profile
<1>3. /\ readAt \in {h.read_at, o.mono} /\ readAt \in Times \cup {Never}
      /\ h.total_calls \in Nat /\ h.seen_tools \subseteq Tools
  BY <1>1 DEF Profile, Later
<1> HIDE DEF readAt
<1>4. CASE o.kind = "observe"
  <2>1. g = [h EXCEPT !.call_times = Append(h.call_times, o.mono)]
    BY <1>4 DEF Recorded
  <2> QED BY <1>2, <1>4, <2>1 DEF Profile
<1>5. CASE o.kind = "block"
  <2>1. g = [h EXCEPT !.block_times = Append(h.block_times, o.mono)]
    BY <1>5 DEF Recorded
  <2> QED BY <1>2, <1>5, <2>1 DEF Profile
<1>6. CASE o.kind = "quarantined"
  <2>1. g = [h EXCEPT !.read_at = readAt]
    BY <1>6 DEF Recorded, readAt
  <2> QED BY <1>3, <1>6, <2>1 DEF Profile
<1>7. CASE o.kind = "allow"
  <2>1. g = [h EXCEPT !.seen_tools = h.seen_tools \cup {o.tool},
                      !.total_calls = h.total_calls + 1, !.read_at = readAt]
    BY <1>7 DEF Recorded, readAt
  <2>2. g \in Profile
    <3> DEFINE n == h.total_calls + 1
               seen == h.seen_tools \cup {o.tool}
    <3>1. n \in Nat /\ seen \in SUBSET Tools
      BY <1>1, <1>3
    <3>2. g = [h EXCEPT !.seen_tools = seen, !.total_calls = n, !.read_at = readAt]
      BY ONLY <2>1
    <3> HIDE DEF n, seen, g
    <3> QED BY ONLY <1>3, <3>1, <3>2, h \in Profile DEF Profile
  <2>3. /\ g.last_seen = h.last_seen /\ g.call_times = h.call_times
        /\ g.block_times = h.block_times /\ g.read_at = readAt
    BY ONLY <2>1, h \in Profile DEF Profile
  <2> HIDE DEF g
  <2> QED BY <1>3, <1>7, <2>2, <2>3 DEF g
<1> QED BY <1>1, <1>4, <1>5, <1>6, <1>7 DEF Kinds

-----------------------------------------------------------------------------
(* The invariant *)

\* Everything in the history h was read from the clock by x.
ReadBy(h, x) ==
    /\ \A i \in 1..Len(h.call_times) : h.call_times[i] <= x
    /\ \A i \in 1..Len(h.block_times) : h.block_times[i] <= x
    /\ h.last_seen <= x /\ h.read_at <= x

\* The profile p is what the deques keep of the history h.  With several threads
\* last_seen and read_at may be moved back by an operation that waited.
Matches(p, h) ==
    /\ p.seen_tools = h.seen_tools /\ p.total_calls = h.total_calls
    /\ p.call_times = LastOf(h.call_times, CallTimesMax)
    /\ p.block_times = LastOf(h.block_times, BlockTimesMax)
    /\ OneThread => p.last_seen = h.last_seen /\ p.read_at = h.read_at

\* A profile is reset only if its history is: one thread keeps last_seen right,
\* and if the time stays within the TTL nothing is reset.
ResetTogether == OneThread \/ MaxClock <= Config.profile_ttl

HistoryInv ==
    /\ ideal \in [Agents -> Profile] /\ forgotten \subseteq Agents
    /\ \A t \in Threads : op[t].kind \in Kinds =>
         /\ op[t].mono <= clock
         /\ op[t].kind = "quarantined" => op[t].tool \in SensitiveReads
         /\ OneThread => \A a \in Agents : ReadBy(ideal[a], op[t].mono)
    /\ \A a \in Agents : /\ ReadBy(ideal[a], clock)
                         /\ Orderly(op, ideal[a].call_times)
                         /\ Orderly(op, ideal[a].block_times)
    /\ OneThread => \A a \in Tracked : profiles[a].last_seen = ideal[a].last_seen
    /\ ResetTogether => \A a \in Agents \ forgotten : Matches(profiles[a], ideal[a])

-----------------------------------------------------------------------------
(* An operation reads and writes the same in the store as in the history *)

LEMMA TimesAreInts == \A x \in Times \cup {Never} : x \in Int /\ x <= MaxClock /\ x >= -1
BY BoundsAssumption DEF Times, Never

LEMMA NewProfileMatches == Matches(NewProfile, NewProfile)
<1>1. /\ LastOf(<<>>, CallTimesMax) = <<>>
      /\ LastOf(<<>>, BlockTimesMax) = <<>>
  BY BoundsAssumption DEF LastOf
<1> QED BY <1>1 DEF Matches, NewProfile

\* The history as the operation fetches it.
LEMMA IdealFetchedFacts ==
    ASSUME NEW agent \in Agents, ideal[agent] \in Profile, NEW mono \in Times
    PROVE  LET h == IdealFetched(agent, mono)
           IN  /\ h \in Profile /\ h.last_seen >= mono
               /\ h.call_times \in {ideal[agent].call_times, <<>>}
               /\ h.block_times \in {ideal[agent].block_times, <<>>}
               /\ \A x \in Times : ReadBy(ideal[agent], x) /\ mono <= x => ReadBy(h, x)
<1> DEFINE old == IF mono - ideal[agent].last_seen > Config.profile_ttl
                  THEN NewProfile ELSE ideal[agent]
           seen == Later(mono, old.last_seen)
           h == IdealFetched(agent, mono)
<1>1. /\ old \in Profile
      /\ old.call_times \in {ideal[agent].call_times, <<>>}
      /\ old.block_times \in {ideal[agent].block_times, <<>>}
  BY NewProfileType DEF NewProfile
<1>2. \A x \in Times : ReadBy(ideal[agent], x) => ReadBy(old, x)
  <2>1. \A x \in Times : ReadBy(NewProfile, x)
    BY TimesAreInts DEF NewProfile, ReadBy, Never, Times
  <2> QED BY <2>1
<1>3. h = [old EXCEPT !.last_seen = seen]
  BY DEF IdealFetched
<1> HIDE DEF old, h
<1>4. seen \in Times /\ seen >= mono /\ \A x \in Times : old.last_seen <= x /\ mono <= x => seen <= x
  <2>1. old.last_seen \in Times
    BY <1>1 DEF Profile
  <2>2. old.last_seen \in Int /\ mono \in Int
    BY <2>1, TimesAreInts
  <2> QED BY <2>1, <2>2 DEF Later
<1> HIDE DEF seen
<1>5. /\ h \in Profile /\ h.last_seen = seen /\ h.read_at = old.read_at
      /\ h.call_times = old.call_times /\ h.block_times = old.block_times
  BY <1>1, <1>3, <1>4 DEF Profile
<1>6. ASSUME NEW x \in Times, ReadBy(ideal[agent], x), mono <= x
      PROVE  ReadBy(h, x)
  BY <1>2, <1>4, <1>5, <1>6 DEF ReadBy
<1> QED BY <1>1, <1>4, <1>5, <1>6 DEF h

\* The profile is reset when its history is.
LEMMA FetchedMatches ==
    ASSUME TypeOK, ResetTogether, NEW agent \in Agents, NEW mono \in Times,
           ideal[agent] \in Profile, Matches(profiles[agent], ideal[agent]),
           OneThread => ReadBy(ideal[agent], mono)
    PROVE  Matches(Fetched(agent, mono), IdealFetched(agent, mono))
<1> DEFINE p == profiles[agent]
           h == ideal[agent]
           f == Fetched(agent, mono)
           g == IdealFetched(agent, mono)
<1>1. p \in Profile /\ h \in Profile /\ NewProfile \in Profile
  BY NewProfileType DEF TypeOK
<1>2. /\ mono \in Int /\ mono <= MaxClock /\ mono >= 0
      /\ p.last_seen \in Int /\ p.last_seen >= 0
      /\ h.last_seen \in Int /\ h.last_seen >= 0
      /\ MaxClock \in Int /\ Config.profile_ttl \in Int
  <2>1. \A x \in Times : x \in Int /\ x <= MaxClock /\ x >= 0
    BY BoundsAssumption DEF Times
  <2>2. p.last_seen \in Times /\ h.last_seen \in Times
    BY <1>1 DEF Profile
  <2> HIDE DEF p, h
  <2> QED BY <2>1, <2>2, BoundsAssumption, ConfigFacts
<1>3. (mono - p.last_seen > Config.profile_ttl) <=> (mono - h.last_seen > Config.profile_ttl)
  <2>1. CASE OneThread
    BY <2>1 DEF Matches
  <2>2. CASE MaxClock <= Config.profile_ttl
    <3> HIDE DEF p, h
    <3> QED BY ONLY <1>2, <2>2
  <2> QED BY <2>1, <2>2 DEF ResetTogether
<1>4. PICK p1 \in Profile, h1 \in Profile :
          /\ Matches(p1, h1)
          /\ OneThread => h1.last_seen <= mono
          /\ f = [p1 EXCEPT !.last_seen = mono]
          /\ g = [h1 EXCEPT !.last_seen = Later(mono, h1.last_seen)]
  <2>1. CASE mono - p.last_seen > Config.profile_ttl
    <3>1. f = [NewProfile EXCEPT !.last_seen = mono]
      BY <2>1 DEF Fetched
    <3>2. g = [NewProfile EXCEPT !.last_seen = Later(mono, NewProfile.last_seen)]
      BY <1>3, <2>1 DEF IdealFetched
    <3>3. NewProfile.last_seen <= mono
      BY <1>2 DEF NewProfile
    <3> QED BY ONLY <1>1, <3>1, <3>2, <3>3, NewProfileMatches
  <2>2. CASE ~(mono - p.last_seen > Config.profile_ttl)
    <3>1. f = [p EXCEPT !.last_seen = mono]
      BY <2>2 DEF Fetched
    <3>2. g = [h EXCEPT !.last_seen = Later(mono, h.last_seen)]
      BY <1>3, <2>2 DEF IdealFetched
    <3>3. OneThread => h.last_seen <= mono
      BY DEF ReadBy
    <3> HIDE DEF f, g
    <3> QED BY <1>1, <3>1, <3>2, <3>3
  <2> QED BY <2>1, <2>2
<1> HIDE DEF f, g
<1>5. OneThread => Later(mono, h1.last_seen) = mono
  <2>1. h1.last_seen \in Int
    BY TimesAreInts DEF Profile
  <2> QED BY <1>2, <1>4, <2>1 DEF Later
<1>6. /\ f.seen_tools = p1.seen_tools /\ f.total_calls = p1.total_calls
      /\ f.call_times = p1.call_times /\ f.block_times = p1.block_times
      /\ f.last_seen = mono /\ f.read_at = p1.read_at
  BY ONLY <1>4 DEF Profile
<1>7. /\ g.seen_tools = h1.seen_tools /\ g.total_calls = h1.total_calls
      /\ g.call_times = h1.call_times /\ g.block_times = h1.block_times
      /\ g.last_seen = Later(mono, h1.last_seen) /\ g.read_at = h1.read_at
  BY ONLY <1>4 DEF Profile
<1>8. Matches(f, g)
  BY <1>4, <1>5, <1>6, <1>7 DEF Matches
<1> QED BY <1>8 DEF f, g

LEMMA WrittenMatches ==
    ASSUME NEW p \in Profile, NEW h \in Profile, NEW o \in Pending, Matches(p, h),
           OneThread => ReadBy(h, o.mono),
           o.kind = "quarantined" => o.tool \in SensitiveReads
    PROVE  Matches(Written(p, o), Recorded(h, o))
<1> DEFINE pAt == IF o.tool \in SensitiveReads THEN o.mono ELSE p.read_at
           hAt == IF o.tool \in SensitiveReads THEN Later(o.mono, h.read_at) ELSE h.read_at
           q == Written(p, o)
           g == Recorded(h, o)
<1>1. o.mono \in Times /\ o.kind \in Kinds
  BY DEF Pending
<1>2. /\ Push(p.call_times, o.mono, CallTimesMax)
           = LastOf(Append(h.call_times, o.mono), CallTimesMax)
      /\ Push(p.block_times, o.mono, BlockTimesMax)
           = LastOf(Append(h.block_times, o.mono), BlockTimesMax)
  <2>1. h.call_times \in Seq(Times) /\ h.block_times \in Seq(Times)
    BY DEF Profile
  <2>2. /\ p.call_times = LastOf(h.call_times, CallTimesMax)
        /\ p.block_times = LastOf(h.block_times, BlockTimesMax)
    BY DEF Matches
  <2>3. CallTimesMax \in Nat \ {0} /\ BlockTimesMax \in Nat \ {0}
    BY BoundsAssumption
  <2> QED BY ONLY <1>1, <2>1, <2>2, <2>3, PushKeepsLast
<1>3. OneThread => pAt = hAt
  <2>1. h.read_at \in Int /\ o.mono \in Int
    BY <1>1, TimesAreInts DEF Profile
  <2>2. ASSUME OneThread
        PROVE  h.read_at <= o.mono /\ p.read_at = h.read_at
    BY <2>2 DEF ReadBy, Matches
  <2> QED BY ONLY <2>1, <2>2 DEF Later
<1>4. CASE o.kind = "observe"
  <2>1. /\ q = [p EXCEPT !.call_times = Push(p.call_times, o.mono, CallTimesMax)]
        /\ g = [h EXCEPT !.call_times = Append(h.call_times, o.mono)]
    BY <1>4 DEF Written, Recorded
  <2> HIDE DEF q, g
  <2>2. /\ q.call_times = Push(p.call_times, o.mono, CallTimesMax)
        /\ q.block_times = p.block_times /\ q.seen_tools = p.seen_tools
        /\ q.total_calls = p.total_calls /\ q.last_seen = p.last_seen
        /\ q.read_at = p.read_at
    BY ONLY <2>1, p \in Profile DEF Profile
  <2>3. /\ g.call_times = Append(h.call_times, o.mono)
        /\ g.block_times = h.block_times /\ g.seen_tools = h.seen_tools
        /\ g.total_calls = h.total_calls /\ g.last_seen = h.last_seen
        /\ g.read_at = h.read_at
    BY ONLY <2>1, h \in Profile DEF Profile
  <2>4. Matches(q, g)
    BY ONLY <1>2, <2>2, <2>3, Matches(p, h) DEF Matches
  <2> QED BY <2>4 DEF q, g
<1>5. CASE o.kind = "block"
  <2>1. /\ q = [p EXCEPT !.block_times = Push(p.block_times, o.mono, BlockTimesMax)]
        /\ g = [h EXCEPT !.block_times = Append(h.block_times, o.mono)]
    BY <1>5 DEF Written, Recorded
  <2> HIDE DEF q, g
  <2>2. /\ q.block_times = Push(p.block_times, o.mono, BlockTimesMax)
        /\ q.call_times = p.call_times /\ q.seen_tools = p.seen_tools
        /\ q.total_calls = p.total_calls /\ q.last_seen = p.last_seen
        /\ q.read_at = p.read_at
    BY ONLY <2>1, p \in Profile DEF Profile
  <2>3. /\ g.block_times = Append(h.block_times, o.mono)
        /\ g.call_times = h.call_times /\ g.seen_tools = h.seen_tools
        /\ g.total_calls = h.total_calls /\ g.last_seen = h.last_seen
        /\ g.read_at = h.read_at
    BY ONLY <2>1, h \in Profile DEF Profile
  <2>4. Matches(q, g)
    BY ONLY <1>2, <2>2, <2>3, Matches(p, h) DEF Matches
  <2> QED BY <2>4 DEF q, g
<1>6. CASE o.kind = "quarantined"
  <2>1. /\ q = [p EXCEPT !.read_at = pAt]
        /\ g = [h EXCEPT !.read_at = hAt]
    BY <1>6 DEF Written, Recorded
  <2> HIDE DEF q, g, pAt, hAt
  <2>2. /\ q.read_at = pAt /\ q.block_times = p.block_times
        /\ q.call_times = p.call_times /\ q.seen_tools = p.seen_tools
        /\ q.total_calls = p.total_calls /\ q.last_seen = p.last_seen
    BY ONLY <2>1, p \in Profile DEF Profile
  <2>3. /\ g.read_at = hAt /\ g.block_times = h.block_times
        /\ g.call_times = h.call_times /\ g.seen_tools = h.seen_tools
        /\ g.total_calls = h.total_calls /\ g.last_seen = h.last_seen
    BY ONLY <2>1, h \in Profile DEF Profile
  <2>4. Matches(q, g)
    BY ONLY <1>3, <2>2, <2>3, Matches(p, h) DEF Matches
  <2> QED BY <2>4 DEF q, g
<1>7. CASE o.kind = "allow"
  <2> DEFINE pCalls == p.total_calls + 1
             pSeen == p.seen_tools \cup {o.tool}
             hCalls == h.total_calls + 1
             hSeen == h.seen_tools \cup {o.tool}
  <2>1. /\ q = [p EXCEPT !.total_calls = pCalls, !.seen_tools = pSeen, !.read_at = pAt]
        /\ g = [h EXCEPT !.seen_tools = hSeen, !.total_calls = hCalls, !.read_at = hAt]
    BY <1>7 DEF Written, Recorded
  <2>2. pCalls = hCalls /\ pSeen = hSeen
    BY DEF Matches
  <2> HIDE DEF q, g, pAt, hAt, pCalls, pSeen, hCalls, hSeen
  <2>3. /\ q.read_at = pAt /\ q.block_times = p.block_times
        /\ q.call_times = p.call_times /\ q.seen_tools = pSeen
        /\ q.total_calls = pCalls /\ q.last_seen = p.last_seen
    BY ONLY <2>1, p \in Profile DEF Profile
  <2>4. /\ g.read_at = hAt /\ g.block_times = h.block_times
        /\ g.call_times = h.call_times /\ g.seen_tools = hSeen
        /\ g.total_calls = hCalls /\ g.last_seen = h.last_seen
    BY ONLY <2>1, h \in Profile DEF Profile
  <2>5. Matches(q, g)
    BY ONLY <1>3, <2>2, <2>3, <2>4, Matches(p, h) DEF Matches
  <2> QED BY <2>5 DEF q, g
<1> QED BY ONLY <1>1, <1>4, <1>5, <1>6, <1>7 DEF Kinds

\* A locked section brings no other agent than its own into the store, and
\* leaves the others' profiles as they are.
LEMMA StoreKeepsTracked ==
    ASSUME lru \in Seq(Agents), Distinct(lru), NEW agent \in Agents, NEW q,
           Store(agent, q), NEW a \in Tracked', a # agent
    PROVE  a \in Tracked
<1> DEFINE s == Touched(agent)
           n == Overflow(s)
<1>1. s \in Seq(Agents) /\ Len(s) >= 1
  BY TouchedFacts
<1>2. n \in 0..(Len(s) - 1)
  BY <1>1, ConfigFacts DEF Overflow
<1>3. lru' = SubSeq(s, n + 1, Len(s))
  BY DEF Store, Evict
<1> HIDE DEF n
<1>4. Len(lru') = Len(s) - n /\ \A m \in 1..(Len(s) - n) : lru'[m] = s[m + n]
  BY <1>1, <1>2, <1>3, SubSeqProperties
<1>5. PICK i \in 1..Len(lru') : lru'[i] = a
  BY DEF Tracked
<1>6. i + n \in 1..Len(s) /\ s[i + n] = a
  <2>1. Len(s) \in Nat
    BY <1>1, LenProperties
  <2> HIDE DEF s
  <2> QED BY <1>2, <1>4, <1>5, <2>1
<1> DEFINE j == i + n
<1> HIDE DEF j
<1>7. j \in 1..Len(s) /\ s[j] = a
  BY <1>6 DEF j
<1>8. CASE agent \in Tracked
  <2> DEFINE k == IndexOf(agent)
             r == RemoveAt(lru, k)
  <2>1. k \in 1..Len(lru) /\ lru[k] = agent
    BY <1>8 DEF Tracked, IndexOf
  <2>2. /\ r \in Seq(Agents) /\ Len(r) = Len(lru) - 1
        /\ \A m \in 1..(Len(lru) - 1) : r[m] = IF m < k THEN lru[m] ELSE lru[m + 1]
    BY <2>1, RemoveAtFacts
  <2>3. s = Append(r, agent)
    BY <1>8 DEF Touched
  <2> HIDE DEF k, r
  <2>4. j \in 1..Len(r) /\ r[j] = a
    BY <1>7, <2>2, <2>3
  <2>5. \E m \in 1..Len(lru) : lru[m] = a
    BY <2>2, <2>4
  <2> QED BY <2>5 DEF Tracked
<1>9. CASE agent \notin Tracked
  <2>1. s = Append(lru, agent)
    BY <1>9 DEF Touched
  <2>2. j \in 1..Len(lru) /\ lru[j] = a
    BY <1>7, <2>1
  <2> QED BY <2>2 DEF Tracked
<1> QED BY <1>8, <1>9

\* What was read by x before is, with an entry of then or earlier, read by x.
LEMMA RecordedReadBy ==
    ASSUME NEW h \in Profile, NEW o \in Pending, NEW x \in Times, ReadBy(h, x), o.mono <= x
    PROVE  ReadBy(Recorded(h, o), x)
<1> DEFINE g == Recorded(h, o)
<1>1. ASSUME NEW s \in Seq(Times), \A i \in 1..Len(s) : s[i] <= x,
             NEW i \in 1..Len(Append(s, o.mono))
      PROVE  Append(s, o.mono)[i] <= x
  <2>1. o.mono \in Times
    BY DEF Pending
  <2>2. i \in 1..Len(s) \/ i = Len(s) + 1
    BY <1>1, <2>1
  <2> QED BY <1>1, <2>1, <2>2
<1>2. /\ g.last_seen = h.last_seen
      /\ g.call_times = IF o.kind = "observe" THEN Append(h.call_times, o.mono)
                                              ELSE h.call_times
      /\ g.block_times = IF o.kind = "block" THEN Append(h.block_times, o.mono)
                                             ELSE h.block_times
      /\ g.read_at \in {h.read_at, o.mono}
  BY RecordedFacts
<1>3. h.call_times \in Seq(Times) /\ h.block_times \in Seq(Times)
  BY DEF Profile
<1> HIDE DEF g
<1>4. \A i \in 1..Len(g.call_times) : g.call_times[i] <= x
  BY <1>1, <1>2, <1>3 DEF ReadBy
<1>5. \A i \in 1..Len(g.block_times) : g.block_times[i] <= x
  BY <1>1, <1>2, <1>3 DEF ReadBy
<1>6. ReadBy(g, x)
  BY <1>2, <1>4, <1>5 DEF ReadBy
<1> QED BY <1>6 DEF g

-----------------------------------------------------------------------------
(* The invariant is inductive *)

LEMMA OneThreadFinite == OneThread => IsFiniteSet(Threads) /\ Cardinality(Threads) \in {0, 1}
<1> SUFFICES ASSUME OneThread PROVE IsFiniteSet(Threads) /\ Cardinality(Threads) \in {0, 1}
  OBVIOUS
<1>1. CASE Threads = {}
  BY <1>1, FS_EmptySet
<1>2. CASE Threads # {}
  <2>1. PICK t : Threads = {t}
    BY <1>2 DEF OneThread
  <2> QED BY <2>1, FS_Singleton
<1> QED BY <1>1, <1>2

LEMMA HistoryInit == IsFiniteSet(Threads) /\ HInit => TypeOK /\ StoreBounded /\ HistoryInv
<1> SUFFICES ASSUME IsFiniteSet(Threads), HInit
             PROVE  TypeOK /\ StoreBounded /\ HistoryInv
  OBVIOUS
<1>1. TypeOK /\ StoreBounded
  BY MonitorInit DEF HInit
<1>2. ideal \in [Agents -> Profile] /\ forgotten \subseteq Agents
  BY NewProfileType DEF HInit
<1>3. \A t \in Threads : op[t].kind \notin Kinds
  BY DEF HInit, Init, Returned, Kinds
<1>4. Tracked = {} /\ clock = 0
  BY DEF HInit, Init, Tracked
<1>5. ASSUME NEW a \in Agents
      PROVE  /\ ReadBy(ideal[a], clock)
             /\ Orderly(op, ideal[a].call_times)
             /\ Orderly(op, ideal[a].block_times)
             /\ Matches(profiles[a], ideal[a])
  <2>1. ideal[a] = NewProfile /\ profiles[a] = NewProfile
    BY DEF HInit, Init
  <2> QED BY <1>4, <2>1, NewProfileMatches DEF NewProfile, ReadBy, Orderly, Never
<1> QED BY <1>1, <1>2, <1>3, <1>4, <1>5 DEF HistoryInv

\* The clock moves on: nothing that was read by it is newer now.
LEMMA HistoryTick ==
    ASSUME IsFiniteSet(Threads), TypeOK, HistoryInv, HTick
    PROVE  HistoryInv'
<1>1. /\ clock' = clock + 1 /\ clock \in Int
      /\ UNCHANGED <<lru, profiles, op, ideal, forgotten>>
  BY TimesAreInts DEF HTick, Tick, TypeOK
<1>2. ASSUME NEW a \in Agents
      PROVE  ReadBy(ideal[a], clock')
  <2> DEFINE h == ideal[a]
  <2>1. h \in Profile /\ ReadBy(h, clock)
    BY DEF HistoryInv
  <2>2. /\ \A i \in 1..Len(h.call_times) : h.call_times[i] \in Times
        /\ \A i \in 1..Len(h.block_times) : h.block_times[i] \in Times
        /\ h.last_seen \in Times /\ h.read_at \in Times \cup {Never}
    BY <2>1 DEF Profile
  <2> HIDE DEF h
  <2>3. ReadBy(h, clock + 1)
    <3>1. \A x \in Times \cup {Never} : x <= clock => x <= clock + 1
      BY <1>1, TimesAreInts
    <3> QED BY ONLY <2>1, <2>2, <3>1 DEF ReadBy
  <2> QED BY <1>1, <2>3 DEF h
<1>3. \A t \in Threads : op[t].kind \in Kinds => op[t].mono <= clock'
  <2>1. \A t \in Threads : op[t].kind \in Kinds => op[t].mono \in Int
    BY BusyType, TimesAreInts
  <2> QED BY <1>1, <2>1 DEF HistoryInv
<1>4. Tracked' = Tracked
  BY <1>1 DEF Tracked
<1> QED BY <1>1, <1>2, <1>3, <1>4 DEF HistoryInv

\* An operation begins with the newest reading.
LEMMA HistoryCall ==
    ASSUME IsFiniteSet(Threads), TypeOK, HistoryInv, NEW t \in Threads, HCall(t)
    PROVE  HistoryInv'
<1>1. PICK kind \in Kinds, agent \in Agents, tool \in Tools, risky \in BOOLEAN :
          /\ Begin(t, kind, agent, tool, risky)
          /\ kind = "quarantined" => tool \in SensitiveReads
  BY DEF HCall, Call, CallObserve, CallRecordAllow, CallRecordQuarantined,
         CallRecordBlock, Kinds
<1>2. /\ UNCHANGED <<clock, lru, profiles, ideal, forgotten>>
      /\ \A u \in Threads \ {t} : op'[u] = op[u]
      /\ op'[t] = [kind |-> kind, agent |-> agent, tool |-> tool, risky |-> risky,
                   mono |-> clock]
  BY <1>1 DEF Begin, HCall, TypeOK
<1>3. clock \in Int
  BY TimesAreInts DEF TypeOK
<1>4. ASSUME NEW h \in Seq(Times), Orderly(op, h), \A i \in 1..Len(h) : h[i] <= clock
      PROVE  Orderly(op', h)
  <2>1. \A i \in 1..Len(h) : h[i] \in Int
    BY TimesAreInts
  <2>2. NoneOlder(op, op', h)
    BY <1>2, <1>3, <1>4, <2>1 DEF NoneOlder
  <2> QED BY <1>4, <2>2, OrderlyStays
<1>5. ASSUME NEW a \in Agents
      PROVE  /\ ReadBy(ideal[a], clock)
             /\ Orderly(op', ideal[a].call_times)
             /\ Orderly(op', ideal[a].block_times)
  <2>1. /\ ideal[a] \in Profile /\ ReadBy(ideal[a], clock)
        /\ Orderly(op, ideal[a].call_times) /\ Orderly(op, ideal[a].block_times)
    BY DEF HistoryInv
  <2>2. ideal[a].call_times \in Seq(Times) /\ ideal[a].block_times \in Seq(Times)
    BY <2>1 DEF Profile
  <2> QED BY <1>4, <2>1, <2>2 DEF ReadBy
<1>6. ASSUME NEW u \in Threads, op'[u].kind \in Kinds
      PROVE  /\ op'[u].mono <= clock
             /\ op'[u].kind = "quarantined" => op'[u].tool \in SensitiveReads
             /\ OneThread => \A a \in Agents : ReadBy(ideal[a], op'[u].mono)
  <2>1. CASE u = t
    BY <1>1, <1>2, <1>3, <1>5, <2>1
  <2>2. CASE u # t
    BY <1>2, <1>6, <2>2 DEF HistoryInv
  <2> QED BY <2>1, <2>2
<1>7. Tracked' = Tracked
  BY <1>2 DEF Tracked
<1>8. /\ ideal' = ideal /\ forgotten' = forgotten /\ clock' = clock /\ profiles' = profiles
  BY <1>2
<1> QED BY <1>5, <1>6, <1>7, <1>8 DEF HistoryInv

\* What is known of a locked section and of the history it is recorded in.
LEMMA LockedHistory ==
    ASSUME TypeOK, HistoryInv, NEW t \in Threads, HLocked(t)
    PROVE  LET o == op[t]
               h == IdealFetched(o.agent, o.mono)
           IN  /\ o \in Pending /\ o.mono <= clock /\ o.mono \in Int /\ clock \in Int
               /\ clock' = clock
               /\ op'[t].kind = "idle" /\ \A u \in Threads \ {t} : op'[u] = op[u]
               /\ ideal' = [ideal EXCEPT ![o.agent] = Recorded(h, o)]
               /\ h \in Profile /\ Recorded(h, o) \in Profile
               /\ ReadBy(Recorded(h, o), clock)
               /\ OneThread => ReadBy(h, o.mono) /\ Recorded(h, o).last_seen = o.mono
<1> DEFINE o == op[t]
           h == IdealFetched(o.agent, o.mono)
           g == Recorded(h, o)
<1>1. o.kind \in Kinds /\ \E keep : Finish(t, keep)
  BY LockedWrites DEF HLocked
<1>2. /\ clock' = clock /\ op'[t].kind = "idle"
      /\ \A u \in Threads \ {t} : op'[u] = op[u]
  BY <1>1 DEF Finish, Returned, TypeOK
<1>3. o \in Pending
  <2>1. o \in Op
    BY DEF TypeOK
  <2> HIDE DEF o
  <2> QED BY <1>1, <2>1 DEF Op, Pending, Kinds
<1>4. o.agent \in Agents /\ o.mono \in Times /\ clock \in Times
  BY <1>3 DEF Pending, TypeOK
<1>5. o.mono <= clock /\ (OneThread => ReadBy(ideal[o.agent], o.mono))
  BY <1>1, <1>4 DEF HistoryInv
<1>6. ideal[o.agent] \in Profile /\ ReadBy(ideal[o.agent], clock)
  BY <1>4 DEF HistoryInv
<1>7. ideal' = [ideal EXCEPT ![o.agent] = g]
  BY DEF HLocked
<1>8. o.mono \in Int /\ clock \in Int /\ o.mono <= o.mono
  <2>1. o.mono \in Int /\ clock \in Int
    BY <1>4, TimesAreInts
  <2> HIDE DEF o
  <2> QED BY <2>1
<1> HIDE DEF o
<1>9. /\ h \in Profile /\ h.last_seen >= o.mono
      /\ \A x \in Times : ReadBy(ideal[o.agent], x) /\ o.mono <= x => ReadBy(h, x)
  BY ONLY <1>4, <1>6, IdealFetchedFacts
<1>10. ReadBy(h, clock) /\ (OneThread => ReadBy(h, o.mono))
  BY ONLY <1>4, <1>5, <1>6, <1>8, <1>9
<1> HIDE DEF h
<1>11. g \in Profile /\ g.last_seen = h.last_seen
  BY ONLY <1>3, <1>9, RecordedFacts
<1>12. ReadBy(g, clock)
  BY ONLY <1>3, <1>4, <1>5, <1>9, <1>10, RecordedReadBy
<1>13. OneThread => g.last_seen = o.mono
  <2>1. h.last_seen \in Times
    BY <1>9 DEF Profile
  <2>2. h.last_seen \in Int
    BY <2>1, TimesAreInts
  <2> QED BY ONLY <1>8, <1>9, <1>10, <1>11, <2>2 DEF ReadBy
<1> HIDE DEF g
<1>14. /\ o \in Pending /\ o.mono <= clock /\ o.mono \in Int /\ clock \in Int
       /\ clock' = clock
       /\ op'[t].kind = "idle" /\ \A u \in Threads \ {t} : op'[u] = op[u]
       /\ ideal' = [ideal EXCEPT ![o.agent] = g]
       /\ h \in Profile /\ g \in Profile
       /\ ReadBy(g, clock)
       /\ OneThread => ReadBy(h, o.mono) /\ g.last_seen = o.mono
  BY ONLY <1>2, <1>3, <1>5, <1>7, <1>8, <1>9, <1>10, <1>11, <1>12, <1>13
<1> QED BY ONLY <1>14 DEF o, h, g

\* The profile that a locked section stores matches the history it records.
LEMMA LockedMatches ==
    ASSUME TypeOK, StoreBounded, HistoryInv, ResetTogether, NEW t \in Threads, HLocked(t),
           op[t].agent \notin forgotten
    PROVE  LET o == op[t]
               p == Fetched(o.agent, o.mono)
           IN  /\ Written(p, o) \in Profile
               /\ Matches(Written(p, o), Recorded(IdealFetched(o.agent, o.mono), o))
<1> DEFINE o == op[t]
           p == Fetched(o.agent, o.mono)
           h == IdealFetched(o.agent, o.mono)
<1>1. /\ o \in Pending /\ h \in Profile
      /\ OneThread => ReadBy(h, o.mono)
  BY LockedHistory
<1>2. o.kind \in Kinds /\ o.agent \in Agents /\ o.mono \in Times
  BY <1>1 DEF Pending
<1>3. /\ o.kind = "quarantined" => o.tool \in SensitiveReads
      /\ OneThread => ReadBy(ideal[o.agent], o.mono)
      /\ Matches(profiles[o.agent], ideal[o.agent])
      /\ ideal[o.agent] \in Profile
  BY <1>2 DEF HistoryInv
<1>4. /\ p \in Profile /\ Len(p.call_times) <= CallTimesMax
      /\ Len(p.block_times) <= BlockTimesMax
  BY <1>2, FetchedType
<1>5. Matches(p, h)
  BY <1>2, <1>3, FetchedMatches
<1> HIDE DEF o, p, h
<1>6. Written(p, o) \in Profile
  BY ONLY <1>1, <1>4, WrittenType
<1>7. Matches(Written(p, o), Recorded(h, o))
  BY ONLY <1>1, <1>3, <1>4, <1>5, WrittenMatches
<1> QED BY ONLY <1>6, <1>7 DEF o, p, h

\* What a locked section leaves in the store.
LEMMA LockedStore ==
    ASSUME TypeOK, StoreBounded, NEW t \in Threads, Locked(t)
    PROVE  LET o == op[t]
           IN  /\ o.agent \in Tracked'
               /\ profiles'[o.agent] = Written(Fetched(o.agent, o.mono), o)
               /\ \A a \in Tracked' \ {o.agent} : a \in Tracked /\ profiles'[a] = profiles[a]
               /\ \A a \in Agents \ Tracked' : profiles'[a] = NewProfile
<1> DEFINE o == op[t]
           q == Written(Fetched(o.agent, o.mono), o)
<1>1. o.kind \in Kinds /\ Store(o.agent, q)
  BY LockedWrites
<1>2. o.agent \in Agents /\ lru \in Seq(Agents) /\ Distinct(lru)
  BY <1>1, BusyType DEF TypeOK, StoreBounded, Distinct
<1>3. o.agent \in Tracked'
  <2>1. PICK r \in Profile :
            /\ Len(r.call_times) <= CallTimesMax /\ Len(r.block_times) <= BlockTimesMax
            /\ Store(o.agent, r)
    BY LockedSection
  <2> QED BY <1>2, <2>1, NewProfileType, StoreFacts
<1> HIDE DEF o, q
<1>4. profiles' = [a \in Agents |-> IF a \in Tracked'
                                    THEN IF a = o.agent THEN q ELSE profiles[a]
                                    ELSE NewProfile]
  BY <1>1 DEF Store
<1>5. \A a \in Tracked' : a # o.agent => a \in Tracked
  BY ONLY <1>1, <1>2, StoreKeepsTracked
<1>6. Tracked \subseteq Agents
  BY <1>2 DEF Tracked
<1>7. /\ profiles'[o.agent] = q
      /\ \A a \in Tracked' \ {o.agent} : a \in Tracked /\ profiles'[a] = profiles[a]
      /\ \A a \in Agents \ Tracked' : profiles'[a] = NewProfile
  BY ONLY <1>2, <1>3, <1>4, <1>5, <1>6
<1> QED BY ONLY <1>3, <1>7 DEF o, q

\* A locked section takes its own thread from those that wait, and adds at most
\* its own reading to a history.
LEMMA HistoryStaysOrderly ==
    ASSUME IsFiniteSet(Threads), TypeOK, HistoryInv, NEW t \in Threads, HLocked(t),
           NEW a \in Agents
    PROVE  Orderly(op', ideal'[a].call_times) /\ Orderly(op', ideal'[a].block_times)
<1> DEFINE o == op[t]
           h == IdealFetched(o.agent, o.mono)
           g == Recorded(h, o)
           new == op'
<1>1. /\ o \in Pending /\ o.mono \in Times /\ o.agent \in Agents /\ o.kind \in Kinds
      /\ op'[t].kind \notin Kinds /\ \A u \in Threads \ {t} : op'[u] = op[u]
      /\ ideal' = [ideal EXCEPT ![o.agent] = g]
      /\ h \in Profile
  BY LockedHistory DEF Pending, Kinds
<1>2. /\ ideal \in [Agents -> Profile]
      /\ \A b \in Agents : /\ Orderly(op, ideal[b].call_times)
                           /\ Orderly(op, ideal[b].block_times)
  BY DEF HistoryInv
<1>3. ASSUME NEW s \in Seq(Times), Orderly(op, s)
      PROVE  Orderly(op', s) /\ Orderly(op', Append(s, o.mono))
  <2>1. NoneOlder(op, op', s)
    BY <1>1 DEF NoneOlder
  <2>2. Orderly(op', s)
    BY <1>3, <2>1, OrderlyStays
  <2>3. op[t].kind \in Kinds /\ op[t].mono = o.mono
    BY <1>1
  <2> HIDE DEF o
  <2>4. Orderly(new, Append(s, o.mono))
    <3> HIDE DEF new
    <3> QED BY ONLY IsFiniteSet(Threads), t \in Threads, <1>1, <1>3, <2>3, OrderlyGrows DEF new
  <2> QED BY <2>2, <2>4
<1>4. \A b \in Agents : ideal[b].call_times \in Seq(Times) /\ ideal[b].block_times \in Seq(Times)
  BY <1>2 DEF Profile
<1>5. CASE a # o.agent
  <2>1. ideal'[a] = ideal[a]
    BY <1>1, <1>5
  <2> QED BY <1>2, <1>3, <1>4, <2>1
<1>6. CASE a = o.agent
  <2>1. ideal'[a] = g
    BY <1>1, <1>2, <1>6
  <2>2. /\ h.call_times \in {ideal[o.agent].call_times, <<>>}
        /\ h.block_times \in {ideal[o.agent].block_times, <<>>}
    BY <1>1, <1>2, IdealFetchedFacts
  <2>3. Orderly(op, <<>>)
    BY DEF Orderly
  <2>4. /\ h.call_times \in Seq(Times) /\ Orderly(op, h.call_times)
        /\ h.block_times \in Seq(Times) /\ Orderly(op, h.block_times)
    BY <1>1, <1>2, <2>2, <2>3 DEF Profile
  <2> HIDE DEF h, o
  <2>5. /\ g.call_times = IF o.kind = "observe" THEN Append(h.call_times, o.mono)
                                                ELSE h.call_times
        /\ g.block_times = IF o.kind = "block" THEN Append(h.block_times, o.mono)
                                               ELSE h.block_times
    BY <1>1, RecordedFacts
  <2> HIDE DEF g
  <2>6. Orderly(op', g.call_times) /\ Orderly(op', g.block_times)
    BY <1>3, <2>4, <2>5
  <2> QED BY <2>1, <2>6
<1> QED BY <1>5, <1>6

LEMMA HistoryLocked ==
    ASSUME IsFiniteSet(Threads), TypeOK, StoreBounded, HistoryInv, NEW t \in Threads, HLocked(t)
    PROVE  HistoryInv'
<1> DEFINE o == op[t]
           h == IdealFetched(o.agent, o.mono)
           g == Recorded(h, o)
           q == Written(Fetched(o.agent, o.mono), o)
<1>1. /\ o.agent \in Agents /\ clock' = clock
      /\ op'[t].kind \notin Kinds /\ \A u \in Threads \ {t} : op'[u] = op[u]
      /\ ideal' = [ideal EXCEPT ![o.agent] = g]
      /\ g \in Profile /\ ReadBy(g, clock)
      /\ OneThread => g.last_seen = o.mono
  BY LockedHistory DEF Pending, Kinds
<1>2. /\ o.agent \in Tracked' /\ profiles'[o.agent] = q
      /\ \A a \in Tracked' \ {o.agent} : a \in Tracked /\ profiles'[a] = profiles[a]
      /\ \A a \in Agents \ Tracked' : profiles'[a] = NewProfile
  BY LockedStore DEF HLocked
<1>3. /\ forgotten' = forgotten \cup (Tracked \ Tracked') /\ Tracked \subseteq Agents
      /\ lru' \in Seq(Agents)
  <2>1. TypeOK'
    BY LockedKeepsType DEF HLocked
  <2> QED BY <2>1 DEF HLocked, TypeOK, Tracked
<1>4. Tracked' \subseteq Agents
  BY <1>3 DEF Tracked
<1>5. q.last_seen = o.mono
  <2>1. TypeOK' /\ [Next]_vars /\ Runs(t)
    BY <1>1, LockedWrites, LockedKeepsType, LockedHistory DEF HLocked, Next, Runs, Kinds
  <2> QED BY <1>2, <2>1, OwnProfileStep
<1>6. ResetTogether /\ o.agent \notin forgotten => Matches(q, g)
  BY LockedMatches
<1> HIDE DEF o, g, q
<1>7. ideal' \in [Agents -> Profile] /\ forgotten' \subseteq Agents
  BY <1>1, <1>3 DEF HistoryInv
<1>8. ASSUME NEW u \in Threads, op'[u].kind \in Kinds
      PROVE  /\ op'[u].mono <= clock'
             /\ op'[u].kind = "quarantined" => op'[u].tool \in SensitiveReads
             /\ OneThread => \A a \in Agents : ReadBy(ideal'[a], op'[u].mono)
  <2>1. u # t
    BY <1>1, <1>8
  <2> QED BY <1>1, <1>8, <2>1 DEF HistoryInv, OneThread
<1>9. ASSUME NEW a \in Agents
      PROVE  /\ ReadBy(ideal'[a], clock')
             /\ Orderly(op', ideal'[a].call_times)
             /\ Orderly(op', ideal'[a].block_times)
  <2>1. ReadBy(ideal'[a], clock')
    BY <1>1 DEF HistoryInv
  <2> QED BY <2>1, HistoryStaysOrderly
<1>10. ASSUME OneThread, NEW a \in Tracked'
       PROVE  profiles'[a].last_seen = ideal'[a].last_seen
  <2>1. CASE a = o.agent
    BY <1>1, <1>2, <1>5, <1>10, <2>1 DEF HistoryInv
  <2>2. CASE a # o.agent
    BY <1>1, <1>2, <1>4, <1>10, <2>2 DEF HistoryInv
  <2> QED BY <2>1, <2>2
<1>11. ASSUME ResetTogether, NEW a \in Agents \ forgotten'
       PROVE  Matches(profiles'[a], ideal'[a])
  <2>1. a \in Agents \ forgotten
    BY <1>3, <1>11
  <2>2. Matches(profiles[a], ideal[a])
    BY <1>11, <2>1 DEF HistoryInv
  <2>3. CASE a = o.agent
    <3>1. ideal'[a] = g
      BY <1>1, <2>3 DEF HistoryInv
    <3> QED BY <1>2, <1>6, <1>11, <2>1, <2>3, <3>1
  <2>4. CASE a # o.agent
    <3>1. ideal'[a] = ideal[a]
      BY <1>1, <2>1, <2>4 DEF HistoryInv
    <3>2. profiles'[a] = profiles[a]
      <4>1. CASE a \in Tracked'
        BY <1>2, <2>4, <4>1
      <4>2. CASE a \notin Tracked'
        <5>1. a \notin Tracked
          BY <1>3, <1>11, <4>2
        <5> QED BY <1>2, <2>1, <4>2, <5>1 DEF StoreBounded
      <4> QED BY <4>1, <4>2
    <3> QED BY <2>2, <3>1, <3>2
  <2> QED BY <2>3, <2>4
<1> QED BY <1>7, <1>8, <1>9, <1>10, <1>11 DEF HistoryInv

LEMMA HistoryStep ==
    ASSUME IsFiniteSet(Threads), TypeOK, StoreBounded, HistoryInv, [HNext]_hvars
    PROVE  TypeOK' /\ StoreBounded' /\ HistoryInv'
<1>1. [Next]_vars
  BY DEF HNext, HTick, HCall, HLocked, Next, hvars
<1>2. TypeOK' /\ StoreBounded'
  BY <1>1, MonitorStep
<1>3. HistoryInv'
  <2>1. CASE UNCHANGED hvars
    <3>1. UNCHANGED <<clock, lru, profiles, op, ideal, forgotten>> /\ Tracked' = Tracked
      BY <2>1 DEF hvars, vars, Tracked
    <3> QED BY <3>1 DEF HistoryInv
  <2> QED BY <2>1, HistoryTick, HistoryCall, HistoryLocked DEF HNext
<1> QED BY <1>2, <1>3

\* Only a locked section, recorded in the history, ends an operation.
LEMMA RunsAreRecorded ==
    ASSUME TypeOK, [HNext]_hvars, NEW t \in Threads, Runs(t)
    PROVE  HLocked(t)
<1>1. op' # op
  BY DEF Runs
<1>2. PICK u \in Threads : HCall(u) \/ HLocked(u)
  BY <1>1 DEF HNext, HTick, Tick, hvars, vars
<1>3. CASE HCall(u)
  <2>1. PICK kind \in Kinds, agent \in Agents, tool \in Tools, risky \in BOOLEAN :
            Begin(u, kind, agent, tool, risky)
    BY <1>3 DEF HCall, Call, CallObserve, CallRecordAllow, CallRecordQuarantined,
           CallRecordBlock, Kinds
  <2>2. op'[t] = op[t] \/ op'[t].kind = kind
    BY <2>1 DEF Begin, TypeOK
  <2> QED BY <2>1, <2>2 DEF Runs, Kinds
<1>4. CASE HLocked(u)
  <2>1. PICK keep \in Nat : Finish(u, keep)
    BY <1>4, LockedSection DEF HLocked
  <2>2. u = t
    BY <2>1 DEF Finish, TypeOK, Runs
  <2> QED BY <1>4, <2>2
<1> QED BY <1>2, <1>3, <1>4

-----------------------------------------------------------------------------
(* The scores *)

\* kept counts of all that are recent are the same, or only by late ones short
\* of the deque's length.
Survives(kept, all, max) ==
    /\ kept \in Nat /\ all \in Nat /\ kept <= all
    /\ kept = all \/ kept > max - Cardinality(Threads)

LEMMA OrderlySurvives ==
    ASSUME IsFiniteSet(Threads), NEW t \in Threads, NEW ops, NEW h \in Seq(Times),
           Orderly(ops, h), NEW mono \in Times, NEW window \in Int, NEW max \in Nat \ {0}
    PROVE  Survives(Recent(LastOf(h, max), mono, window), Recent(h, mono, window), max)
<1> DEFINE T == Cardinality(Threads)
           all == Recent(h, mono, window)
           kept == Recent(LastOf(h, max), mono, window)
<1>1. T \in Nat /\ T # 0
  BY FS_CardinalityType, FS_EmptySet
<1>2. \A i \in 1..Len(h) : Cardinality(Late(h, i)) <= T - 1
  <2>1. SUFFICES ASSUME NEW i \in 1..Len(h) PROVE Cardinality(Late(h, i)) <= T - 1
    OBVIOUS
  <2>2. Cardinality(Late(h, i)) + Cardinality(Waiting(ops, h[i])) < T
    BY DEF Orderly
  <2>3. Cardinality(Late(h, i)) \in Nat /\ Cardinality(Waiting(ops, h[i])) \in Nat
    BY LateFacts, WaitingFacts
  <2> HIDE DEF T
  <2> QED BY ONLY <1>1, <2>2, <2>3
<1> HIDE DEF T
<1>3. T - 1 \in Nat
  BY ONLY <1>1
<1>4. /\ all \in Nat /\ kept \in Nat /\ kept <= all
      /\ kept = all \/ kept >= max - (T - 1)
  BY <1>2, <1>3, RecentSurvives
<1> HIDE DEF all, kept
<1>5. kept = all \/ kept > max - T
  BY ONLY <1>1, <1>4, max \in Nat \ {0}
<1> QED BY <1>4, <1>5 DEF Survives, T, all, kept

\* The score that observe returns, and the history it is to be compared with.
LEMMA LockedScore ==
    ASSUME IsFiniteSet(Threads), TypeOK, StoreBounded, HistoryInv, ResetTogether,
           [HNext]_hvars, NEW t \in Threads, Runs(t), op[t].kind = "observe",
           Remembered(op[t].agent)
    PROVE  LET o == op[t]
               h == ideal'[o.agent]
           IN  /\ h.block_times = IdealFetched(o.agent, o.mono).block_times
               /\ \E p \in Profile :
                    /\ op'[t].keep = Score(p, o.mono, o.tool, o.risky)
                    /\ Matches(p, h)
                    /\ Survives(Recent(p.call_times, o.mono, Config.rate_window),
                                Recent(h.call_times, o.mono, Config.rate_window),
                                CallTimesMax)
                    /\ Survives(Recent(p.block_times, o.mono, Config.block_window),
                                Recent(h.block_times, o.mono, Config.block_window),
                                BlockTimesMax)
<1> DEFINE o == op[t]
           h == ideal'[o.agent]
           p == Written(Fetched(o.agent, o.mono), o)
           f == IdealFetched(o.agent, o.mono)
<1>1. HLocked(t)
  BY RunsAreRecorded
<1>2. /\ o \in Pending /\ o.agent \in Agents /\ o.mono \in Times
      /\ h = Recorded(f, o) /\ h \in Profile /\ f \in Profile
  <2>1. /\ o \in Pending /\ f \in Profile /\ Recorded(f, o) \in Profile
        /\ ideal' = [ideal EXCEPT ![o.agent] = Recorded(f, o)]
    BY <1>1, LockedHistory
  <2>2. o.agent \in Agents /\ o.mono \in Times
    BY <2>1 DEF Pending
  <2>3. h = Recorded(f, o)
    BY <2>1, <2>2 DEF HistoryInv
  <2> QED BY <2>1, <2>2, <2>3
<1>3. op[t].agent \notin forgotten
  BY <1>1 DEF Remembered, HLocked
<1>4. p \in Profile /\ Matches(p, h)
  <2>1. p \in Profile /\ Matches(p, Recorded(f, o))
    BY <1>1, <1>3, LockedMatches
  <2> HIDE DEF p, h, f
  <2> QED BY ONLY <1>2, <2>1
<1>5. op'[t].keep = Score(p, o.mono, o.tool, o.risky)
  <2>1. PICK keep : Finish(t, keep) /\ keep = Score(p, o.mono, o.tool, o.risky)
    <3>1. \E keep : /\ Finish(t, keep)
                    /\ o.kind = "observe" => keep = Score(p, o.mono, o.tool, o.risky)
      BY <1>1, LockedWrites DEF HLocked
    <3> HIDE DEF p
    <3> QED BY <3>1
  <2> HIDE DEF p
  <2>2. op'[t] = Returned(keep)
    BY <2>1 DEF Finish, TypeOK
  <2> QED BY <2>1, <2>2 DEF Returned
<1>6. Orderly(op', h.call_times) /\ Orderly(op', h.block_times)
  BY <1>1, <1>2, HistoryStaysOrderly
<1> DEFINE new == op'
<1>7. Orderly(new, h.call_times) /\ Orderly(new, h.block_times)
  BY <1>6
<1>8. h.block_times = f.block_times
  <2>1. o.kind = "observe"
    OBVIOUS
  <2> HIDE DEF o, f, h
  <2>2. Recorded(f, o).block_times = IF o.kind = "block" THEN Append(f.block_times, o.mono)
                                                         ELSE f.block_times
    BY ONLY <1>2, RecordedFacts
  <2> QED BY ONLY <1>2, <2>1, <2>2
<1> HIDE DEF o, h, p, f, new
<1>9. /\ p.call_times = LastOf(h.call_times, CallTimesMax)
      /\ p.block_times = LastOf(h.block_times, BlockTimesMax)
      /\ h.call_times \in Seq(Times) /\ h.block_times \in Seq(Times)
  BY ONLY <1>2, <1>4 DEF Matches, Profile
<1>10. /\ Config.rate_window \in Int /\ Config.block_window \in Int
       /\ CallTimesMax \in Nat \ {0} /\ BlockTimesMax \in Nat \ {0}
  BY ConfigIsValid, BoundsAssumption DEF Validate
<1>11. Survives(Recent(LastOf(h.call_times, CallTimesMax), o.mono, Config.rate_window),
                Recent(h.call_times, o.mono, Config.rate_window), CallTimesMax)
  BY ONLY IsFiniteSet(Threads), t \in Threads, <1>2, <1>7, <1>9, <1>10, OrderlySurvives
<1>12. Survives(Recent(LastOf(h.block_times, BlockTimesMax), o.mono, Config.block_window),
                Recent(h.block_times, o.mono, Config.block_window), BlockTimesMax)
  BY ONLY IsFiniteSet(Threads), t \in Threads, <1>2, <1>7, <1>9, <1>10, OrderlySurvives
<1>13. /\ h.block_times = f.block_times
       /\ \E r \in Profile :
            /\ op'[t].keep = Score(r, o.mono, o.tool, o.risky)
            /\ Matches(r, h)
            /\ Survives(Recent(r.call_times, o.mono, Config.rate_window),
                        Recent(h.call_times, o.mono, Config.rate_window), CallTimesMax)
            /\ Survives(Recent(r.block_times, o.mono, Config.block_window),
                        Recent(h.block_times, o.mono, Config.block_window), BlockTimesMax)
  <2>1. p \in Profile
    BY ONLY <1>4
  <2> QED BY ONLY <2>1, <1>4, <1>5, <1>8, <1>9, <1>11, <1>12
<1> QED BY ONLY <1>13 DEF o, h, f

\* The factors of a score.
LEMMA FactorFacts ==
    ASSUME NEW attempts \in Nat, NEW blocks \in Nat, NEW p, NEW mono, NEW tool, NEW risky
    PROVE  /\ RateKeep(attempts) \in Nat /\ RateKeep(attempts) <= 20 * Config.rate_limit
           /\ attempts > Config.rate_limit => RateKeep(attempts) <= 20 * Config.rate_limit - 1
           /\ attempts >= 2 * Config.rate_limit => RateKeep(attempts) = 8 * Config.rate_limit
           /\ BaselineKeep(p, tool) \in Nat /\ BaselineKeep(p, tool) <= 20
           /\ SequenceKeep(p, mono, risky) \in Nat /\ SequenceKeep(p, mono, risky) <= 20
           /\ BlocksKeep(blocks) \in Nat /\ BlocksKeep(blocks) <= 20 /\ BlocksKeep(blocks) >= 10
           /\ blocks >= 3 => BlocksKeep(blocks) = 10
<1> DEFINE limit == Config.rate_limit
<1>1. limit \in Nat /\ limit >= 1
  BY ConfigFacts
<1> HIDE DEF limit
<1>2. /\ RateKeep(attempts) \in Nat /\ RateKeep(attempts) <= 20 * limit
      /\ attempts > limit => RateKeep(attempts) <= 20 * limit - 1
      /\ attempts >= 2 * limit => RateKeep(attempts) = 8 * limit
  BY <1>1 DEF RateKeep, limit
<1>3. BaselineKeep(p, tool) \in Nat /\ BaselineKeep(p, tool) <= 20
  BY DEF BaselineKeep
<1>4. SequenceKeep(p, mono, risky) \in Nat /\ SequenceKeep(p, mono, risky) <= 20
  BY DEF SequenceKeep
<1>5. /\ BlocksKeep(blocks) \in Nat /\ BlocksKeep(blocks) <= 20 /\ BlocksKeep(blocks) >= 10
      /\ blocks >= 3 => BlocksKeep(blocks) = 10
  BY DEF BlocksKeep
<1> QED BY <1>2, <1>3, <1>4, <1>5 DEF limit

-----------------------------------------------------------------------------
(* The properties of a step *)

\* The deques hold what the factors can tell apart: the rate factor is at its
\* least from twice the limit on, the factor for blocks from three on.
RoomForScores == 2 * Config.rate_limit <= CallTimesMax /\ 3 <= BlockTimesMax

\* They still do when all but one of the threads come late.
RoomForBurst ==
    IsFiniteSet(Threads) /\ Config.rate_limit + Cardinality(Threads) <= CallTimesMax

RoomForRecentBlocks == IsFiniteSet(Threads) /\ Cardinality(Threads) + 2 <= BlockTimesMax

LEMMA ExactStep ==
    ASSUME OneThread, RoomForScores, TypeOK, StoreBounded, HistoryInv, [HNext]_hvars,
           NEW t \in Threads, Runs(t), op[t].kind = "observe", Remembered(op[t].agent)
    PROVE  LET o == op[t]
           IN  op'[t].keep = Score(ideal'[o.agent], o.mono, o.tool, o.risky)
<1> DEFINE o == op[t]
           h == ideal'[o.agent]
           rate(x) == Recent(x.call_times, o.mono, Config.rate_window)
           blocked(x) == Recent(x.block_times, o.mono, Config.block_window)
<1>1. IsFiniteSet(Threads) /\ Cardinality(Threads) \in {0, 1}
  BY OneThreadFinite
<1>2. PICK p \in Profile :
          /\ op'[t].keep = Score(p, o.mono, o.tool, o.risky)
          /\ Matches(p, h)
          /\ Survives(rate(p), rate(h), CallTimesMax)
          /\ Survives(blocked(p), blocked(h), BlockTimesMax)
  BY <1>1, LockedScore DEF ResetTogether
<1>3. /\ rate(p) \in Nat /\ rate(h) \in Nat
      /\ rate(p) = rate(h) \/ (rate(p) >= CallTimesMax /\ rate(h) >= CallTimesMax)
      /\ blocked(p) \in Nat /\ blocked(h) \in Nat
      /\ blocked(p) = blocked(h) \/ (blocked(p) >= BlockTimesMax /\ blocked(h) >= BlockTimesMax)
  <2> HIDE DEF rate, blocked, h
  <2> QED BY ONLY <1>1, <1>2, BoundsAssumption DEF Survives
<1>4. /\ p.seen_tools = h.seen_tools /\ p.total_calls = h.total_calls
      /\ p.read_at = h.read_at
  BY <1>2 DEF Matches
<1> HIDE DEF o, h, rate, blocked
<1>5. RateKeep(rate(p)) = RateKeep(rate(h))
  <2>1. CASE rate(p) = rate(h)
    BY <2>1
  <2>2. CASE rate(p) >= CallTimesMax /\ rate(h) >= CallTimesMax
    <3>1. rate(p) >= 2 * Config.rate_limit /\ rate(h) >= 2 * Config.rate_limit
      BY ONLY <1>3, <2>2, RoomForScores, BoundsAssumption, ConfigFacts DEF RoomForScores
    <3> QED BY ONLY <1>3, <3>1, FactorFacts
  <2> QED BY ONLY <1>3, <2>1, <2>2
<1>6. BlocksKeep(blocked(p)) = BlocksKeep(blocked(h))
  <2>1. CASE blocked(p) = blocked(h)
    BY <2>1
  <2>2. CASE blocked(p) >= BlockTimesMax /\ blocked(h) >= BlockTimesMax
    <3>1. blocked(p) >= 3 /\ blocked(h) >= 3
      BY ONLY <1>3, <2>2, RoomForScores, BoundsAssumption DEF RoomForScores
    <3> QED BY ONLY <1>3, <3>1, FactorFacts
  <2> QED BY ONLY <1>3, <2>1, <2>2
<1>7. BaselineKeep(p, o.tool) = BaselineKeep(h, o.tool)
  BY ONLY <1>4 DEF BaselineKeep
<1>8. SequenceKeep(p, o.mono, o.risky) = SequenceKeep(h, o.mono, o.risky)
  BY ONLY <1>4 DEF SequenceKeep
<1>9. Score(p, o.mono, o.tool, o.risky) = Score(h, o.mono, o.tool, o.risky)
  BY ONLY <1>5, <1>6, <1>7, <1>8 DEF Score, rate, blocked
<1> QED BY <1>2, <1>9 DEF o, h

\* A product of the four factors is within the product of their bounds.
LEMMA ScoreWithin ==
    ASSUME NEW r \in Nat, NEW b \in Nat, NEW s \in Nat, NEW k \in Nat, NEW R \in Nat,
           NEW K \in Nat, r <= R, b <= 20, s <= 20, k <= K
    PROVE  r * b * s * k <= R * 20 * 20 * K
<1>1. r * b <= R * 20 /\ r * b \in Nat /\ R * 20 \in Nat
  BY ProductGrows, NatProduct
<1> DEFINE x == r * b
           X == R * 20
<1>2. x <= X /\ x \in Nat /\ X \in Nat
  BY <1>1
<1> HIDE DEF x, X
<1>3. x * s <= X * 20 /\ x * s \in Nat /\ X * 20 \in Nat
  BY <1>2, ProductGrows, NatProduct
<1> DEFINE y == x * s
           Y == X * 20
<1>4. y <= Y /\ y \in Nat /\ Y \in Nat
  BY <1>3
<1> HIDE DEF y, Y
<1>5. y * k <= Y * K
  BY <1>4, ProductGrows
<1> QED BY <1>5 DEF x, X, y, Y

LEMMA BurstStep ==
    ASSUME ResetTogether, RoomForBurst, TypeOK, StoreBounded, HistoryInv, [HNext]_hvars,
           NEW t \in Threads, Runs(t), op[t].kind = "observe", Remembered(op[t].agent),
           Recent(ideal'[op[t].agent].call_times, op[t].mono, Config.rate_window)
             > Config.rate_limit
    PROVE  op'[t].keep < Scale
<1> DEFINE o == op[t]
           h == ideal'[o.agent]
           rate(x) == Recent(x.call_times, o.mono, Config.rate_window)
           blocked(x) == Recent(x.block_times, o.mono, Config.block_window)
           T == Cardinality(Threads)
           limit == Config.rate_limit
<1>1. PICK p \in Profile :
          /\ op'[t].keep = Score(p, o.mono, o.tool, o.risky)
          /\ Survives(rate(p), rate(h), CallTimesMax)
          /\ Survives(blocked(p), blocked(h), BlockTimesMax)
  BY LockedScore DEF RoomForBurst
<1>2. rate(h) > limit
  OBVIOUS
<1>3. T \in Nat /\ limit \in Nat /\ limit >= 1 /\ limit + T <= CallTimesMax
      /\ CallTimesMax \in Nat
  BY FS_CardinalityType, BoundsAssumption, ConfigFacts DEF RoomForBurst
<1> HIDE DEF rate, blocked, h, o
<1>4. rate(p) \in Nat /\ rate(p) > limit /\ blocked(p) \in Nat
  <2>1. /\ rate(p) \in Nat /\ rate(h) \in Nat /\ blocked(p) \in Nat
        /\ rate(p) = rate(h) \/ rate(p) > CallTimesMax - T
    BY ONLY <1>1 DEF Survives
  <2> HIDE DEF T, limit
  <2> QED BY ONLY <1>2, <1>3, <2>1
<1> DEFINE r == RateKeep(rate(p))
           b == BaselineKeep(p, o.tool)
           s == SequenceKeep(p, o.mono, o.risky)
           k == BlocksKeep(blocked(p))
<1>5. /\ r \in Nat /\ r <= 20 * limit - 1 /\ b \in Nat /\ b <= 20
      /\ s \in Nat /\ s <= 20 /\ k \in Nat /\ k <= 20
  BY ONLY <1>4, FactorFacts
<1>6. Score(p, o.mono, o.tool, o.risky) = r * b * s * k
  BY DEF Score, rate, blocked
<1>7. Scale = 20 * 20 * 20 * (20 * limit)
  BY DEF Scale
<1> HIDE DEF r, b, s, k, limit
<1>8. 20 * limit - 1 \in Nat
  BY ONLY <1>3
<1>9. r * b * s * k <= (20 * limit - 1) * 20 * 20 * 20
  BY ONLY <1>5, <1>8, ScoreWithin
<1>10. r * b * s * k \in Nat
  BY <1>5, NatProduct
<1> DEFINE keep == r * b * s * k
<1>11. keep \in Nat /\ keep <= (20 * limit - 1) * 20 * 20 * 20
  BY <1>9, <1>10
<1> HIDE DEF keep
<1>12. keep < 20 * 20 * 20 * (20 * limit)
  BY ONLY <1>3, <1>11
<1> QED BY <1>1, <1>6, <1>7, <1>12 DEF keep

LEMMA BlocksStep ==
    ASSUME ResetTogether, RoomForRecentBlocks, TypeOK, StoreBounded, HistoryInv, [HNext]_hvars,
           NEW t \in Threads, Runs(t), op[t].kind = "observe", Remembered(op[t].agent)
    PROVE  LET o == op[t]
               blocks == Recent(IdealFetched(o.agent, o.mono).block_times, o.mono,
                                Config.block_window)
           IN  20 * op'[t].keep <= BlocksKeep(blocks) * Scale
<1> DEFINE o == op[t]
           h == ideal'[o.agent]
           rate(x) == Recent(x.call_times, o.mono, Config.rate_window)
           blocked(x) == Recent(x.block_times, o.mono, Config.block_window)
           f == IdealFetched(o.agent, o.mono)
           T == Cardinality(Threads)
           limit == Config.rate_limit
<1>1. /\ h.block_times = f.block_times
      /\ \E p \in Profile :
          /\ op'[t].keep = Score(p, o.mono, o.tool, o.risky)
          /\ Survives(rate(p), rate(h), CallTimesMax)
          /\ Survives(blocked(p), blocked(h), BlockTimesMax)
  BY LockedScore DEF RoomForRecentBlocks
<1>2. blocked(f) = blocked(h)
  BY <1>1
<1>3. T \in Nat /\ limit \in Nat /\ limit >= 1 /\ T + 2 <= BlockTimesMax
      /\ BlockTimesMax \in Nat
  BY FS_CardinalityType, BoundsAssumption, ConfigFacts DEF RoomForRecentBlocks
<1> HIDE DEF rate, blocked, h, o, f
<1>4. PICK p \in Profile :
          /\ op'[t].keep = Score(p, o.mono, o.tool, o.risky)
          /\ Survives(rate(p), rate(h), CallTimesMax)
          /\ Survives(blocked(p), blocked(h), BlockTimesMax)
  BY <1>1
<1>5. /\ rate(p) \in Nat /\ blocked(p) \in Nat /\ blocked(h) \in Nat
      /\ blocked(p) = blocked(h) \/ blocked(p) >= 3
  <2>1. /\ rate(p) \in Nat /\ blocked(p) \in Nat /\ blocked(h) \in Nat
        /\ blocked(p) = blocked(h) \/ blocked(p) > BlockTimesMax - T
    BY ONLY <1>4 DEF Survives
  <2> HIDE DEF T
  <2> QED BY ONLY <1>3, <2>1
<1> DEFINE r == RateKeep(rate(p))
           b == BaselineKeep(p, o.tool)
           s == SequenceKeep(p, o.mono, o.risky)
           k == BlocksKeep(blocked(p))
           K == BlocksKeep(blocked(f))
<1>6. /\ r \in Nat /\ r <= 20 * limit /\ b \in Nat /\ b <= 20
      /\ s \in Nat /\ s <= 20 /\ k \in Nat
  BY ONLY <1>5, FactorFacts
<1>7. K \in Nat /\ k <= K
  <2>1. BlocksKeep(blocked(h)) \in Nat /\ BlocksKeep(blocked(h)) >= 10
    BY ONLY <1>5, FactorFacts
  <2>2. CASE blocked(p) = blocked(h)
    BY ONLY <1>2, <1>6, <2>1, <2>2
  <2>3. CASE blocked(p) >= 3
    <3>1. k = 10
      BY ONLY <1>5, <2>3, FactorFacts
    <3> QED BY ONLY <1>2, <2>1, <3>1
  <2> QED BY ONLY <1>5, <2>2, <2>3
<1>8. Score(p, o.mono, o.tool, o.risky) = r * b * s * k
  BY DEF Score, rate, blocked
<1>9. Scale = 20 * 20 * 20 * (20 * limit)
  BY DEF Scale
<1> HIDE DEF r, b, s, k, K, limit
<1>10. r * b * s * k <= (20 * limit) * 20 * 20 * K
  <2>1. 20 * limit \in Nat
    BY ONLY <1>3
  <2> QED BY ONLY <1>6, <1>7, <2>1, ScoreWithin
<1>11. r * b * s * k \in Nat
  BY <1>6, NatProduct
<1> DEFINE keep == r * b * s * k
           M == limit * K
<1>12. keep \in Nat /\ keep <= 8000 * M
  <2>1. (20 * limit) * 20 * 20 * K = 8000 * M
    BY ONLY <1>3, <1>7
  <2> QED BY <1>10, <1>11, <2>1
<1>13. M \in Nat
  BY <1>3, <1>7, NatProduct
<1>14. K * (20 * 20 * 20 * (20 * limit)) = 160000 * M
  BY ONLY <1>3, <1>7
<1> HIDE DEF keep, M
<1>15. 20 * keep <= 160000 * M
  BY ONLY <1>12, <1>13
<1>16. 20 * keep <= K * Scale
  BY ONLY <1>9, <1>14, <1>15
<1> QED BY <1>4, <1>8, <1>16 DEF keep, K, f, o, blocked

\* With one thread a profile is reset only by the TTL, counted from the agent's
\* newest access.
LEMMA ResetStep ==
    ASSUME OneThread, TypeOK, StoreBounded, HistoryInv, [HNext]_hvars,
           NEW a \in Tracked \cap Tracked',
           \/ profiles'[a].total_calls < profiles[a].total_calls
           \/ ~(profiles[a].seen_tools \subseteq profiles'[a].seen_tools)
    PROVE  clock - ideal[a].last_seen > Config.profile_ttl
<1>1. /\ a \in Agents /\ profiles[a] \in Profile
      /\ profiles[a].last_seen = ideal[a].last_seen
  BY DEF TypeOK, HistoryInv, Tracked
<1>2. profiles'[a] # profiles[a]
  <2>1. profiles[a].total_calls \in Nat
    BY <1>1 DEF Profile
  <2> QED BY <2>1
<1>3. PICK t \in Threads : HLocked(t)
  <2>1. profiles' # profiles
    BY <1>2
  <2>2. ~HTick /\ ~(UNCHANGED hvars)
    BY <2>1 DEF HTick, Tick, hvars, vars
  <2>3. ASSUME NEW t \in Threads, HCall(t)
        PROVE  profiles' = profiles
    BY <2>3 DEF HCall, Call, CallObserve, CallRecordAllow, CallRecordQuarantined,
           CallRecordBlock, Begin
  <2> QED BY <2>1, <2>2, <2>3 DEF HNext
<1> DEFINE o == op[t]
           p == Fetched(o.agent, o.mono)
<1>4. /\ profiles'[o.agent] = Written(p, o)
      /\ a # o.agent => profiles'[a] = profiles[a]
  BY <1>3, LockedStore DEF HLocked
<1>5. a = o.agent
  BY <1>2, <1>4
<1>6. /\ o \in Pending /\ o.mono \in Times /\ o.mono <= clock
      /\ o.mono \in Int /\ clock \in Int
  BY <1>3, LockedHistory DEF Pending
<1>7. /\ p \in Profile /\ Len(p.call_times) <= CallTimesMax
      /\ Len(p.block_times) <= BlockTimesMax
  BY <1>1, <1>5, <1>6, FetchedType
<1>8. p.total_calls <= Written(p, o).total_calls /\ p.seen_tools \subseteq Written(p, o).seen_tools
      /\ Written(p, o) \in Profile
  <2> HIDE DEF p, o
  <2> QED BY ONLY <1>6, <1>7, WrittenType
<1>9. o.mono - profiles[a].last_seen > Config.profile_ttl
  <2>1. SUFFICES ASSUME ~(o.mono - profiles[a].last_seen > Config.profile_ttl)
                 PROVE  FALSE
    OBVIOUS
  <2>2. p = [profiles[a] EXCEPT !.last_seen = o.mono]
    BY <1>5, <2>1 DEF Fetched
  <2>3. p.total_calls = profiles[a].total_calls /\ p.seen_tools = profiles[a].seen_tools
    BY ONLY <1>1, <2>2 DEF Profile
  <2>4. profiles'[a] = Written(p, o)
    BY <1>4, <1>5
  <2>5. Written(p, o).total_calls \in Nat /\ profiles[a].total_calls \in Nat
    BY ONLY <1>1, <1>8 DEF Profile
  <2> HIDE DEF p, o
  <2> QED BY <1>8, <2>3, <2>4, <2>5
<1>10. profiles[a].last_seen \in Int /\ Config.profile_ttl \in Int
  <2>1. profiles[a].last_seen \in Times
    BY <1>1 DEF Profile
  <2> QED BY <2>1, TimesAreInts, ConfigFacts
<1> HIDE DEF o
<1> QED BY <1>1, <1>6, <1>9, <1>10

-----------------------------------------------------------------------------
(* Theorems *)

Inv == TypeOK /\ StoreBounded /\ HistoryInv

LEMMA HistoryInvariant == ASSUME IsFiniteSet(Threads) PROVE HSpec => []Inv
<1>1. HInit => Inv
  BY HistoryInit DEF Inv
<1>2. Inv /\ [HNext]_hvars => Inv'
  BY HistoryStep DEF Inv
<1> QED BY <1>1, <1>2, PTL DEF HSpec

\* observe's score (behavior.py:104-164) is that of the history that forgets
\* nothing, for every number of agents, every cap of the store, every TTL and any
\* length of behaviour: bounding the deques to what the factors tell apart loses
\* nothing, and an agent that was never evicted loses nothing by the bound of the
\* store.  For one thread, as readings of several reach the lock out of order.
THEOREM ScoresAreExact == OneThread /\ RoomForScores /\ HSpec => ScoreIsExact
<1> SUFFICES ASSUME OneThread, RoomForScores
             PROVE  HSpec => ScoreIsExact
  OBVIOUS
<1>1. Inv /\ [HNext]_hvars
        => [\A t \in Threads :
              LET o == op[t]
              IN  Runs(t) /\ o.kind = "observe" /\ Remembered(o.agent)
                  => op'[t].keep = Score(ideal'[o.agent], o.mono, o.tool, o.risky)]_hvars
  BY ExactStep DEF Inv
<1>2. HSpec => []Inv
  BY OneThreadFinite, HistoryInvariant
<1> QED BY <1>1, <1>2, PTL DEF HSpec, ScoreIsExact

\* "TTL: a long-idle profile is stale; start fresh" (behavior.py:79-90): the
\* baseline of an agent in the store is lost only when its newest access is more
\* than the TTL ago, for every configuration and number of agents.  For one
\* thread: an operation that waited for the lock sets last_seen back.
THEOREM ResetsOnlyTheIdle == OneThread /\ HSpec => ResetOnlyWhenIdle
<1> SUFFICES ASSUME OneThread
             PROVE  HSpec => ResetOnlyWhenIdle
  OBVIOUS
<1>1. Inv /\ [HNext]_hvars
        => [\A a \in Tracked \cap Tracked' :
              \/ profiles'[a].total_calls < profiles[a].total_calls
              \/ ~(profiles[a].seen_tools \subseteq profiles'[a].seen_tools)
              => clock - ideal[a].last_seen > Config.profile_ttl]_hvars
  BY ResetStep DEF Inv
<1>2. HSpec => []Inv
  BY OneThreadFinite, HistoryInvariant
<1> QED BY <1>1, <1>2, PTL DEF HSpec, ResetOnlyWhenIdle

\* "a burst above the sustained rate is suspicious" (behavior.py:8-9, 126-132):
\* whatever the other signals, and in whatever order any number of threads reach
\* the lock, more than rate_limit attempts in the window raise the score.
THEOREM BurstsAreSuspicious == ResetTogether /\ RoomForBurst /\ HSpec => BurstIsSuspicious
<1> SUFFICES ASSUME ResetTogether, RoomForBurst
             PROVE  HSpec => BurstIsSuspicious
  OBVIOUS
<1>1. Inv /\ [HNext]_hvars
        => [\A t \in Threads :
              LET o == op[t]
              IN  /\ Runs(t) /\ o.kind = "observe" /\ Remembered(o.agent)
                  /\ Recent(ideal'[o.agent].call_times, o.mono, Config.rate_window)
                       > Config.rate_limit
                  => op'[t].keep < Scale]_hvars
  BY BurstStep DEF Inv
<1>2. HSpec => []Inv
  BY HistoryInvariant DEF RoomForBurst
<1> QED BY <1>1, <1>2, PTL DEF HSpec, BurstIsSuspicious

\* "a few benign calls can't wash out an attack burst" (behavior.py:13-14, 153-158):
\* a block in the window counts in the score whatever the agent does after it, for
\* any number of threads in any order.
THEOREM BlocksAreRemembered == ResetTogether /\ RoomForRecentBlocks /\ HSpec => BlocksNotWashedOut
<1> SUFFICES ASSUME ResetTogether, RoomForRecentBlocks
             PROVE  HSpec => BlocksNotWashedOut
  OBVIOUS
<1>1. Inv /\ [HNext]_hvars
        => [\A t \in Threads :
              LET o == op[t]
                  blocks == Recent(IdealFetched(o.agent, o.mono).block_times, o.mono,
                                   Config.block_window)
              IN  Runs(t) /\ o.kind = "observe" /\ Remembered(o.agent) /\ blocks > 0
                  => 20 * op'[t].keep <= BlocksKeep(blocks) * Scale]_hvars
  BY BlocksStep DEF Inv
<1>2. HSpec => []Inv
  BY HistoryInvariant DEF RoomForRecentBlocks
<1> QED BY <1>1, <1>2, PTL DEF HSpec, BlocksNotWashedOut
=============================================================================
