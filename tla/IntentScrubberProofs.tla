------------------------ MODULE IntentScrubberProofs ------------------------
(***************************************************************************)
(* The scrubber, for every corpus, number of threads and cache size: an       *)
(* answer is what the baseline computes for that very text, the cache holds   *)
(* the last texts used whatever the threads do between lookup and insertion,  *)
(* and what is scrubbed needs no second scrub and scores no higher.           *)
(***************************************************************************)
EXTENDS IntentScrubber, SequenceTheorems, FiniteSetTheorems, TLAPS

LEMMA CacheSizeFacts == CacheSize \in Nat /\ CacheSize >= 1
BY ScrubberAssumption

-----------------------------------------------------------------------------
(* The pre-filter *)

LEMMA CanonicalizedType ==
    ASSUME NEW doc \in Documents
    PROVE  Canonicalized(doc) \in Documents
<1> DEFINE L == [i \in 1..Len(doc.lines) |-> [doc.lines[i] EXCEPT !.hidden = FALSE]]
<1>1. /\ doc \in [lines : Seq(Line), across : Seq(SUBSET Signals)]
      /\ Len(doc.lines) = Len(doc.across) + 1
  BY DEF Documents
<1>2. Len(doc.lines) \in Nat /\ \A i \in 1..Len(doc.lines) : doc.lines[i] \in Line
  BY <1>1
<1>3. \A i \in 1..Len(doc.lines) : [doc.lines[i] EXCEPT !.hidden = FALSE] \in Line
  BY <1>2 DEF Line
<1>4. L \in Seq(Line) /\ Len(L) = Len(doc.lines)
  BY <1>2, <1>3, IsASeq
<1>5. Canonicalized(doc) = [doc EXCEPT !.lines = L]
  BY DEF Canonicalized
<1> HIDE DEF L
<1>6. /\ Canonicalized(doc) \in [lines : Seq(Line), across : Seq(SUBSET Signals)]
      /\ Canonicalized(doc).lines = L /\ Canonicalized(doc).across = doc.across
  BY <1>1, <1>4, <1>5
<1> QED BY <1>1, <1>4, <1>6 DEF Documents

\* A document none of whose lines is flagged is left as it is.
LEMMA NothingToRemove ==
    ASSUME NEW doc \in Documents, Redacted(doc) = {}
    PROVE  WithoutFlagged(doc) = doc
<1>1. doc \in [lines : Seq(Line), across : Seq(SUBSET Signals)]
  BY DEF Documents
<1> DEFINE L == [i \in 1..Len(doc.lines) |->
                   IF i \in Redacted(doc) THEN REDACTION ELSE doc.lines[i]]
           A == [i \in 1..Len(doc.across) |->
                   IF {i, i + 1} \cap Redacted(doc) # {} THEN {} ELSE doc.across[i]]
<1>2. L = [i \in 1..Len(doc.lines) |-> doc.lines[i]]
  OBVIOUS
<1>3. A = [i \in 1..Len(doc.across) |-> doc.across[i]]
  OBVIOUS
<1>4. doc.lines = [i \in 1..Len(doc.lines) |-> doc.lines[i]]
  BY <1>1
<1>5. doc.across = [i \in 1..Len(doc.across) |-> doc.across[i]]
  BY <1>1
<1>6. WithoutFlagged(doc) = [lines |-> L, across |-> A]
  BY DEF WithoutFlagged
<1> HIDE DEF L, A
<1>7. WithoutFlagged(doc) = [lines |-> doc.lines, across |-> doc.across]
  BY <1>2, <1>3, <1>4, <1>5, <1>6
<1> QED BY <1>1, <1>7

\* Skipping the scan when the master pattern finds nothing changes no result.
LEMMA FastIsNaive ==
    ASSUME NEW doc \in Documents
    PROVE  FastScrub(doc) = NaiveScrub(doc)
<1> DEFINE norm == Canonicalized(doc)
<1>1. norm \in Documents
  BY CanonicalizedType
<1>2. CASE MasterMatches(norm)
  BY <1>2 DEF FastScrub, NaiveScrub
<1>3. CASE ~MasterMatches(norm)
  <2>1. \A i \in 1..Len(norm.lines) : MatchView(norm.lines[i]) \subseteq Seen(norm)
    BY DEF Seen
  <2>2. Redacted(norm) = {}
    BY <1>3, <2>1 DEF MasterMatches, Redacted, Flagged
  <2>3. WithoutFlagged(norm) = norm /\ Cardinality(Redacted(norm)) = 0
    BY <1>1, <2>2, NothingToRemove, FS_EmptySet
  <2>4. FastScrub(doc) = ScrubResult(norm, 0)
    BY <1>3 DEF FastScrub
  <2>5. NaiveScrub(doc) = ScrubResult(WithoutFlagged(norm), Cardinality(Redacted(norm)))
    BY DEF NaiveScrub
  <2> QED BY <2>3, <2>4, <2>5
<1> QED BY <1>2, <1>3

-----------------------------------------------------------------------------
(* What is left of a document *)

LEMMA CanonicalizedFields ==
    ASSUME NEW doc \in Documents
    PROVE  /\ Len(Canonicalized(doc).lines) = Len(doc.lines)
           /\ Canonicalized(doc).across = doc.across
           /\ \A i \in 1..Len(doc.lines) :
                 /\ Canonicalized(doc).lines[i].hidden = FALSE
                 /\ MatchView(Canonicalized(doc).lines[i]) = MatchView(doc.lines[i])
<1> DEFINE L == [i \in 1..Len(doc.lines) |-> [doc.lines[i] EXCEPT !.hidden = FALSE]]
<1>1. /\ doc \in [lines : Seq(Line), across : Seq(SUBSET Signals)]
      /\ Len(doc.lines) \in Nat
      /\ \A i \in 1..Len(doc.lines) : doc.lines[i] \in Line
  BY DEF Documents
<1>2. ASSUME NEW i \in 1..Len(doc.lines)
      PROVE  /\ L[i].hidden = FALSE
             /\ L[i].plain = doc.lines[i].plain /\ L[i].veiled = doc.lines[i].veiled
  BY <1>1 DEF Line
<1>3. Len(L) = Len(doc.lines)
  BY <1>1
<1>4. Canonicalized(doc) = [doc EXCEPT !.lines = L]
  BY DEF Canonicalized
<1> HIDE DEF L
<1>5. Canonicalized(doc).lines = L /\ Canonicalized(doc).across = doc.across
  BY <1>1, <1>4
<1>6. \A i \in 1..Len(doc.lines) : MatchView(L[i]) = MatchView(doc.lines[i])
  BY <1>2 DEF MatchView, Normalized
<1> QED BY <1>2, <1>3, <1>5, <1>6

\* Invisible characters hide no pattern from the detector.
LEMMA CanonicalizedSeen ==
    ASSUME NEW doc \in Documents
    PROVE  Seen(Canonicalized(doc)) = Seen(doc)
<1>1. {MatchView(Canonicalized(doc).lines[i]) : i \in 1..Len(doc.lines)}
        = {MatchView(doc.lines[i]) : i \in 1..Len(doc.lines)}
  BY CanonicalizedFields
<1> QED BY <1>1, CanonicalizedFields DEF Seen

\* No line is left with an invisible character or a pattern that is removed, and
\* nothing is left that was not there.
Clean(text) ==
    /\ text \in Documents
    /\ \A i \in 1..Len(text.lines) :
          /\ text.lines[i].hidden = FALSE
          /\ MatchView(text.lines[i]) \cap Removable = {}

LEMMA RedactionFields ==
    /\ REDACTION \in Line /\ REDACTION.hidden = FALSE /\ MatchView(REDACTION) = {}
BY DEF REDACTION, Line, MatchView, Normalized

LEMMA WithoutFlaggedFields ==
    ASSUME NEW doc \in Documents
    PROVE  /\ WithoutFlagged(doc) \in Documents
           /\ Len(WithoutFlagged(doc).lines) = Len(doc.lines)
           /\ Len(WithoutFlagged(doc).across) = Len(doc.across)
           /\ \A i \in 1..Len(doc.lines) :
                 WithoutFlagged(doc).lines[i] =
                    IF Flagged(doc.lines[i]) THEN REDACTION ELSE doc.lines[i]
           /\ \A i \in 1..Len(doc.across) :
                 WithoutFlagged(doc).across[i] \in {{}, doc.across[i]}
<1>1. /\ doc \in [lines : Seq(Line), across : Seq(SUBSET Signals)]
      /\ Len(doc.lines) = Len(doc.across) + 1
      /\ Len(doc.lines) \in Nat /\ Len(doc.across) \in Nat
  BY DEF Documents
<1> DEFINE L == [i \in 1..Len(doc.lines) |->
                   IF i \in Redacted(doc) THEN REDACTION ELSE doc.lines[i]]
           A == [i \in 1..Len(doc.across) |->
                   IF {i, i + 1} \cap Redacted(doc) # {} THEN {} ELSE doc.across[i]]
<1>2. L \in Seq(Line) /\ Len(L) = Len(doc.lines)
  <2>1. \A i \in 1..Len(doc.lines) : doc.lines[i] \in Line
    BY <1>1
  <2>2. \A i \in 1..Len(doc.lines) :
           (IF i \in Redacted(doc) THEN REDACTION ELSE doc.lines[i]) \in Line
    BY <2>1, RedactionFields
  <2> QED BY <1>1, <2>2, IsASeq
<1>3. A \in Seq(SUBSET Signals) /\ Len(A) = Len(doc.across)
  <2>1. \A i \in 1..Len(doc.across) : doc.across[i] \in SUBSET Signals
    BY <1>1
  <2>2. \A i \in 1..Len(doc.across) :
           (IF {i, i + 1} \cap Redacted(doc) # {} THEN {} ELSE doc.across[i])
              \in SUBSET Signals
    BY <2>1
  <2> QED BY <1>1, <2>2, IsASeq
<1>4. \A i \in 1..Len(doc.lines) :
         L[i] = IF Flagged(doc.lines[i]) THEN REDACTION ELSE doc.lines[i]
  BY DEF Redacted
<1>5. \A i \in 1..Len(doc.across) : A[i] \in {{}, doc.across[i]}
  OBVIOUS
<1>6. WithoutFlagged(doc) = [lines |-> L, across |-> A]
  BY DEF WithoutFlagged
<1> HIDE DEF L, A
<1>7. WithoutFlagged(doc).lines = L /\ WithoutFlagged(doc).across = A
  BY <1>6
<1>8. WithoutFlagged(doc) \in Documents
  BY <1>1, <1>2, <1>3, <1>6 DEF Documents
<1> QED BY <1>2, <1>3, <1>4, <1>5, <1>7, <1>8

LEMMA SeenFacts ==
    ASSUME NEW doc, NEW p
    PROVE  p \in Seen(doc) <=>
             \/ \E i \in 1..Len(doc.lines) : p \in MatchView(doc.lines[i])
             \/ \E i \in 1..Len(doc.across) : p \in doc.across[i]
BY DEF Seen

\* Redacting adds no pattern, and leaves a text in which there is nothing to redact.
LEMMA WithoutFlaggedIsClean ==
    ASSUME NEW doc \in Documents,
           \A i \in 1..Len(doc.lines) : doc.lines[i].hidden = FALSE
    PROVE  Clean(WithoutFlagged(doc)) /\ Seen(WithoutFlagged(doc)) \subseteq Seen(doc)
<1> DEFINE text == WithoutFlagged(doc)
<1>1. /\ text \in Documents
      /\ Len(text.lines) = Len(doc.lines) /\ Len(text.across) = Len(doc.across)
      /\ \A i \in 1..Len(doc.lines) :
            text.lines[i] = IF Flagged(doc.lines[i]) THEN REDACTION ELSE doc.lines[i]
      /\ \A i \in 1..Len(doc.across) : text.across[i] \in {{}, doc.across[i]}
  BY WithoutFlaggedFields
<1> HIDE DEF text
<1>2. ASSUME NEW i \in 1..Len(doc.lines)
      PROVE  /\ text.lines[i].hidden = FALSE
             /\ MatchView(text.lines[i]) \cap Removable = {}
             /\ MatchView(text.lines[i]) \subseteq MatchView(doc.lines[i])
  <2>1. CASE Flagged(doc.lines[i])
    BY <1>1, <2>1, RedactionFields
  <2>2. CASE ~Flagged(doc.lines[i])
    BY <1>1, <2>2 DEF Flagged
  <2> QED BY <2>1, <2>2
<1>3. Clean(text)
  BY <1>1, <1>2 DEF Clean
<1>4. ASSUME NEW p \in Seen(text) PROVE p \in Seen(doc)
  <2>1. CASE \E i \in 1..Len(text.lines) : p \in MatchView(text.lines[i])
    BY <1>1, <1>2, <2>1, SeenFacts
  <2>2. CASE \E i \in 1..Len(text.across) : p \in text.across[i]
    <3>1. PICK i \in 1..Len(doc.across) : p \in text.across[i]
      BY <1>1, <2>2
    <3>2. p \in doc.across[i]
      BY <1>1, <3>1
    <3> QED BY <3>2, SeenFacts
  <2> QED BY <2>1, <2>2, SeenFacts
<1> QED BY <1>3, <1>4 DEF text

\* What a scrub returns.
LEMMA ScrubbedText ==
    ASSUME NEW doc \in Documents
    PROVE  /\ Clean(FastScrub(doc).text)
           /\ Seen(FastScrub(doc).text) \subseteq Seen(doc)
<1> DEFINE norm == Canonicalized(doc)
<1>1. /\ norm \in Documents /\ Seen(norm) = Seen(doc)
      /\ \A i \in 1..Len(norm.lines) : norm.lines[i].hidden = FALSE
  BY CanonicalizedType, CanonicalizedSeen, CanonicalizedFields
<1>2. FastScrub(doc).text = WithoutFlagged(norm)
  BY FastIsNaive DEF NaiveScrub, ScrubResult
<1> HIDE DEF norm
<1> QED BY <1>1, <1>2, WithoutFlaggedIsClean

LEMMA CleanIsCanonical ==
    ASSUME NEW text, Clean(text)
    PROVE  Canonicalized(text) = text
<1>1. /\ text \in [lines : Seq(Line), across : Seq(SUBSET Signals)]
      /\ \A i \in 1..Len(text.lines) : text.lines[i].hidden = FALSE
  BY DEF Clean, Documents
<1>2. \A i \in 1..Len(text.lines) : text.lines[i] \in Line
  BY <1>1
<1>3. \A i \in 1..Len(text.lines) :
         [text.lines[i] EXCEPT !.hidden = FALSE] = text.lines[i]
  BY <1>1, <1>2 DEF Line
<1> DEFINE L == [i \in 1..Len(text.lines) |-> [text.lines[i] EXCEPT !.hidden = FALSE]]
<1>4. L = [i \in 1..Len(text.lines) |-> text.lines[i]]
  BY <1>3
<1>5. text.lines = [i \in 1..Len(text.lines) |-> text.lines[i]]
  BY <1>1
<1>6. Canonicalized(text) = [text EXCEPT !.lines = L]
  BY DEF Canonicalized
<1> HIDE DEF L
<1> QED BY <1>1, <1>4, <1>5, <1>6

\* A second scrub of a clean text does nothing, whether or not the master matches.
LEMMA CleanIsScrubbed ==
    ASSUME NEW text, Clean(text)
    PROVE  FastScrub(text) = ScrubResult(text, 0)
<1>1. text \in Documents /\ Canonicalized(text) = text
  BY CleanIsCanonical DEF Clean
<1>2. Redacted(text) = {}
  BY DEF Redacted, Flagged, Clean
<1>3. WithoutFlagged(text) = text /\ Cardinality(Redacted(text)) = 0
  BY <1>1, <1>2, NothingToRemove, FS_EmptySet
<1>4. FastScrub(text) = NaiveScrub(text)
  BY <1>1, FastIsNaive
<1> QED BY <1>1, <1>3, <1>4 DEF NaiveScrub

-----------------------------------------------------------------------------
(* The noisy-OR of the rules *)

\* What a hit of weight w leaves of x.
Discounted(x, w) == (x * (100 - w)) \div 100

\* The same, where the rule may not have hit.
Over(x, hit, hits) == IF hit \in hits THEN Discounted(x, RuleWeight[hit]) ELSE x

LEMMA OverIsDiscount ==
    ASSUME NEW x, NEW hit, NEW hits
    PROVE  Over(x, hit, hits) =
              IF hit \in hits THEN Discounted(x, RuleWeight[hit]) ELSE x
BY DEF Over

BeforeExfil(hits) ==
    LET hidden == Over(Million, "hidden_chars", hits)
        override == Over(Over(hidden, "override", hits), "multilingual", hits)
        role == Over(Over(override, "role", hits), "new_policy", hits)
    IN  Over(Over(role, "jailbreak", hits), "payload", hits)

OverExfil(x, hits) == Over(Over(x, "exfil_secret", hits), "strong_exfil", hits)

AfterExfil(x, hits) == Over(Over(x, "tool_hijack", hits), "stealth_instruction", hits)

LEMMA RuleOrderFacts ==
    /\ Len(RuleOrder) = 11
    /\ RuleOrder[1] = "hidden_chars" /\ RuleOrder[2] = "override"
    /\ RuleOrder[3] = "multilingual" /\ RuleOrder[4] = "role"
    /\ RuleOrder[5] = "new_policy" /\ RuleOrder[6] = "jailbreak"
    /\ RuleOrder[7] = "payload" /\ RuleOrder[8] = "exfil_secret"
    /\ RuleOrder[9] = "strong_exfil" /\ RuleOrder[10] = "tool_hijack"
    /\ RuleOrder[11] = "stealth_instruction"
BY DEF RuleOrder

\* The loop over the hits: what is kept after each rule.
KeptRule(keep, hits, i) ==
    IF i = 0 THEN Million
    ELSE IF RuleOrder[i] \in hits
         THEN (keep[i - 1] * (100 - RuleWeight[RuleOrder[i]])) \div 100
         ELSE keep[i - 1]

IsKept(keep, hits) == keep = [i \in 0..Len(RuleOrder) |-> KeptRule(keep, hits, i)]

LEMMA KeptIsLoop == \A hits : Kept(hits) = (CHOOSE keep : IsKept(keep, hits))[Len(RuleOrder)]
BY DEF Kept, IsKept, KeptRule

LEMMA IsKeptFacts ==
    ASSUME NEW hits, NEW keep, IsKept(keep, hits)
    PROVE  keep[11] = AfterExfil(OverExfil(BeforeExfil(hits), hits), hits)
<1>1. Len(RuleOrder) = 11
  BY RuleOrderFacts
<1>2. keep = [i \in 0..11 |-> KeptRule(keep, hits, i)]
  BY ONLY <1>1, IsKept(keep, hits) DEF IsKept
<1>3. ASSUME NEW i \in 0..11
      PROVE  keep[i] = KeptRule(keep, hits, i)
  <2> DEFINE f == [k \in 0..11 |-> KeptRule(keep, hits, k)]
  <2>1. f[i] = KeptRule(keep, hits, i)
    BY ONLY i \in 0..11
  <2>2. keep = f
    BY ONLY <1>2
  <2> HIDE DEF f
  <2> QED BY ONLY <2>1, <2>2
<1>4. keep[0] = Million
  BY ONLY <1>3 DEF KeptRule
<1>5. ASSUME NEW i \in 1..11
      PROVE  keep[i] = Over(keep[i - 1], RuleOrder[i], hits)
  <2>1. keep[i] = KeptRule(keep, hits, i) /\ i # 0
    BY ONLY <1>3, i \in 1..11
  <2> QED BY ONLY <2>1 DEF KeptRule, Over, Discounted
<1>6. /\ keep[1] = Over(keep[0], RuleOrder[1], hits)
      /\ keep[2] = Over(keep[1], RuleOrder[2], hits)
      /\ keep[3] = Over(keep[2], RuleOrder[3], hits)
      /\ keep[4] = Over(keep[3], RuleOrder[4], hits)
      /\ keep[5] = Over(keep[4], RuleOrder[5], hits)
      /\ keep[6] = Over(keep[5], RuleOrder[6], hits)
      /\ keep[7] = Over(keep[6], RuleOrder[7], hits)
      /\ keep[8] = Over(keep[7], RuleOrder[8], hits)
      /\ keep[9] = Over(keep[8], RuleOrder[9], hits)
      /\ keep[10] = Over(keep[9], RuleOrder[10], hits)
      /\ keep[11] = Over(keep[10], RuleOrder[11], hits)
  BY ONLY <1>5
<1>7. keep[7] = BeforeExfil(hits)
  BY ONLY <1>4, <1>6, RuleOrderFacts DEF BeforeExfil
<1>8. keep[9] = OverExfil(keep[7], hits)
  BY ONLY <1>6, RuleOrderFacts DEF OverExfil
<1>9. keep[11] = AfterExfil(keep[9], hits)
  BY ONLY <1>6, RuleOrderFacts DEF AfterExfil
<1> QED BY ONLY <1>7, <1>8, <1>9

LEMMA SomeIsKept ==
    ASSUME NEW hits
    PROVE  \E keep : IsKept(keep, hits)
<1> DEFINE k1 == Over(Million, RuleOrder[1], hits)
           k2 == Over(k1, RuleOrder[2], hits)
           k3 == Over(k2, RuleOrder[3], hits)
           k4 == Over(k3, RuleOrder[4], hits)
           k5 == Over(k4, RuleOrder[5], hits)
           k6 == Over(k5, RuleOrder[6], hits)
           k7 == Over(k6, RuleOrder[7], hits)
           k8 == Over(k7, RuleOrder[8], hits)
           k9 == Over(k8, RuleOrder[9], hits)
           k10 == Over(k9, RuleOrder[10], hits)
           k11 == Over(k10, RuleOrder[11], hits)
           s == <<k1, k2, k3, k4, k5, k6, k7, k8, k9, k10, k11>>
           keep == [i \in 0..11 |-> IF i = 0 THEN Million ELSE s[i]]
<1>1. /\ s[1] = Over(Million, RuleOrder[1], hits)
      /\ s[2] = Over(s[1], RuleOrder[2], hits) /\ s[3] = Over(s[2], RuleOrder[3], hits)
      /\ s[4] = Over(s[3], RuleOrder[4], hits) /\ s[5] = Over(s[4], RuleOrder[5], hits)
      /\ s[6] = Over(s[5], RuleOrder[6], hits) /\ s[7] = Over(s[6], RuleOrder[7], hits)
      /\ s[8] = Over(s[7], RuleOrder[8], hits) /\ s[9] = Over(s[8], RuleOrder[9], hits)
      /\ s[10] = Over(s[9], RuleOrder[10], hits)
      /\ s[11] = Over(s[10], RuleOrder[11], hits)
  <2>1. /\ k2 = Over(k1, RuleOrder[2], hits) /\ k3 = Over(k2, RuleOrder[3], hits)
        /\ k4 = Over(k3, RuleOrder[4], hits) /\ k5 = Over(k4, RuleOrder[5], hits)
        /\ k6 = Over(k5, RuleOrder[6], hits) /\ k7 = Over(k6, RuleOrder[7], hits)
        /\ k8 = Over(k7, RuleOrder[8], hits) /\ k9 = Over(k8, RuleOrder[9], hits)
        /\ k10 = Over(k9, RuleOrder[10], hits) /\ k11 = Over(k10, RuleOrder[11], hits)
        /\ k1 = Over(Million, RuleOrder[1], hits)
    OBVIOUS
  <2> HIDE DEF k1, k2, k3, k4, k5, k6, k7, k8, k9, k10, k11
  <2>2. /\ s[1] = k1 /\ s[2] = k2 /\ s[3] = k3 /\ s[4] = k4 /\ s[5] = k5 /\ s[6] = k6
        /\ s[7] = k7 /\ s[8] = k8 /\ s[9] = k9 /\ s[10] = k10 /\ s[11] = k11
    OBVIOUS
  <2> HIDE DEF s
  <2> QED BY ONLY <2>1, <2>2
<1> HIDE DEF s
<1>2. keep[0] = Million /\ \A i \in 1..11 : keep[i] = s[i]
  OBVIOUS
<1>3. keep = [i \in 0..11 |-> keep[i]]
  OBVIOUS
<1> HIDE DEF keep
<1>4. ASSUME NEW i \in 1..11
      PROVE  keep[i] = Over(keep[i - 1], RuleOrder[i], hits)
  <2>1. i \in {1, 2, 3, 4, 5, 6, 7, 8, 9, 10, 11}
    BY ONLY i \in 1..11
  <2>2. /\ keep[1] = Over(keep[0], RuleOrder[1], hits)
        /\ \A k \in {2, 3, 4, 5, 6, 7, 8, 9, 10, 11} :
              keep[k] = s[k] /\ keep[k - 1] = s[k - 1]
    BY ONLY <1>1, <1>2
  <2>3. i = 1 \/ s[i] = Over(s[i - 1], RuleOrder[i], hits)
    BY ONLY <1>1, <2>1
  <2> QED BY ONLY <2>1, <2>2, <2>3
<1>5. ASSUME NEW i \in 0..11
      PROVE  keep[i] = KeptRule(keep, hits, i)
  <2>1. CASE i = 0
    BY ONLY <1>2, <2>1 DEF KeptRule
  <2>2. CASE i # 0
    <3>1. keep[i] = Over(keep[i - 1], RuleOrder[i], hits)
      BY ONLY <1>4, <2>2, i \in 0..11
    <3> QED BY ONLY <2>2, <3>1 DEF KeptRule, Over, Discounted
  <2> QED BY ONLY <2>1, <2>2
<1>6. keep = [i \in 0..11 |-> KeptRule(keep, hits, i)]
  BY ONLY <1>3, <1>5
<1>7. Len(RuleOrder) = 11
  BY RuleOrderFacts
<1>8. IsKept(keep, hits)
  BY ONLY <1>6, <1>7 DEF IsKept
<1> QED BY ONLY <1>8

LEMMA KeptStages == \A hits : Kept(hits) = AfterExfil(OverExfil(BeforeExfil(hits), hits), hits)
<1> TAKE hits
<1> DEFINE keep == CHOOSE k : IsKept(k, hits)
<1>1. IsKept(keep, hits)
  BY SomeIsKept
<1>2. Kept(hits) = keep[11]
  BY KeptIsLoop, RuleOrderFacts
<1> HIDE DEF keep
<1> QED BY <1>1, <1>2, IsKeptFacts

\* A heavier hit leaves less, and no hit leaves more than there was.
LEMMA DiscountFacts ==
    ASSUME NEW x \in Nat, NEW w \in 0..100
    PROVE  Discounted(x, w) \in Nat /\ Discounted(x, w) <= x
<1>1. x * (100 - w) \in Nat /\ x * (100 - w) <= x * 100
  OBVIOUS
<1> DEFINE p == x * (100 - w)
<1>2. Discounted(x, w) = p \div 100
  BY DEF Discounted
<1>3. p \in Nat /\ p <= x * 100
  BY <1>1
<1> HIDE DEF p
<1> QED BY <1>2, <1>3

LEMMA DiscountMonotone ==
    ASSUME NEW x \in Nat, NEW y \in Nat, NEW v \in 0..100, NEW w \in 0..100, x <= y, v >= w
    PROVE  Discounted(x, v) <= Discounted(y, w)
<1>1. x * (100 - v) \in Nat /\ y * (100 - w) \in Nat
  OBVIOUS
<1>2. x * (100 - v) <= y * (100 - w)
  <2> DEFINE a == 100 - v
             b == 100 - w
  <2>1. a \in Nat /\ b \in Nat /\ a <= b
    OBVIOUS
  <2> HIDE DEF a, b
  <2>2. x * a <= x * b
    BY <2>1
  <2>3. x * b <= y * b
    BY <2>1
  <2>4. x * a \in Int /\ x * b \in Int /\ y * b \in Int
    BY <2>1
  <2>5. x * a <= y * b
    BY <2>2, <2>3, <2>4
  <2> QED BY <2>5 DEF a, b
<1> DEFINE p == x * (100 - v)
           q == y * (100 - w)
<1>3. p \in Nat /\ q \in Nat /\ p <= q
  BY <1>1, <1>2
<1>4. Discounted(x, v) = p \div 100 /\ Discounted(y, w) = q \div 100
  BY DEF Discounted
<1> HIDE DEF p, q
<1> QED BY <1>3, <1>4

Rules == DOMAIN RuleWeight

LEMMA RuleWeights ==
    /\ Rules = {"override", "multilingual", "role", "new_policy", "jailbreak", "payload",
                "hidden_chars", "exfil_secret", "strong_exfil", "tool_hijack",
                "stealth_instruction"}
    /\ \A hit \in Rules : RuleWeight[hit] \in 0..100
    /\ RuleWeight["override"] = 80
    /\ RuleWeight["exfil_secret"] = 88 /\ RuleWeight["strong_exfil"] = 82
    /\ RuleWeight["tool_hijack"] = 80
BY DEF Rules, RuleWeight

LEMMA OverFacts ==
    ASSUME NEW x \in Nat, NEW hit \in Rules, NEW hits
    PROVE  Over(x, hit, hits) \in Nat /\ Over(x, hit, hits) <= x
<1>1. RuleWeight[hit] \in 0..100
  BY RuleWeights
<1> DEFINE d == Discounted(x, RuleWeight[hit])
<1>2. d \in Nat /\ d <= x
  BY <1>1, DiscountFacts
<1>3. Over(x, hit, hits) = IF hit \in hits THEN d ELSE x
  BY OverIsDiscount
<1> HIDE DEF d
<1> QED BY <1>2, <1>3

\* A factor leaves more of more, and more when there is no hit.
LEMMA OverMonotone ==
    ASSUME NEW x \in Nat, NEW y \in Nat, x <= y, NEW hit \in Rules, NEW more, NEW hits,
           hit \in hits => hit \in more
    PROVE  Over(x, hit, more) <= Over(y, hit, hits)
<1>1. RuleWeight[hit] \in 0..100
  BY RuleWeights
<1>2. CASE hit \in hits
  <2>1. Discounted(x, RuleWeight[hit]) <= Discounted(y, RuleWeight[hit])
    <3> DEFINE w == RuleWeight[hit]
    <3>1. w \in 0..100
      BY <1>1
    <3> HIDE DEF w
    <3>2. w >= w
      BY <3>1
    <3>3. Discounted(x, w) <= Discounted(y, w)
      BY <3>1, <3>2, DiscountMonotone
    <3> QED BY <3>3 DEF w
  <2>2. /\ Over(x, hit, more) = Discounted(x, RuleWeight[hit])
        /\ Over(y, hit, hits) = Discounted(y, RuleWeight[hit])
    BY <1>2, OverIsDiscount
  <2> QED BY <2>1, <2>2
<1>3. CASE hit \notin hits
  <2>1. Over(x, hit, more) \in Nat /\ Over(x, hit, more) <= x
    BY OverFacts
  <2>2. Over(y, hit, hits) = y
    BY <1>3, OverIsDiscount
  <2> QED BY <2>1, <2>2
<1> QED BY <1>2, <1>3

PlainRules == {"hidden_chars", "override", "multilingual", "role", "new_policy",
               "jailbreak", "payload"}

LEMMA BeforeExfilFacts ==
    ASSUME NEW hits
    PROVE  BeforeExfil(hits) \in Nat /\ BeforeExfil(hits) <= Million
<1> DEFINE a == Over(Million, "hidden_chars", hits)
           b == Over(a, "override", hits)
           c == Over(b, "multilingual", hits)
           d == Over(c, "role", hits)
           e == Over(d, "new_policy", hits)
           f == Over(e, "jailbreak", hits)
           g == Over(f, "payload", hits)
<1>0. Million \in Nat
  BY DEF Million
<1>1. a \in Nat /\ a <= Million
  BY <1>0, OverFacts, RuleWeights
<1>2. b \in Nat /\ b <= a
  BY <1>1, OverFacts, RuleWeights
<1>3. c \in Nat /\ c <= b
  BY <1>2, OverFacts, RuleWeights
<1>4. d \in Nat /\ d <= c
  BY <1>3, OverFacts, RuleWeights
<1>5. e \in Nat /\ e <= d
  BY <1>4, OverFacts, RuleWeights
<1>6. f \in Nat /\ f <= e
  BY <1>5, OverFacts, RuleWeights
<1>7. g \in Nat /\ g <= f
  BY <1>6, OverFacts, RuleWeights
<1>8. BeforeExfil(hits) = g
  BY DEF BeforeExfil
<1> HIDE DEF a, b, c, d, e, f, g
<1> QED BY <1>0, <1>1, <1>2, <1>3, <1>4, <1>5, <1>6, <1>7, <1>8

LEMMA BeforeExfilMonotone ==
    ASSUME NEW more, NEW hits, hits \cap PlainRules \subseteq more
    PROVE  BeforeExfil(more) <= BeforeExfil(hits)
<1> DEFINE a(h) == Over(Million, "hidden_chars", h)
           b(h) == Over(a(h), "override", h)
           c(h) == Over(b(h), "multilingual", h)
           d(h) == Over(c(h), "role", h)
           e(h) == Over(d(h), "new_policy", h)
           f(h) == Over(e(h), "jailbreak", h)
           g(h) == Over(f(h), "payload", h)
<1>0. Million \in Nat
  BY DEF Million
<1>1. \A h : a(h) \in Nat
  BY <1>0, OverFacts, RuleWeights
<1>2. \A h : b(h) \in Nat
  BY <1>1, OverFacts, RuleWeights
<1>3. \A h : c(h) \in Nat
  BY <1>2, OverFacts, RuleWeights
<1>4. \A h : d(h) \in Nat
  BY <1>3, OverFacts, RuleWeights
<1>5. \A h : e(h) \in Nat
  BY <1>4, OverFacts, RuleWeights
<1>6. \A h : f(h) \in Nat
  BY <1>5, OverFacts, RuleWeights
<1>7. \A hit \in PlainRules : hit \in Rules /\ (hit \in hits => hit \in more)
  BY RuleWeights DEF PlainRules
<1>8. a(more) <= a(hits)
  BY <1>0, <1>7, OverMonotone DEF PlainRules
<1>9. b(more) <= b(hits)
  BY <1>1, <1>7, <1>8, OverMonotone DEF PlainRules
<1>10. c(more) <= c(hits)
  BY <1>2, <1>7, <1>9, OverMonotone DEF PlainRules
<1>11. d(more) <= d(hits)
  BY <1>3, <1>7, <1>10, OverMonotone DEF PlainRules
<1>12. e(more) <= e(hits)
  BY <1>4, <1>7, <1>11, OverMonotone DEF PlainRules
<1>13. f(more) <= f(hits)
  BY <1>5, <1>7, <1>12, OverMonotone DEF PlainRules
<1>14. g(more) <= g(hits)
  BY <1>6, <1>7, <1>13, OverMonotone DEF PlainRules
<1>15. BeforeExfil(more) = g(more) /\ BeforeExfil(hits) = g(hits)
  BY DEF BeforeExfil
<1> HIDE DEF a, b, c, d, e, f, g
<1> QED BY <1>14, <1>15

LEMMA OverExfilFacts ==
    ASSUME NEW x \in Nat, NEW hits
    PROVE  OverExfil(x, hits) \in Nat /\ OverExfil(x, hits) <= x
<1> DEFINE y == Over(x, "exfil_secret", hits)
<1>1. y \in Nat /\ y <= x
  BY OverFacts, RuleWeights
<1>2. OverExfil(x, hits) = Over(y, "strong_exfil", hits)
  BY DEF OverExfil
<1> HIDE DEF y
<1>3. Over(y, "strong_exfil", hits) \in Nat /\ Over(y, "strong_exfil", hits) <= y
  BY <1>1, OverFacts, RuleWeights
<1> QED BY <1>1, <1>2, <1>3

\* The one hit of the clause may be a weaker one than before, never a stronger.
LEMMA OverExfilMonotone ==
    ASSUME NEW x \in Nat, NEW y \in Nat, x <= y, NEW more, NEW hits,
           ~{"exfil_secret", "strong_exfil"} \subseteq hits,
           "exfil_secret" \in hits => "exfil_secret" \in more,
           "strong_exfil" \in hits => more \cap {"exfil_secret", "strong_exfil"} # {}
    PROVE  OverExfil(x, more) <= OverExfil(y, hits)
<1> DEFINE secret == Over(x, "exfil_secret", more)
<1>1. secret \in Nat /\ secret <= x
  BY OverFacts, RuleWeights
<1>2. OverExfil(x, more) = Over(secret, "strong_exfil", more)
  BY DEF OverExfil
<1>3. CASE hits \cap {"exfil_secret", "strong_exfil"} = {}
  <2>1. OverExfil(y, hits) = y
    BY <1>3, OverIsDiscount DEF OverExfil
  <2>2. OverExfil(x, more) \in Nat /\ OverExfil(x, more) <= x
    BY OverExfilFacts
  <2> QED BY <2>1, <2>2
<1>4. CASE "exfil_secret" \in more /\ hits \cap {"exfil_secret", "strong_exfil"} # {}
  <2>1. secret = Discounted(x, 88)
    BY <1>4, RuleWeights, OverIsDiscount
  <2>2. OverExfil(y, hits) \in {Discounted(y, 88), Discounted(y, 82)}
    BY <1>4, RuleWeights, OverIsDiscount DEF OverExfil
  <2>3. secret <= OverExfil(y, hits)
    <3>1. 88 \in 0..100 /\ 82 \in 0..100 /\ 88 >= 88 /\ 88 >= 82
      OBVIOUS
    <3>2. /\ Discounted(x, 88) <= Discounted(y, 88)
          /\ Discounted(x, 88) <= Discounted(y, 82)
      BY <3>1, DiscountMonotone
    <3> QED BY <2>1, <2>2, <3>2
  <2>4. /\ Over(secret, "strong_exfil", more) \in Nat
        /\ Over(secret, "strong_exfil", more) <= secret
    BY <1>1, OverFacts, RuleWeights
  <2>5. OverExfil(y, hits) \in Nat
    BY OverExfilFacts
  <2> HIDE DEF secret
  <2> QED BY <1>1, <1>2, <2>3, <2>4, <2>5
<1>5. CASE "exfil_secret" \notin more /\ hits \cap {"exfil_secret", "strong_exfil"} # {}
  <2>1. OverExfil(x, more) = Discounted(x, 82)
    BY <1>5, RuleWeights, OverIsDiscount DEF OverExfil
  <2>2. OverExfil(y, hits) = Discounted(y, 82)
    BY <1>5, RuleWeights, OverIsDiscount DEF OverExfil
  <2>3. 82 \in 0..100
    OBVIOUS
  <2> QED BY SMTT(60), <2>1, <2>2, <2>3, DiscountMonotone
<1> QED BY <1>3, <1>4, <1>5

LEMMA AfterExfilFacts ==
    ASSUME NEW x \in Nat, NEW hits
    PROVE  AfterExfil(x, hits) \in Nat /\ AfterExfil(x, hits) <= x
<1> DEFINE y == Over(x, "tool_hijack", hits)
<1>1. y \in Nat /\ y <= x
  BY OverFacts, RuleWeights
<1>2. AfterExfil(x, hits) = Over(y, "stealth_instruction", hits)
  BY DEF AfterExfil
<1> HIDE DEF y
<1>3. /\ Over(y, "stealth_instruction", hits) \in Nat
      /\ Over(y, "stealth_instruction", hits) <= y
  BY <1>1, OverFacts, RuleWeights
<1> QED BY <1>1, <1>2, <1>3

LEMMA AfterExfilMonotone ==
    ASSUME NEW x \in Nat, NEW y \in Nat, x <= y, NEW more, NEW hits,
           hits \cap {"tool_hijack", "stealth_instruction"} \subseteq more
    PROVE  AfterExfil(x, more) <= AfterExfil(y, hits)
<1> DEFINE u == Over(x, "tool_hijack", more)
           v == Over(y, "tool_hijack", hits)
<1>1. u \in Nat /\ v \in Nat
  BY OverFacts, RuleWeights
<1>2. u <= v
  BY OverMonotone, RuleWeights
<1>3. /\ AfterExfil(x, more) = Over(u, "stealth_instruction", more)
      /\ AfterExfil(y, hits) = Over(v, "stealth_instruction", hits)
  BY DEF AfterExfil
<1> HIDE DEF u, v
<1> QED BY <1>1, <1>2, <1>3, OverMonotone, RuleWeights

\* A text with fewer patterns has a score at most as high.
LEMMA KeptMonotone ==
    ASSUME NEW more, NEW hits, hits \cap PlainRules \subseteq more,
           ~{"exfil_secret", "strong_exfil"} \subseteq hits,
           "exfil_secret" \in hits => "exfil_secret" \in more,
           "strong_exfil" \in hits => more \cap {"exfil_secret", "strong_exfil"} # {},
           hits \cap {"tool_hijack", "stealth_instruction"} \subseteq more
    PROVE  Kept(more) \in Nat /\ Kept(hits) \in Nat /\ Kept(more) <= Kept(hits)
<1> DEFINE x == BeforeExfil(more)
           y == BeforeExfil(hits)
<1>1. x \in Nat /\ y \in Nat /\ x <= y
  BY BeforeExfilFacts, BeforeExfilMonotone
<1>2. /\ Kept(more) = AfterExfil(OverExfil(x, more), more)
      /\ Kept(hits) = AfterExfil(OverExfil(y, hits), hits)
  BY KeptStages
<1> HIDE DEF x, y
<1> DEFINE u == OverExfil(x, more)
           v == OverExfil(y, hits)
<1>3. u \in Nat /\ v \in Nat
  BY <1>1, OverExfilFacts
<1>4. u <= v
  BY <1>1, OverExfilMonotone
<1>5. Kept(more) = AfterExfil(u, more) /\ Kept(hits) = AfterExfil(v, hits)
  BY <1>2
<1> HIDE DEF u, v
<1>6. AfterExfil(u, more) \in Nat /\ AfterExfil(v, hits) \in Nat
  BY <1>3, AfterExfilFacts
<1>7. AfterExfil(u, more) <= AfterExfil(v, hits)
  BY <1>3, <1>4, AfterExfilMonotone
<1> QED BY <1>5, <1>6, <1>7

\* One of the heavy hits alone leaves at most a fifth.
LEMMA HeavyHit ==
    ASSUME NEW hits, hits \cap {"exfil_secret", "strong_exfil", "tool_hijack"} # {}
    PROVE  Kept(hits) \in Nat /\ Kept(hits) <= 200000
<1> DEFINE x == BeforeExfil(hits)
           secret == Over(x, "exfil_secret", hits)
           strong == Over(secret, "strong_exfil", hits)
           hijack == Over(strong, "tool_hijack", hits)
           stealth == Over(hijack, "stealth_instruction", hits)
<1>1. x \in Nat /\ x <= Million
  BY BeforeExfilFacts
<1>2. secret \in Nat /\ secret <= x
  BY <1>1, OverFacts, RuleWeights
<1>3. strong \in Nat /\ strong <= secret
  BY <1>2, OverFacts, RuleWeights
<1>4. hijack \in Nat /\ hijack <= strong
  BY <1>3, OverFacts, RuleWeights
<1>5. stealth \in Nat /\ stealth <= hijack
  BY <1>4, OverFacts, RuleWeights
<1>6. Kept(hits) = stealth
  BY KeptStages DEF OverExfil, AfterExfil
<1>7. /\ "exfil_secret" \in hits => secret = Discounted(x, 88)
      /\ "strong_exfil" \in hits => strong = Discounted(secret, 82)
      /\ "tool_hijack" \in hits => hijack = Discounted(strong, 80)
  BY OverIsDiscount, RuleWeights
<1> HIDE DEF x, secret, strong, hijack, stealth
<1>8. ASSUME NEW y \in Nat, y <= Million, NEW w \in 80..100
      PROVE  Discounted(y, w) <= 200000
  <2>1. Million \in Nat /\ 80 \in 0..100 /\ w \in 0..100 /\ w >= 80
    BY DEF Million
  <2>2. Discounted(y, w) <= Discounted(Million, 80)
    BY <1>8, <2>1, DiscountMonotone
  <2>3. Discounted(Million, 80) = 200000
    BY DEF Discounted, Million
  <2> QED BY SMTT(60), <2>2, <2>3
<1>9. Million = 1000000
  BY DEF Million
<1>10. secret <= Million /\ strong <= Million
  BY <1>1, <1>2, <1>3, <1>9
<1>11. 88 \in 80..100 /\ 82 \in 80..100 /\ 80 \in 80..100
  OBVIOUS
<1>12. CASE "exfil_secret" \in hits
  <2>1. secret <= 200000
    BY <1>1, <1>7, <1>8, <1>11, <1>12
  <2> QED BY <1>2, <1>3, <1>4, <1>5, <1>6, <2>1
<1>13. CASE "strong_exfil" \in hits
  <2>1. strong <= 200000
    BY <1>2, <1>7, <1>8, <1>10, <1>11, <1>13
  <2> QED BY <1>3, <1>4, <1>5, <1>6, <2>1
<1>14. CASE "tool_hijack" \in hits
  <2>1. hijack <= 200000
    BY <1>3, <1>7, <1>8, <1>10, <1>11, <1>14
  <2> QED BY <1>4, <1>5, <1>6, <2>1
<1> QED BY <1>12, <1>13, <1>14

\* Below the block threshold there is no such hit.
LEMMA BelowBlock ==
    ASSUME NEW doc, RuleScore(doc) < DefaultThresholds.injection_block
    PROVE  RuleHits(doc) \cap {"exfil_secret", "strong_exfil", "tool_hijack"} = {}
<1> SUFFICES ASSUME RuleHits(doc) \cap {"exfil_secret", "strong_exfil", "tool_hijack"} # {}
             PROVE  FALSE
  OBVIOUS
<1> DEFINE kept == Kept(RuleHits(doc))
<1>1. kept \in Nat /\ kept <= 200000
  BY HeavyHit
<1>2. RuleScore(doc) = (1000000 - kept) \div 10000
  BY DEF RuleScore, Million
<1>3. DefaultThresholds.injection_block = 80
  BY DEF DefaultThresholds
<1> HIDE DEF kept
<1>4. (1000000 - kept) \div 10000 >= 80
  BY <1>1
<1>5. (1000000 - kept) \div 10000 < 80
  BY <1>2, <1>3
<1>6. (1000000 - kept) \div 10000 \in Int
  BY <1>1
<1> QED BY <1>4, <1>5, <1>6

\* Each rule by the patterns it takes.
LEMMA RuleHitFacts ==
    ASSUME NEW doc
    PROVE  /\ \A p \in PlainRules \ {"hidden_chars"} : p \in RuleHits(doc) <=> p \in Seen(doc)
           /\ "hidden_chars" \in RuleHits(doc) <=>
                 \E i \in 1..Len(doc.lines) : doc.lines[i].hidden
           /\ "exfil_secret" \in RuleHits(doc) <=> "exfil_secret" \in Seen(doc)
           /\ "strong_exfil" \in RuleHits(doc) <=>
                 "strong_exfil" \in Seen(doc) /\ "exfil_secret" \notin Seen(doc)
           /\ "tool_hijack" \in RuleHits(doc) <=>
                 /\ "tool_trigger" \in Seen(doc)
                 /\ Seen(doc) \cap {"override", "credential", "coercion"} # {}
           /\ "stealth_instruction" \in RuleHits(doc) <=>
                 /\ "secrecy" \in Seen(doc)
                 /\ Seen(doc) \cap {"exfil_verb", "tool_trigger", "override"} # {}
           /\ RuleHits(doc) \subseteq Rules
<1> DEFINE seen == Seen(doc)
<1>1. RuleHits(doc) = HiddenHits(doc) \cup PatternHits(seen) \cup ExfilHits(seen)
                        \cup HijackHits(seen) \cup StealthHits(seen)
  BY DEF RuleHits
<1>2. HiddenHits(doc) = IF \E i \in 1..Len(doc.lines) : doc.lines[i].hidden
                        THEN {"hidden_chars"} ELSE {}
  BY DEF HiddenHits
<1> HIDE DEF seen
<1>3. /\ \A p \in PlainRules \ {"hidden_chars"} : p \in RuleHits(doc) <=> p \in seen
      /\ "hidden_chars" \in RuleHits(doc) <=>
            \E i \in 1..Len(doc.lines) : doc.lines[i].hidden
      /\ "exfil_secret" \in RuleHits(doc) <=> "exfil_secret" \in seen
      /\ "strong_exfil" \in RuleHits(doc) <=>
            "strong_exfil" \in seen /\ "exfil_secret" \notin seen
  BY <1>1, <1>2 DEF PatternHits, ExfilHits, HijackHits, StealthHits, PlainRules
<1>4. /\ "tool_hijack" \in RuleHits(doc) <=>
            /\ "tool_trigger" \in seen
            /\ seen \cap {"override", "credential", "coercion"} # {}
      /\ "stealth_instruction" \in RuleHits(doc) <=>
            /\ "secrecy" \in seen
            /\ seen \cap {"exfil_verb", "tool_trigger", "override"} # {}
  BY <1>1, <1>2 DEF PatternHits, ExfilHits, HijackHits, StealthHits
<1>5. RuleHits(doc) \subseteq Rules
  BY <1>1, <1>2, RuleWeights DEF PatternHits, ExfilHits, HijackHits, StealthHits
<1> QED BY <1>3, <1>4, <1>5 DEF seen

\* The rules never score a clean text higher than a document it comes from.
LEMMA CleanScoresLess ==
    ASSUME NEW doc, NEW text, Clean(text), Seen(text) \subseteq Seen(doc)
    PROVE  RuleScore(text) <= RuleScore(doc)
<1>1. "hidden_chars" \notin RuleHits(text)
  BY RuleHitFacts DEF Clean
<1>2. RuleHits(text) \cap PlainRules \subseteq RuleHits(doc)
  BY <1>1, RuleHitFacts
<1>3. /\ ~{"exfil_secret", "strong_exfil"} \subseteq RuleHits(text)
      /\ "exfil_secret" \in RuleHits(text) => "exfil_secret" \in RuleHits(doc)
  BY RuleHitFacts
<1>4. "strong_exfil" \in RuleHits(text)
        => RuleHits(doc) \cap {"exfil_secret", "strong_exfil"} # {}
  BY RuleHitFacts
<1>5. RuleHits(text) \cap {"tool_hijack", "stealth_instruction"} \subseteq RuleHits(doc)
  BY RuleHitFacts
<1> DEFINE k == Kept(RuleHits(doc))
           l == Kept(RuleHits(text))
<1>6. k \in Nat /\ l \in Nat /\ k <= l
  BY <1>2, <1>3, <1>4, <1>5, KeptMonotone
<1>7. /\ RuleScore(text) = (1000000 - l) \div 10000
      /\ RuleScore(doc) = (1000000 - k) \div 10000
  BY DEF RuleScore, Million
<1> HIDE DEF k, l
<1>8. 1000000 - l <= 1000000 - k
  BY <1>6
<1> QED BY <1>6, <1>7, <1>8

\* Below the block threshold the rules find nothing within a line of a clean text:
\* the rules a clean text could still meet are those that alone reach the threshold.
LEMMA CleanBandIsEmpty ==
    ASSUME NEW doc, NEW text, Clean(text), Seen(text) \subseteq Seen(doc),
           RuleScore(doc) < DefaultThresholds.injection_block
    PROVE  RuleHits(Unbroken(text)) = {}
<1> DEFINE lines == Unbroken(text)
<1>1. /\ text \in [lines : Seq(Line), across : Seq(SUBSET Signals)]
      /\ \A i \in 1..Len(text.lines) :
            /\ text.lines[i].hidden = FALSE
            /\ MatchView(text.lines[i]) \cap Removable = {}
  BY DEF Clean, Documents
<1>2. /\ lines.lines = text.lines
      /\ \A i \in 1..Len(lines.across) : lines.across[i] = {}
  <2> DEFINE none == [i \in DOMAIN text.across |-> {}]
  <2>1. DOMAIN text.across = 1..Len(text.across) /\ Len(text.across) \in Nat
    BY <1>1
  <2>2. Len(none) = Len(text.across) /\ \A i \in 1..Len(text.across) : none[i] = {}
    BY <2>1
  <2>3. lines = [text EXCEPT !.across = none]
    BY DEF Unbroken
  <2> HIDE DEF none
  <2>4. lines.lines = text.lines /\ lines.across = none
    BY <1>1, <2>3
  <2> HIDE DEF lines
  <2> QED BY <2>2, <2>4
<1> HIDE DEF lines
<1>3. Seen(lines) \cap Removable = {} /\ Seen(lines) \subseteq Seen(doc)
  <2> SUFFICES ASSUME NEW p \in Seen(lines) PROVE p \notin Removable /\ p \in Seen(doc)
    OBVIOUS
  <2>1. PICK i \in 1..Len(text.lines) : p \in MatchView(text.lines[i])
    BY <1>2, SeenFacts
  <2>2. p \in Seen(text)
    BY <2>1, SeenFacts
  <2> QED BY <1>1, <2>1, <2>2
<1>4. RuleHits(doc) \cap {"exfil_secret", "strong_exfil", "tool_hijack"} = {}
  BY BelowBlock
<1>5. "exfil_secret" \notin Seen(doc) /\ "strong_exfil" \notin Seen(doc)
  BY <1>4, RuleHitFacts
<1>6. ~ /\ "tool_trigger" \in Seen(doc)
        /\ Seen(doc) \cap {"override", "credential", "coercion"} # {}
  BY <1>4, RuleHitFacts
<1>7. Removable = {"override", "role", "new_policy", "jailbreak", "multilingual",
                   "secrecy", "coercion", "payload", "own"}
  BY DEF Removable, DetectorPatterns
<1>8. "hidden_chars" \notin RuleHits(lines)
  BY <1>1, <1>2, RuleHitFacts
<1>9. \A p \in PlainRules \ {"hidden_chars"} : p \notin RuleHits(lines)
  <2>1. PlainRules \ {"hidden_chars"} \subseteq Removable
    BY <1>7 DEF PlainRules
  <2> QED BY <1>3, <2>1, RuleHitFacts
<1>10. "exfil_secret" \notin RuleHits(lines) /\ "strong_exfil" \notin RuleHits(lines)
  BY <1>3, <1>5, RuleHitFacts
<1>11. "tool_hijack" \notin RuleHits(lines)
  <2>1. Seen(lines) \cap {"override", "credential", "coercion"}
          \subseteq Seen(doc) \cap {"override", "credential", "coercion"}
    BY <1>3
  <2> QED BY <1>3, <1>6, <2>1, RuleHitFacts
<1>12. "stealth_instruction" \notin RuleHits(lines)
  BY <1>3, <1>7, RuleHitFacts
<1>13. RuleHits(lines) \subseteq Rules
  BY RuleHitFacts
<1>14. Rules = PlainRules \cup {"exfil_secret", "strong_exfil", "tool_hijack",
                               "stealth_instruction"}
  BY RuleWeights DEF PlainRules
<1>15. RuleHits(lines) = {}
  BY <1>8, <1>9, <1>10, <1>11, <1>12, <1>13, <1>14
<1> QED BY <1>15 DEF lines

-----------------------------------------------------------------------------
(* Entries that move to the end of an OrderedDict *)

Distinct(s) == \A i, j \in 1..Len(s) : s[i] = s[j] => i = j

\* Removing an element keeps the others, in their order.
LEMMA RemoveAtFacts ==
    ASSUME NEW S, NEW s \in Seq(S), NEW k \in 1..Len(s)
    PROVE  /\ RemoveAt(s, k) \in Seq(S)
           /\ Len(RemoveAt(s, k)) = Len(s) - 1
           /\ \A i \in 1..(Len(s) - 1) :
                 RemoveAt(s, k)[i] = IF i < k THEN s[i] ELSE s[i + 1]
<1> DEFINE a == SubSeq(s, 1, k - 1)
           b == SubSeq(s, k + 1, Len(s))
<1>1. a \in Seq(S) /\ Len(a) = k - 1 /\ \A i \in 1..(k - 1) : a[i] = s[i]
  BY SubSeqProperties
<1>2. b \in Seq(S) /\ Len(b) = Len(s) - k /\ \A i \in 1..(Len(s) - k) : b[i] = s[i + k]
  BY SubSeqProperties
<1>3. RemoveAt(s, k) = a \o b
  BY DEF RemoveAt
<1> HIDE DEF a, b
<1>4. Len(s) \in Nat /\ k \in Nat /\ k >= 1 /\ k <= Len(s)
  OBVIOUS
<1>5. a \o b \in Seq(S) /\ Len(a \o b) = Len(s) - 1
  <2>1. a \o b \in Seq(S) /\ Len(a \o b) = Len(a) + Len(b)
    BY <1>1, <1>2, ConcatProperties
  <2> QED BY <1>1, <1>2, <1>4, <2>1
<1>6. ASSUME NEW i \in 1..(Len(s) - 1)
      PROVE  (a \o b)[i] = IF i < k THEN s[i] ELSE s[i + 1]
  <2>1. i \in Int /\ (i < k \/ i >= k)
    BY <1>4
  <2>2. (a \o b)[i] = IF i <= Len(a) THEN a[i] ELSE b[i - Len(a)]
    BY <1>1, <1>2, <1>4, ConcatProperties
  <2>3. CASE i < k
    BY <1>1, <1>4, <2>1, <2>2, <2>3
  <2>4. CASE i >= k
    <3>1. (a \o b)[i] = b[i - (k - 1)]
      BY <1>1, <1>4, <2>1, <2>2, <2>4
    <3>2. i - (k - 1) \in 1..(Len(s) - k) /\ (i - (k - 1)) + k = i + 1
      BY <1>4, <2>1, <2>4
    <3>3. b[i - (k - 1)] = s[(i - (k - 1)) + k]
      BY <1>2, <3>2
    <3> QED BY <1>4, <2>1, <2>4, <3>1, <3>2, <3>3
  <2> QED BY <2>1, <2>3, <2>4
<1> QED BY <1>3, <1>5, <1>6

\* move_to_end: an element that is removed and appended is the last.
LEMMA MoveToEndFacts ==
    ASSUME NEW S, NEW s \in Seq(S), NEW k \in 1..Len(s)
    PROVE  /\ Append(RemoveAt(s, k), s[k]) \in Seq(S)
           /\ Len(Append(RemoveAt(s, k), s[k])) = Len(s)
           /\ \A i \in 1..Len(s) :
                 Append(RemoveAt(s, k), s[k])[i] =
                    IF i < k THEN s[i] ELSE IF i < Len(s) THEN s[i + 1] ELSE s[k]
<1> DEFINE r == RemoveAt(s, k)
<1>1. /\ r \in Seq(S) /\ Len(r) = Len(s) - 1 /\ s[k] \in S
      /\ \A i \in 1..(Len(s) - 1) : r[i] = IF i < k THEN s[i] ELSE s[i + 1]
  BY RemoveAtFacts
<1>2. Append(RemoveAt(s, k), s[k]) = Append(r, s[k])
  OBVIOUS
<1> HIDE DEF r
<1>3. Len(s) \in Nat /\ k \in Nat /\ k >= 1 /\ k <= Len(s)
  OBVIOUS
<1>4. /\ Append(r, s[k]) \in Seq(S) /\ Len(Append(r, s[k])) = Len(s)
      /\ \A i \in 1..(Len(s) - 1) : Append(r, s[k])[i] = r[i]
      /\ Append(r, s[k])[Len(s)] = s[k]
  BY <1>1, <1>3, AppendProperties
<1>5. ASSUME NEW i \in 1..Len(s)
      PROVE  Append(r, s[k])[i] =
                IF i < k THEN s[i] ELSE IF i < Len(s) THEN s[i + 1] ELSE s[k]
  <2>1. CASE i < Len(s)
    BY <1>1, <1>3, <1>4, <2>1
  <2>2. CASE i = Len(s)
    <3>1. Append(r, s[k])[i] = s[k]
      BY <1>4, <2>2
    <3>2. ~(i < k) /\ ~(i < Len(s))
      BY <1>3, <2>2
    <3> QED BY <3>1, <3>2
  <2>3. i < Len(s) \/ i = Len(s)
    BY <1>3
  <2> QED BY <2>1, <2>2, <2>3
<1> QED BY <1>2, <1>4, <1>5

\* It changes the order only.
LEMMA MoveToEndDistinct ==
    ASSUME NEW S, NEW s \in Seq(S), Distinct(s), NEW k \in 1..Len(s)
    PROVE  Distinct(Append(RemoveAt(s, k), s[k]))
<1> DEFINE m == Append(RemoveAt(s, k), s[k])
<1>1. /\ Len(m) = Len(s)
      /\ \A i \in 1..Len(s) :
            m[i] = IF i < k THEN s[i] ELSE IF i < Len(s) THEN s[i + 1] ELSE s[k]
  BY MoveToEndFacts
<1> HIDE DEF m
<1>2. Len(s) \in Nat /\ k \in Nat /\ k >= 1 /\ k <= Len(s)
  OBVIOUS
<1> DEFINE from(i) == IF i < k THEN i ELSE IF i < Len(s) THEN i + 1 ELSE k
<1>3. \A i \in 1..Len(s) : from(i) \in 1..Len(s) /\ m[i] = s[from(i)]
  BY <1>1, <1>2
<1>4. \A i, j \in 1..Len(s) : from(i) = from(j) => i = j
  BY <1>2
<1> HIDE DEF from
<1>5. Distinct(m)
  <2> SUFFICES ASSUME NEW i \in 1..Len(s), NEW j \in 1..Len(s), m[i] = m[j]
               PROVE  i = j
    BY <1>1 DEF Distinct
  <2>1. s[from(i)] = s[from(j)]
    BY <1>3
  <2>2. from(i) = from(j)
    BY <1>3, <2>1 DEF Distinct
  <2> QED BY <1>4, <2>2
<1> QED BY <1>5 DEF m

-----------------------------------------------------------------------------
(* The cache *)

Entry(text) == [key |-> text, res |-> FastScrub(text)]

\* Every thread holds the result of its own text.
CallsRight ==
    call \in [Callers -> {Quiet} \cup {Missed(text) : text \in texts}
                           \cup {Returned(text, FastScrub(text)) : text \in texts}]

\* The cache is the history of uses, entry by entry.
CacheIsRecent ==
    /\ cache \in Seq({Entry(text) : text \in texts})
    /\ recent \in Seq(texts) /\ Distinct(recent)
    /\ Len(cache) = Len(recent) /\ Len(cache) <= CacheSize
    /\ \A i \in 1..Len(cache) : cache[i] = Entry(recent[i])

CacheInv == texts \subseteq Documents /\ CallsRight /\ CacheIsRecent

LEMMA EntryFields == \A text : Entry(text).key = text /\ Entry(text).res = FastScrub(text)
BY DEF Entry

LEMMA CachedFacts ==
    ASSUME CacheIsRecent
    PROVE  \A text : text \in Cached <=> \E i \in 1..Len(cache) : recent[i] = text
BY EntryFields DEF Cached, CacheIsRecent

LEMMA PositionFacts ==
    ASSUME CacheIsRecent, NEW text \in Cached
    PROVE  /\ Position(text) \in 1..Len(cache)
           /\ recent[Position(text)] = text
           /\ cache[Position(text)] = Entry(text)
           /\ \A i \in 1..Len(cache) : recent[i] = text => i = Position(text)
<1>1. \E i \in 1..Len(cache) : cache[i].key = text
  BY DEF Cached
<1>2. Position(text) \in 1..Len(cache) /\ cache[Position(text)].key = text
  BY <1>1 DEF Position
<1>3. recent[Position(text)] = text
  BY <1>2, EntryFields DEF CacheIsRecent
<1> QED BY <1>2, <1>3 DEF CacheIsRecent, Distinct

\* A use of a cached text moves it to the end of the history.
LEMMA UsedCached ==
    ASSUME CacheIsRecent, NEW text \in Cached
    PROVE  Used(text) = Append(RemoveAt(recent, Position(text)), text)
<1> DEFINE known == {i \in 1..Len(recent) : recent[i] = text}
<1>1. Len(cache) = Len(recent) /\ Len(cache) <= CacheSize
  BY DEF CacheIsRecent
<1>2. known = {Position(text)}
  BY <1>1, PositionFacts
<1>3. (CHOOSE i \in known : TRUE) = Position(text)
  BY <1>2
<1>4. Position(text) \in 1..Len(recent) /\ recent \in Seq(texts)
  BY <1>1, PositionFacts DEF CacheIsRecent
<1>5. Len(RemoveAt(recent, Position(text))) = Len(recent) - 1
  BY <1>4, RemoveAtFacts
<1>6. Len(recent) \in Nat
  BY <1>4
<1>7. Len(RemoveAt(recent, Position(text))) < CacheSize
  BY <1>1, <1>5, <1>6, CacheSizeFacts
<1> HIDE DEF known
<1> QED BY <1>2, <1>3, <1>7 DEF Used, known

LEMMA UsedNew ==
    ASSUME CacheIsRecent, NEW text, text \notin Cached
    PROVE  Used(text) = Append(IF Len(recent) < CacheSize THEN recent ELSE Tail(recent), text)
<1>1. {i \in 1..Len(recent) : recent[i] = text} = {}
  BY CachedFacts DEF CacheIsRecent
<1> QED BY <1>1 DEF Used

LEMMA CacheInvInit == SInit => CacheInv
<1> SUFFICES ASSUME SInit PROVE CacheInv
  OBVIOUS
<1>1. texts \subseteq Documents
  BY ScrubberAssumption DEF SInit
<1>2. CallsRight
  BY DEF SInit, CallsRight
<1>3. CacheIsRecent
  BY CacheSizeFacts DEF SInit, CacheIsRecent, Distinct
<1> QED BY <1>1, <1>2, <1>3 DEF CacheInv

\* A hit moves one entry and one use to the end.
LEMMA HitKeepsInv ==
    ASSUME CacheInv, NEW th \in Callers, NEW text \in texts, Hit(th, text), UNCHANGED texts
    PROVE  CacheInv'
<1> DEFINE i == Position(text)
<1>1. CallsRight /\ CacheIsRecent /\ text \in Cached
  BY DEF CacheInv, Hit
<1>2. i \in 1..Len(cache) /\ recent[i] = text /\ cache[i] = Entry(text)
  BY <1>1, PositionFacts
<1>3. CallsRight'
  <2>1. call' = [call EXCEPT ![th] = Returned(text, FastScrub(text))]
    BY <1>2, EntryFields DEF Hit
  <2> QED BY <1>1, <2>1 DEF CallsRight
<1>4. CacheIsRecent'
  <2>1. /\ cache \in Seq({Entry(t) : t \in texts}) /\ recent \in Seq(texts)
        /\ Distinct(recent) /\ Len(cache) = Len(recent) /\ Len(cache) <= CacheSize
        /\ \A j \in 1..Len(cache) : cache[j] = Entry(recent[j])
    BY <1>1 DEF CacheIsRecent
  <2>2. cache' = Append(RemoveAt(cache, i), cache[i])
    BY DEF Hit
  <2>3. recent' = Append(RemoveAt(recent, i), recent[i])
    BY <1>1, <1>2, UsedCached DEF Hit
  <2> HIDE DEF i
  <2>4. /\ cache' \in Seq({Entry(t) : t \in texts}) /\ Len(cache') = Len(cache)
        /\ \A j \in 1..Len(cache) :
              cache'[j] = IF j < i THEN cache[j]
                          ELSE IF j < Len(cache) THEN cache[j + 1] ELSE cache[i]
    BY <1>2, <2>1, <2>2, MoveToEndFacts
  <2>5. /\ recent' \in Seq(texts) /\ Len(recent') = Len(recent)
        /\ \A j \in 1..Len(recent) :
              recent'[j] = IF j < i THEN recent[j]
                           ELSE IF j < Len(recent) THEN recent[j + 1] ELSE recent[i]
    BY <1>2, <2>1, <2>3, MoveToEndFacts
  <2>6. Distinct(recent')
    BY <1>2, <2>1, <2>3, MoveToEndDistinct
  <2>7. ASSUME NEW j \in 1..Len(cache)
        PROVE  cache'[j] = Entry(recent'[j])
    <3>1. Len(cache) \in Nat
      BY <2>1
    <3>2. j < Len(cache) => j + 1 \in 1..Len(cache)
      BY <3>1
    <3> QED BY <1>2, <2>1, <2>4, <2>5, <3>2
  <2> QED BY <2>1, <2>4, <2>5, <2>6, <2>7 DEF CacheIsRecent
<1> QED BY <1>3, <1>4 DEF CacheInv

LEMMA MissKeepsInv ==
    ASSUME CacheInv, NEW th \in Callers, NEW text \in texts, Miss(th, text), UNCHANGED texts
    PROVE  CacheInv'
<1>1. call' = [call EXCEPT ![th] = Missed(text)] /\ UNCHANGED <<cache, recent>>
  BY DEF Miss
<1>2. CallsRight'
  BY <1>1 DEF CacheInv, CallsRight
<1>3. CacheIsRecent'
  BY <1>1 DEF CacheInv, CacheIsRecent
<1> QED BY <1>2, <1>3 DEF CacheInv

\* The first insertion of a text: it is the newest, the oldest makes room.
LEMMA PutNew ==
    ASSUME CacheIsRecent, NEW text \in texts, text \notin Cached,
           cache' = Trim(Append(cache, Entry(text))), recent' = Used(text), UNCHANGED texts
    PROVE  CacheIsRecent'
<1>1. /\ cache \in Seq({Entry(t) : t \in texts}) /\ recent \in Seq(texts)
      /\ Distinct(recent) /\ Len(cache) = Len(recent) /\ Len(cache) <= CacheSize
      /\ \A j \in 1..Len(cache) : cache[j] = Entry(recent[j])
  BY DEF CacheIsRecent
<1>2. \A j \in 1..Len(recent) : recent[j] # text
  BY <1>1, CachedFacts
<1>3. Entry(text) \in {Entry(t) : t \in texts}
  OBVIOUS
<1>4. CASE Len(cache) < CacheSize
  <2>1. recent' = Append(recent, text)
    BY <1>1, <1>4, UsedNew
  <2>2. Len(Append(cache, Entry(text))) = Len(cache) + 1
    BY <1>1, <1>3
  <2>3. cache' = Append(cache, Entry(text))
    BY <1>1, <1>4, <2>2, CacheSizeFacts DEF Trim
  <2> QED BY <1>1, <1>2, <1>3, <1>4, <2>1, <2>3, CacheSizeFacts DEF CacheIsRecent, Distinct
<1>5. CASE Len(cache) = CacheSize
  <2>1. recent' = Append(Tail(recent), text)
    BY <1>1, <1>5, CacheSizeFacts, UsedNew
  <2>2. Len(Append(cache, Entry(text))) = Len(cache) + 1
    BY <1>1, <1>3
  <2>3. cache' = Tail(Append(cache, Entry(text)))
    BY <1>1, <1>5, <2>2, CacheSizeFacts DEF Trim
  <2>4. /\ cache' \in Seq({Entry(t) : t \in texts}) /\ Len(cache') = CacheSize
        /\ \A j \in 1..(CacheSize - 1) : cache'[j] = cache[j + 1]
        /\ cache'[CacheSize] = Entry(text)
    BY <1>1, <1>3, <1>5, <2>3, CacheSizeFacts
  <2>5. /\ recent' \in Seq(texts) /\ Len(recent') = CacheSize
        /\ \A j \in 1..(CacheSize - 1) : recent'[j] = recent[j + 1]
        /\ recent'[CacheSize] = text
    <3> DEFINE r == Tail(recent)
    <3>1. /\ r \in Seq(texts) /\ Len(r) = CacheSize - 1
          /\ \A j \in 1..(CacheSize - 1) : r[j] = recent[j + 1]
      <4>1. recent \in Seq(texts) /\ Len(recent) = CacheSize
        BY <1>1, <1>5
      <4>2. recent # <<>>
        BY <4>1, CacheSizeFacts
      <4> QED BY <4>1, <4>2, CacheSizeFacts, HeadTailProperties
    <3>2. recent' = Append(r, text)
      BY <2>1
    <3> HIDE DEF r
    <3> QED BY <3>1, <3>2, CacheSizeFacts
  <2>6. Distinct(recent')
    BY <1>1, <1>2, <1>5, <2>5, CacheSizeFacts DEF Distinct
  <2>7. ASSUME NEW j \in 1..CacheSize
        PROVE  cache'[j] = Entry(recent'[j])
    <3>1. j \in 1..(CacheSize - 1) \/ j = CacheSize
      BY CacheSizeFacts
    <3>2. j \in 1..(CacheSize - 1) => j + 1 \in 1..Len(cache)
      BY <1>5, CacheSizeFacts
    <3> QED BY <1>1, <2>4, <2>5, <3>1, <3>2
  <2> QED BY <2>4, <2>5, <2>6, <2>7, CacheSizeFacts DEF CacheIsRecent
<1> QED BY <1>1, <1>4, <1>5, CacheSizeFacts

LEMMA PutKeepsInv ==
    ASSUME CacheInv, NEW th \in Callers, Put(th), UNCHANGED texts
    PROVE  CacheInv'
<1> DEFINE text == call[th].text
<1>1. CallsRight /\ CacheIsRecent
  BY DEF CacheInv
<1>2. text \in texts
  BY <1>1 DEF Put, CallsRight, Quiet, Missed, Returned
<1>3. /\ cache' = Trim(Stored(Entry(text)))
      /\ call' = [call EXCEPT ![th] = Returned(text, FastScrub(text))]
      /\ recent' = IF text \in Cached THEN recent ELSE Used(text)
  BY DEF Put, Entry
<1> HIDE DEF text
<1>4. CallsRight'
  BY <1>1, <1>2, <1>3 DEF CallsRight
<1>5. CASE text \in Cached
  <2>1. Stored(Entry(text)) = [cache EXCEPT ![Position(text)] = Entry(text)]
    BY <1>5, EntryFields DEF Stored
  <2>2. Position(text) \in 1..Len(cache) /\ cache[Position(text)] = Entry(text)
    BY <1>1, <1>5, PositionFacts
  <2>3. cache \in Seq({Entry(t) : t \in texts}) /\ Len(cache) <= CacheSize
    BY <1>1 DEF CacheIsRecent
  <2>4. [cache EXCEPT ![Position(text)] = Entry(text)] = cache
    BY <2>2, <2>3
  <2>5. Len(cache) \in Nat
    BY <2>3
  <2>6. cache' = cache /\ recent' = recent
    BY <1>3, <1>5, <2>1, <2>3, <2>4, <2>5, CacheSizeFacts DEF Trim
  <2>7. CacheIsRecent'
    BY <1>1, <2>6 DEF CacheIsRecent
  <2> QED BY <1>4, <2>7 DEF CacheInv
<1>6. CASE text \notin Cached
  <2>1. Stored(Entry(text)) = Append(cache, Entry(text))
    BY <1>6, EntryFields DEF Stored
  <2>2. CacheIsRecent'
    BY <1>1, <1>2, <1>3, <1>6, <2>1, PutNew
  <2> QED BY <1>4, <2>2 DEF CacheInv
<1> QED BY <1>5, <1>6

\* The invariant of the cache holds in every behaviour.
THEOREM CacheInvariant == SSpec => []CacheInv
<1>1. SInit => CacheInv
  BY CacheInvInit
<1>2. CacheInv /\ [SNext]_svars => CacheInv'
  <2> SUFFICES ASSUME CacheInv, [SNext]_svars PROVE CacheInv'
    OBVIOUS
  <2>1. CASE SNext
    <3>1. UNCHANGED texts
      BY <2>1 DEF SNext
    <3>2. ASSUME NEW th \in Callers, NEW text \in texts, Hit(th, text) PROVE CacheInv'
      BY <3>1, <3>2, HitKeepsInv
    <3>3. ASSUME NEW th \in Callers, NEW text \in texts, Miss(th, text) PROVE CacheInv'
      BY <3>1, <3>3, MissKeepsInv
    <3>4. ASSUME NEW th \in Callers, Put(th) PROVE CacheInv'
      BY <3>1, <3>4, PutKeepsInv
    <3> QED BY <2>1, <3>2, <3>3, <3>4 DEF SNext
  <2>2. CASE UNCHANGED svars
    BY <2>2 DEF svars, CacheInv, CallsRight, CacheIsRecent
  <2> QED BY <2>1, <2>2
<1> QED BY <1>1, <1>2, PTL DEF SSpec

-----------------------------------------------------------------------------
(* The theorems *)

\* What is handed out or kept is a scrub of its own text, from the lock or not.
LEMMA AnswersAreScrubbed ==
    ASSUME CacheInv, NEW a \in Answers
    PROVE  /\ a[1] \in Documents
           /\ a[2] = FastScrub(a[1])
<1>1. CASE a \in {<<call[th].text, call[th].res>> :
                    th \in {th \in Callers : call[th].stage = "returned"}}
  <2>1. PICK th \in Callers :
          call[th].stage = "returned" /\ a = <<call[th].text, call[th].res>>
    BY <1>1
  <2>2. PICK text \in texts : call[th] = Returned(text, FastScrub(text))
    BY <2>1 DEF CacheInv, CallsRight, Quiet, Missed
  <2>3. a[1] = text /\ a[2] = FastScrub(text)
    BY <2>1, <2>2 DEF Returned
  <2> QED BY <2>3 DEF CacheInv
<1>2. CASE a \in {<<cache[i].key, cache[i].res>> : i \in 1..Len(cache)}
  <2>1. PICK i \in 1..Len(cache) : a = <<cache[i].key, cache[i].res>>
    BY <1>2
  <2>2. PICK text \in texts : cache[i] = Entry(text)
    BY DEF CacheInv, CacheIsRecent
  <2>3. a[1] = text /\ a[2] = FastScrub(text)
    BY <2>1, <2>2, EntryFields
  <2> QED BY <2>3 DEF CacheInv
<1> QED BY <1>1, <1>2 DEF Answers

\* "Both produce identical cleaning output" (intent_scrubber.py:14): with the
\* cache, the pre-filter and the unlocked computation, every answer given or kept
\* is what the baseline computes for that very text.
THEOREM AnswersAreReference == SSpec => []ScrubIsReference
<1>1. CacheInv => ScrubIsReference
  BY AnswersAreScrubbed, FastIsNaive DEF ScrubIsReference
<1> QED BY <1>1, CacheInvariant, PTL

\* "Detector signals that must also be removable" (intent_scrubber.py:38-47, 62):
\* whatever the document, once it is scrubbed and unless its score was a block,
\* the rules name nothing in any line of it.
THEOREM BandIsScrubbed == SSpec => []BandIsRemovable
<1>1. CacheInv => BandIsRemovable
  <2> SUFFICES ASSUME CacheInv, NEW a \in Answers,
                      RuleScore(a[1]) < DefaultThresholds.injection_block
               PROVE  RuleHits(Unbroken(a[2].text)) = {}
    BY DEF BandIsRemovable
  <2>1. a[1] \in Documents /\ a[2] = FastScrub(a[1])
    BY AnswersAreScrubbed
  <2>2. Clean(a[2].text) /\ Seen(a[2].text) \subseteq Seen(a[1])
    BY <2>1, ScrubbedText
  <2> QED BY <2>2, CleanBandIsEmpty
<1> QED BY <1>1, CacheInvariant, PTL

\* A scrubbed text is final (gateway.py:171-190): a second scrub leaves it alone,
\* and the rules score it no higher than the text it was scrubbed from.
THEOREM ScrubbingIsFinal == SSpec => []ScrubIsFinal
<1>1. CacheInv => ScrubIsFinal
  <2> SUFFICES ASSUME CacheInv, NEW a \in Answers
               PROVE  /\ FastScrub(a[2].text) = ScrubResult(a[2].text, 0)
                      /\ RuleScore(a[2].text) <= RuleScore(a[1])
    BY DEF ScrubIsFinal
  <2>1. a[1] \in Documents /\ a[2] = FastScrub(a[1])
    BY AnswersAreScrubbed
  <2>2. Clean(a[2].text) /\ Seen(a[2].text) \subseteq Seen(a[1])
    BY <2>1, ScrubbedText
  <2> QED BY <2>2, CleanIsScrubbed, CleanScoresLess
<1> QED BY <1>1, CacheInvariant, PTL

\* Bounded memory, one entry for each text, and what is in use stays
\* (intent_scrubber.py:188-201): a text that was hit or first inserted is still
\* cached until CacheSize other texts were, whichever threads insert it again.
THEOREM CacheKeepsWhatIsUsed == SSpec => []CacheIsLru
<1>1. CacheInv => CacheIsLru
  <2> SUFFICES ASSUME CacheInv PROVE CacheIsLru
    OBVIOUS
  <2>1. /\ cache \in Seq({Entry(t) : t \in texts}) /\ Distinct(recent)
        /\ Len(cache) = Len(recent) /\ Len(cache) <= CacheSize
        /\ \A i \in 1..Len(cache) : cache[i] = Entry(recent[i])
    BY DEF CacheInv, CacheIsRecent
  <2>2. \A i \in 1..Len(cache) : cache[i].key = recent[i]
    BY <2>1, EntryFields
  <2>3. Cardinality(Cached) = Len(cache)
    <3> DEFINE f == [i \in 1..Len(cache) |-> cache[i].key]
    <3>1. f \in Bijection(1..Len(cache), Cached)
      BY <2>1, <2>2 DEF Distinct, Cached, Bijection, Injection, Surjection, IsInjective
    <3>2. Len(cache) \in Nat
      BY <2>1
    <3>3. ExistsBijection(1..Len(cache), Cached)
      BY <3>1 DEF ExistsBijection
    <3> QED BY <3>2, <3>3, FS_CountingElements
  <2>4. \A i \in 1..Len(recent) : recent[i] \in Cached
    BY <2>1, <2>2 DEF Cached
  <2> QED BY <2>1, <2>3, <2>4 DEF CacheIsLru, CacheBounded
<1> QED BY <1>1, CacheInvariant, PTL
=============================================================================
