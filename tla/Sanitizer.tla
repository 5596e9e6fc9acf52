------------------------------ MODULE Sanitizer ------------------------------
(***************************************************************************)
(* aegis/sanitizer/detectors.py, the lexicons of features.py, and the        *)
(* rewriting of scrubber/intent_scrubber.py: the two readers of one          *)
(* vocabulary.  A document is a sequence of lines; of a line only the        *)
(* patterns that match it are kept.  The detector reads the whole document,  *)
(* the scrubber line by line, so a match that spans a line break is seen by  *)
(* the one and not by the other: these are kept apart, in across.            *)
(***************************************************************************)
EXTENDS Integers, Sequences, FiniteSets

\* The compiled patterns the scrubber takes from the detector's lexicon.
DetectorPatterns ==
    {"override", "role", "new_policy", "jailbreak", "multilingual", "secrecy",
     "coercion", "payload"}

\* What only the scrubber's own patterns match ("own"), and what only the
\* detector looks for: exfil_secret is a verb, a secret and an external address
\* within one clause, strong_exfil an unambiguous verb with either of them.
Signals ==
    DetectorPatterns \cup
    {"own", "exfil_verb", "credential", "tool_trigger", "exfil_secret", "strong_exfil"}

\* Mutant: the scrubber's vocabulary has drifted from the detector's.
DriftedRemovable == (DetectorPatterns \ {"multilingual", "secrecy"}) \cup {"own"}

\* _RAW_PATTERNS: what the scrubber removes.
Removable == DetectorPatterns \cup {"own"}

\* A line: the patterns it matches as it stands, those it matches once
\* obfuscation is undone, and whether it holds suspicious invisible characters.
Line == [plain : SUBSET Signals, veiled : SUBSET Signals, hidden : BOOLEAN]

\* across[i] matches the end of line i with the beginning of line i + 1.
Documents ==
    {doc \in [lines : Seq(Line), across : Seq(SUBSET Signals)] :
        Len(doc.lines) = Len(doc.across) + 1}

-----------------------------------------------------------------------------
(* Views of a text *)

\* normalize_text, a line at a time: it never joins lines.
Normalized(line) ==
    [plain |-> line.plain \cup line.veiled, veiled |-> {}, hidden |-> FALSE]

MatchView(line) == Normalized(line).plain

\* _canonicalize strips invisible characters only: the caller's text keeps its
\* letters, and what they hide.
Canonicalized(doc) ==
    [doc EXCEPT !.lines =
        [i \in 1..Len(doc.lines) |-> [doc.lines[i] EXCEPT !.hidden = FALSE]]]

\* The patterns the detector finds in a document.
Seen(doc) ==
    UNION ({MatchView(doc.lines[i]) : i \in 1..Len(doc.lines)}
             \cup {doc.across[i] : i \in 1..Len(doc.across)})

-----------------------------------------------------------------------------
(* rule_evaluate *)

\* Weights in hundredths.
RuleWeight ==
    [override |-> 80, multilingual |-> 78, role |-> 75, new_policy |-> 65,
     jailbreak |-> 70, payload |-> 72, hidden_chars |-> 55,
     exfil_secret |-> 88, strong_exfil |-> 82, tool_hijack |-> 80,
     stealth_instruction |-> 78]

HiddenHits(doc) ==
    IF \E i \in 1..Len(doc.lines) : doc.lines[i].hidden THEN {"hidden_chars"} ELSE {}

PatternHits(seen) ==
    seen \cap {"override", "multilingual", "role", "new_policy", "jailbreak", "payload"}

\* _exfil_score: one hit, the stronger clause first.
ExfilHits(seen) ==
    IF "exfil_secret" \in seen THEN {"exfil_secret"} ELSE seen \cap {"strong_exfil"}

HijackHits(seen) ==
    IF /\ "tool_trigger" \in seen
       /\ seen \cap {"override", "credential", "coercion"} # {}
    THEN {"tool_hijack"} ELSE {}

StealthHits(seen) ==
    IF /\ "secrecy" \in seen
       /\ seen \cap {"exfil_verb", "tool_trigger", "override"} # {}
    THEN {"stealth_instruction"} ELSE {}

RuleHits(doc) ==
    LET seen == Seen(doc)
    IN  HiddenHits(doc) \cup PatternHits(seen) \cup ExfilHits(seen)
          \cup HijackHits(seen) \cup StealthHits(seen)

Million == 1000000

\* The rules in the order in which their hits are found.
RuleOrder == <<"hidden_chars", "override", "multilingual", "role", "new_policy", "jailbreak",
               "payload", "exfil_secret", "strong_exfil", "tool_hijack",
               "stealth_instruction">>

\* The part of the probability that the noisy-OR leaves, in millionths (rounded
\* down from the fourth hit on).
Kept(hits) ==
    LET keep[i \in 0..Len(RuleOrder)] ==
            IF i = 0 THEN Million
            ELSE IF RuleOrder[i] \in hits
                 THEN (keep[i - 1] * (100 - RuleWeight[RuleOrder[i]])) \div 100
                 ELSE keep[i - 1]
    IN  keep[Len(RuleOrder)]

\* The rule score in hundredths, rounded down.
RuleScore(doc) == (Million - Kept(RuleHits(doc))) \div 10000

-----------------------------------------------------------------------------
(* Scrubbing *)

\* Some pattern matches the line on its own.
Flagged(line) == MatchView(line) \cap Removable # {}

\* Mutant: a marker that reads like a role token.
TokenMarker == [plain |-> {"role"}, veiled |-> {}, hidden |-> FALSE]

\* The marker put in a line's place matches no pattern, alone or with a neighbour.
REDACTION == [plain |-> {}, veiled |-> {}, hidden |-> FALSE]

Redacted(doc) == {i \in 1..Len(doc.lines) : Flagged(doc.lines[i])}

\* Lines that match are replaced, the others stay as they are.
WithoutFlagged(doc) ==
    [lines |-> [i \in 1..Len(doc.lines) |->
                  IF i \in Redacted(doc) THEN REDACTION ELSE doc.lines[i]],
     across |-> [i \in 1..Len(doc.across) |->
                  IF {i, i + 1} \cap Redacted(doc) # {} THEN {} ELSE doc.across[i]]]

ScrubResult(doc, removed) == [text |-> doc, removed_count |-> removed]

\* NaiveIntentScrubber.scrub: every pattern on every line.
NaiveScrub(doc) ==
    LET norm == Canonicalized(doc)
    IN  ScrubResult(WithoutFlagged(norm), Cardinality(Redacted(norm)))

\* Mutant: the hand-written hint this pre-filter replaced, which knew fewer phrases.
HintMatches(doc) == Seen(doc) \cap {"override", "new_policy", "jailbreak", "own"} # {}

\* _MASTER over the normalised document
MasterMatches(doc) == Seen(doc) \cap Removable # {}

\* IntentScrubber.scrub, on a miss: nothing is scanned unless the master matches.
FastScrub(doc) ==
    LET norm == Canonicalized(doc)
    IN  IF MasterMatches(norm)
        THEN ScrubResult(WithoutFlagged(norm), Cardinality(Redacted(norm)))
        ELSE ScrubResult(norm, 0)
=============================================================================
