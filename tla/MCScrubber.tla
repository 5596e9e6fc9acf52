----------------------------- MODULE MCScrubber -----------------------------
(* Small instances for TLC: two threads share a cache of two and scrub either  *)
(* seven documents that differ, or one document of many shapes.                *)
EXTENDS IntentScrubber, SampleTexts, TLC

\* A benign document; one with an invisible character in it; the multilingual
\* scenario of the demo server; a role token behind homoglyphs next to a line
\* with a credential; a directive broken over two lines; the same next to a line
\* that is removed; what only the scrubber looks for.
ScrubbedTexts ==
    {OneLine(Blank),
     OneLine(Hidden({"credential"})),
     ThreeLines(Blank, Plain({"multilingual"}), Blank),
     TwoLines(Veiled({"role"}), Plain({"credential"}), {}),
     TwoLines(Blank, Blank, {"multilingual"}),
     TwoLines(Plain({"secrecy"}), Blank, {"new_policy"}),
     OneLine(Plain({"own"}))}

\* A clause with a secret has a verb and a secret in it, so has its line.
Consistent(signals) ==
    /\ "exfil_secret" \in signals => {"exfil_verb", "credential"} \subseteq signals
    /\ "strong_exfil" \in signals => "exfil_verb" \in signals

\* Every set of patterns within one line.
LineDocuments ==
    {OneLine(line) : line \in {Plain(s) : s \in {s \in SUBSET Signals : Consistent(s)}}}

\* Lines with at most one pattern, plain, veiled or next to invisible characters.
SimpleLines ==
    LET few == {{}} \cup {{s} : s \in Signals \ {"exfil_secret", "strong_exfil"}}
    IN  {Plain(s) : s \in few} \cup {Veiled(s) : s \in few} \cup {Hidden({}), Hidden({"override"})}

PairDocuments ==
    {TwoLines(a, b, between) :
        a \in SimpleLines, b \in SimpleLines,
        between \in {{}} \cup {{s} : s \in DetectorPatterns \cup {"tool_trigger"}}}

SampleCorpora ==
    {ScrubbedTexts} \cup {{doc} : doc \in LineDocuments \cup PairDocuments}
=============================================================================
