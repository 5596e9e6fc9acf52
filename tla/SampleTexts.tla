----------------------------- MODULE SampleTexts -----------------------------
(* Short names for the documents the instances are built from.                *)
EXTENDS Sanitizer

Plain(signals) == [plain |-> signals, veiled |-> {}, hidden |-> FALSE]
Veiled(signals) == [plain |-> {}, veiled |-> signals, hidden |-> FALSE]
Hidden(signals) == [plain |-> signals, veiled |-> {}, hidden |-> TRUE]
Blank == Plain({})

OneLine(line) == [lines |-> <<line>>, across |-> <<>>]
TwoLines(first, second, between) == [lines |-> <<first, second>>, across |-> <<between>>]
ThreeLines(a, b, c) == [lines |-> <<a, b, c>>, across |-> <<{}, {}>>]
=============================================================================
