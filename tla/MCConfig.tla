------------------------------ MODULE MCConfig ------------------------------
(* A small instance for TLC: DEFAULT_CONFIG and up to three further objects,  *)
(* changed in place up to twice.                                              *)
EXTENDS ConfigStore, TLC

\* A partial mapping, a mistyped key, an inconsistent one, a bad table.
SomeMappings ==
    {[keys |-> {"tables", "sets"}, content |-> [DefaultContent EXCEPT !.sets = "other"]],
     [keys |-> {"unknown", "limit"}, content |-> DefaultContent],
     [keys |-> {"thresholds"},
      content |-> [DefaultContent EXCEPT !.thresholds = [sanitize |-> 2, block |-> 1]]],
     [keys |-> {"tables"}, content |-> [DefaultContent EXCEPT !.tables = "invalid"]]}

\* A lower block threshold, an inconsistent pair, a limit of zero.
SomeOverlays ==
    {[thresholds |-> [sanitize |-> 1, block |-> 1], limit |-> 1],
     [thresholds |-> [sanitize |-> 2, block |-> 1], limit |-> 1],
     [thresholds |-> [sanitize |-> 1, block |-> 2], limit |-> 0]}
=============================================================================
