------------------------------- MODULE MCModel -------------------------------
(* Small instances of the model artifact for TLC. *)
EXTENDS ModelHistory

\* "old" are weights for another feature dimension.
SomeModels == {"shipped", "seed7", "seed8", "old"}
UsableModels == SomeModels \ {"old"}
=============================================================================
