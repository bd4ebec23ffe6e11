--------------------------- MODULE MCDataSources ---------------------------
(* Small instances of DataSources for TLC. *)
EXTENDS DataSources, TLC

Symmetry == Permutations(Requests)
=============================================================================
