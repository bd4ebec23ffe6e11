--------------------------- MODULE MCEtlExecutions ---------------------------
(* Small instances of EtlExecutions for TLC. *)
EXTENDS EtlExecutions, TLC

Symmetry == Permutations(Executions) \cup Permutations(Requests)
              \cup Permutations(Kpis) \cup Permutations(Originals)
=============================================================================
