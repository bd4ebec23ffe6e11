----------------------------- MODULE MCMasterKey -----------------------------
(* A small instance of MasterKey for TLC. *)
EXTENDS MasterKey
=============================================================================
