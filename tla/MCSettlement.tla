---------------------------- MODULE MCSettlement ----------------------------
(* Instances of Settlement for TLC. *)
EXTENDS Settlement

CONSTANTS alice, key, otherKey

=============================================================================
