-------------------------- MODULE MCCheckInIngest ---------------------------
(* Instances of CheckInIngest for TLC. *)
EXTENDS CheckInIngest

CONSTANTS alice, bob

\* The instance is one that the theorems on skipped events and snapshots are about.
ASSUME ReorgsAreShallow == ShallowReorgs

=============================================================================
