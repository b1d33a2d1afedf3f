------------------------------ MODULE MCIndexer ------------------------------
(* Instances of Indexer for TLC. *)
EXTENDS Indexer

CONSTANTS alice, bob

Move(from, to, value) == [from |-> from, to |-> to, value |-> value]

\* A mint and two transfers that depend on it and on each other.
ThreeTransfers ==
  <<Move(Zero, alice, 2), Move(alice, bob, 1), Move(bob, alice, 1)>>

OneTransfer == <<Move(Zero, alice, 2)>>

NothingWrong == [fault |-> {}, faults |-> 0, reorgs |-> 0, depth |-> 1]

\* Failures and deaths with a reorg of blocks that are not confirmed yet; or reorgs
\* that reach the last indexed block, with a gap or a lookup that fails.
FailuresOrReorgs ==
  {[NothingWrong EXCEPT !.fault = {"error", "crash", "gap", "nullEndHash"}, !.faults = 2,
               !.reorgs = 1],
   [NothingWrong EXCEPT !.fault = {"gap", "nullCursorHash", "nullPrevHash"}, !.faults = 2,
               !.reorgs = 2, !.depth = 2]}
OneGap == {[NothingWrong EXCEPT !.fault = {"gap"}, !.faults = 1]}

\* The runs are instances of the theorems about robust regimes.
ASSUME RegimesAreRobust == Robust

=============================================================================
