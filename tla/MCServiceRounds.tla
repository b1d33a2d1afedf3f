--------------------------- MODULE MCServiceRounds ---------------------------
(* Instances of ServiceRounds for TLC. *)
EXTENDS ServiceRounds, TLC

CONSTANTS g1, g2, w1, w2

\* Nobody eligible, one guest only, equal shares, and shares that leave dust.
SomeWeights ==
  { g1 :> 0 @@ g2 :> 0, g1 :> 1 @@ g2 :> 0, g1 :> 1 @@ g2 :> 1,
    g1 :> 1 @@ g2 :> 2 }
TwoWeights == { g1 :> 1 @@ g2 :> 1, g1 :> 1 @@ g2 :> 2 }

WorkerSymmetry == Permutations(Worker)

=============================================================================
