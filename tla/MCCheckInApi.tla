----------------------------- MODULE MCCheckInApi -----------------------------
(* Instances of CheckInApi, and of the rate limits in front of it, for TLC.    *)
EXTENDS CheckInApi, RateLimits, TLC

MCSupply == [g \in Guest |-> IF g = 1 THEN 1 ELSE 0]
MCSymmetry == Permutations(Challenge) \cup Permutations(Request)

\* Limits and authorizations share no state, and so no interleaving of them says
\* more than each alone: one moves while the other stands where it begins.
MCInit == Init /\ LimitInit
MCNext ==
  \/ LimitInit /\ Next /\ UNCHANGED limitVars
  \/ Init /\ LimitNext /\ UNCHANGED vars

MCSpec == MCInit /\ [][MCNext]_<<vars, limitVars>>

=============================================================================
