----------------------------- MODULE PayoutLedger -----------------------------
(***************************************************************************)
(* What Room Service promises its guests, whatever the worker, the API and *)
(* the contract do to keep it: wei arrive, guests earn part of them, and   *)
(* everyone is paid at most what they earned, once.                        *)
(***************************************************************************)
EXTENDS Totals

CONSTANT Guest

VARIABLES
  received,   \* wei that ever arrived
  earned,     \* wei each guest earned so far
  paid        \* wei each guest was paid so far

vars == <<received, earned, paid>>

Nothing == [g \in Guest |-> 0]

Init ==
  /\ received = 0
  /\ earned = Nothing
  /\ paid = Nothing

Receive ==
  /\ received' \in Nat /\ received' > received
  /\ UNCHANGED <<earned, paid>>

\* Guests only earn what has arrived, and keep what they earned.
Earn ==
  /\ earned' \in [Guest -> Nat]
  /\ \A g \in Guest : earned[g] <= earned'[g]
  /\ Total(earned') <= received
  /\ UNCHANGED <<received, paid>>

Pay(g) ==
  \E sum \in (paid[g] + 1) .. earned[g] :
    /\ paid' = [paid EXCEPT ![g] = sum]
    /\ UNCHANGED <<received, earned>>

Next == Receive \/ Earn \/ \E g \in Guest : Pay(g)

Spec == Init /\ [][Next]_vars

=============================================================================
