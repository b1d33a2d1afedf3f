----------------------------- MODULE MCWalletTx -----------------------------
(* An instance of WalletTx for TLC: an account with HOTEL and Room Service, which
   connects and disconnects, and two clicks. *)
EXTENDS WalletTx

CONSTANTS a, c1, c2

OneToken == [g \in Guest |-> 1]

=============================================================================
