------------------------------- MODULE Totals -------------------------------
(***************************************************************************)
(* Sums over finite functions, written so that they can be proved about.   *)
(*                                                                         *)
(* The contract and the database both keep a running total next to the     *)
(* mapping it sums (totalRoomServiceClaimed next to roomServiceClaimed,    *)
(* totalGuestEscrowLiability next to _stays, the sum of a round's          *)
(* allocations next to its pool).  Total(f) counts the units of f one by   *)
(* one, as a set, so no recursion is needed and the cardinality theorems   *)
(* of the library apply.                                                   *)
(***************************************************************************)
EXTENDS Naturals, FiniteSets

\* The units of f: one pair <<x, k>> for each k in 1..f[x].
Units(f) == UNION {{x} \X (1 .. f[x]) : x \in DOMAIN f}

\* The sum of a function with natural values and a finite domain.
Total(f) == Cardinality(Units(f))

=============================================================================
