---------------------------- MODULE MCRoomService ----------------------------
(* Instances of RoomService for TLC. *)
EXTENDS RoomService, TLC

CONSTANTS g1, g2, k1, k2

\* Guests are interchangeable.
GuestSymmetry == Permutations(Guest)

=============================================================================
