---------------------------- MODULE MCHotelStatus ----------------------------
(* Instances of HotelStatus for TLC. *)
EXTENDS HotelStatus

=============================================================================
