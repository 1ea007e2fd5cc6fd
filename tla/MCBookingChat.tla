---------------------------- MODULE MCBookingChat ----------------------------
(***************************************************************************)
(* Instance of BookingChat for TLC.                                        *)
(***************************************************************************)
EXTENDS BookingChat, TLC

CONSTANTS b1, b2, u1, w1, staff, c1

\* Two bookings, of a customer and of a worker.
TwoCustomers == b1 :> u1 @@ b2 :> w1
=============================================================================
