-------------------------- MODULE MCBookingCreation ---------------------------
(***************************************************************************)
(* Instances of BookingCreation for TLC.                                   *)
(***************************************************************************)
EXTENDS BookingCreation, TLC

CONSTANTS pct, flat

\* Ten per cent off, and three rupees off.
TwoRules == pct :> [kind |-> "percent", off |-> 10]
         @@ flat :> [kind |-> "flat", off |-> 300]

OneRule == pct :> [kind |-> "percent", off |-> 10]

NoRules == <<>>

TaskSymmetry == Permutations(Task)
=============================================================================
