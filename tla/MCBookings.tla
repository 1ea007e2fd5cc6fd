------------------------------ MODULE MCBookings ------------------------------
(***************************************************************************)
(* Instances of Bookings for TLC.                                          *)
(***************************************************************************)
EXTENDS Bookings, TLC

CONSTANTS b1, u1, u2, u3, k1

\* One booking, created by u1, who is a worker as well.
OneCustomer == b1 :> u1
OneOtp == b1 :> k1

\* u2 and u3 are workers and nothing else, tasks are interchangeable.
TaskSymmetry == Permutations(Task)
WorkerAndTaskSymmetry == Permutations({u2, u3}) \cup TaskSymmetry
=============================================================================
