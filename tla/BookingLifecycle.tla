--------------------------- MODULE BookingLifecycle ---------------------------
(***************************************************************************)
(* What the booking engine promises to customers and workers, with every   *)
(* operation a single atomic step and no handlers, reads or audit rows:    *)
(*                                                                         *)
(*   pending -> accepted -> en_route -> arrived -> in_progress -> completed *)
(*   pending | accepted -> cancelled                                       *)
(*                                                                         *)
(* One worker takes a job and keeps it to the end; the worker is never the *)
(* customer; a completed job is rated at most once.  Module Bookings, the  *)
(* concurrent handlers, is shown to implement this specification.          *)
(***************************************************************************)
EXTENDS BookingRules, Integers

CONSTANTS
  Booking,     \* the bookings
  Worker,      \* the users who hold the worker role
  CustomerOf,  \* the user each booking was created by
  NoWorker     \* bookings.worker_id IS NULL

VARIABLE job   \* job[b]: the status, worker and rating (0: none) of booking b

Job == [status : Status, worker : Worker \cup {NoWorker}, rating : 0..5]

Init == job = [b \in Booking |->
                 [status |-> "pending", worker |-> NoWorker, rating |-> 0]]

\* A worker takes an open job that is not their own booking.
Take(b, w) ==
  /\ job[b].status = "pending"
  /\ job[b].worker = NoWorker
  /\ CustomerOf[b] # w
  /\ job' = [job EXCEPT ![b] = [status |-> "accepted", worker |-> w,
                                rating |-> job[b].rating]]

\* The assigned worker moves the job one status further.
Move(b, action) ==
  /\ NextStatus(action, job[b].status) \in Status
  /\ job' = [job EXCEPT ![b].status = NextStatus(action, job[b].status)]

\* The customer withdraws a job nobody is on the way to yet.
Withdraw(b) ==
  /\ CanCancel(job[b].status)
  /\ job' = [job EXCEPT ![b].status = "cancelled"]

\* The customer rates a completed, unrated job.
Review(b, stars) ==
  /\ job[b].status = "completed"
  /\ job[b].rating = 0
  /\ job' = [job EXCEPT ![b].rating = stars]

Next ==
  \E b \in Booking :
     \/ \E w \in Worker : Take(b, w)
     \/ \E a \in WorkerAction : Move(b, a)
     \/ Withdraw(b)
     \/ \E stars \in 1..5 : Review(b, stars)

Spec == Init /\ [][Next]_job
=============================================================================
