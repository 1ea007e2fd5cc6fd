----------------------------- MODULE BookingRules -----------------------------
(***************************************************************************)
(* The pure booking rules of backend/src/domain/booking.rs: the statuses,  *)
(* the worker actions that move a booking along, the action that needs the *)
(* customer's arrival code, and when the customer may still cancel.        *)
(***************************************************************************)

Status == {"pending", "accepted", "en_route", "arrived", "in_progress",
           "completed", "cancelled"}

\* A booking in one of these statuses is over: "mine", "my_jobs" and the
\* per-customer cap all leave it out.
Finished == {"completed", "cancelled"}

WorkerAction == {"en_route", "arrived", "start", "complete"}

\* The status `action` leads to from `current`, or "refused": the code tells
\* apart a Conflict (known action, wrong status) and a Validation error
\* (unknown action); neither has an effect.
NextStatus(action, current) ==
  CASE action = "en_route" /\ current = "accepted"    -> "en_route"
    [] action = "arrived"  /\ current = "en_route"    -> "arrived"
    [] action = "start"    /\ current = "arrived"     -> "in_progress"
    [] action = "complete" /\ current = "in_progress" -> "completed"
    [] OTHER                                          -> "refused"

ActionNeedsOtp(action) == action = "start"

CanCancel(current) == current \in {"pending", "accepted"}

\* The statuses a booking can have at or after `s` on its way to completion.
\* An assigned booking never moves backwards, so this is also what a reader
\* may find when it looks again at a booking it has seen in status `s`.
AtOrAfter(s) ==
  CASE s = "en_route"    -> {"en_route", "arrived", "in_progress", "completed"}
    [] s = "arrived"     -> {"arrived", "in_progress", "completed"}
    [] s = "in_progress" -> {"in_progress", "completed"}
    [] s = "completed"   -> {"completed"}
    [] s = "cancelled"   -> {"cancelled"}
    [] s = "accepted"    -> Status \ {"pending"}
    [] OTHER             -> Status

\* The statuses of a booking whose worker has carried out `action`.
Since(action) ==
  CASE action = "en_route" -> AtOrAfter("en_route")
    [] action = "arrived"  -> AtOrAfter("arrived")
    [] action = "start"    -> AtOrAfter("in_progress")
    [] action = "complete" -> AtOrAfter("completed")
    [] OTHER               -> {}

=============================================================================
