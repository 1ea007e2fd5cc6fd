------------------------------- MODULE Bookings -------------------------------
(***************************************************************************)
(* The booking handlers of backend/src/api/bookings.rs on top of           *)
(* backend/src/infra/db/bookings.rs: accept, advance, cancel and rate.     *)
(*                                                                         *)
(* Each request is served by a task of its own, and every database         *)
(* statement is an await at which other tasks run.  A request is           *)
(*                                                                         *)
(*     [read] -> write -> reread -> log                                    *)
(*                                                                         *)
(*   read    SELECT the booking and decide on the row found (advance and   *)
(*           cancel only);                                                 *)
(*   write   one conditional UPDATE; zero rows affected is a Conflict;     *)
(*   reread  SELECT the booking again for the answer;                      *)
(*   log     INSERT the audit row, then answer.                            *)
(*                                                                         *)
(* The UPDATE commits on its own, the audit row is a later statement: a    *)
(* task can be lost between the two (database error, the client hanging    *)
(* up, the process being killed; a crash loses every running task).        *)
(***************************************************************************)
EXTENDS BookingRules, Integers, Sequences, FiniteSets

CONSTANTS
  Booking,     \* the bookings, each just created
  User,        \* the users
  Worker,      \* the users whose token carries the worker role
  CustomerOf,  \* bookings.customer_id
  Otp,         \* bookings.arrival_otp, or NoCode when the column is NULL
  Code,        \* the arrival codes a request may carry
  Stars,       \* the ratings a request may carry, legal or not
  Task,        \* the requests the server works on at the same time
  MaxFailures, \* bound: how many tasks may be lost
  NoWorker, NoCode

ASSUME WorkerAssumption ==
  /\ Worker \subseteq User
  /\ NoWorker \notin User
ASSUME RowAssumption ==
  /\ CustomerOf \in [Booking -> User]
  /\ Otp \in [Booking -> Code \cup {NoCode}]
  /\ NoCode \notin Code
ASSUME BoundAssumption ==
  /\ Stars \subseteq Int
  /\ MaxFailures \in Nat

VARIABLES
  row,      \* row[b]: the row of booking b
  audit,    \* audit[b]: the audit rows about booking b, oldest first
  pc,       \* pc[t]: the next statement of task t
  req,      \* req[t]: the request task t is serving
  seen,     \* seen[t]: the booking status task t read last
  failures  \* how many tasks have been lost

vars == <<row, audit, pc, req, seen, failures>>

-----------------------------------------------------------------------------
(* Data *)

Stamp == {"accepted_at", "arrived_at", "completed_at", "cancelled_at"}

\* A row: rating 0 is rating IS NULL, stamps are the timestamps that are set.
Row == [status : Status, worker : Worker \cup {NoWorker}, rating : 0..5,
        stamps : SUBSET Stamp]

NewRow == [status |-> "pending", worker |-> NoWorker, rating |-> 0, stamps |-> {}]

\* "other" stands for every action string the API does not know.
Op == WorkerAction \cup {"accept", "cancel", "rate", "other"}

Request ==
  {r \in [op : Op, by : User, on : Booking,
          code : Code \cup {NoCode}, stars : Stars \cup {0}] :
     /\ r.op # "start" => r.code = NoCode
     /\ r.op # "rate"  => r.stars = 0}

NoRequest == [op |-> "none"]

\* An audit row: the operation, who asked for it and, for the worker's
\* actions, the status the handler put beside it ("none" otherwise).
AuditRow == [op : Op, by : User, status : Status \cup {"none"}]

Step == {"idle", "read", "write", "reread", "log"}

Init ==
  /\ row = [b \in Booking |-> NewRow]
  /\ audit = [b \in Booking |-> <<>>]
  /\ pc = [t \in Task |-> "idle"]
  /\ req = [t \in Task |-> NoRequest]
  /\ seen = [t \in Task |-> "none"]
  /\ failures = 0

-----------------------------------------------------------------------------
(* A request arrives *)

\* What a handler refuses before its first statement: a worker action needs
\* the worker role, a rating lies in 1..5.
Admitted(r) ==
  /\ r.op \notin {"cancel", "rate"} => r.by \in Worker
  /\ r.op = "rate" => r.stars \in 1..5

FirstStep(op) == IF op \in {"accept", "rate"} THEN "write" ELSE "read"

Begin(t, r) ==
  /\ pc[t] = "idle"
  /\ Admitted(r)
  /\ pc' = [pc EXCEPT ![t] = FirstStep(r.op)]
  /\ req' = [req EXCEPT ![t] = r]
  /\ UNCHANGED <<row, audit, seen, failures>>

\* The answer, an error or the booking, leaves nothing behind in the server.
Answer(t) ==
  /\ pc' = [pc EXCEPT ![t] = "idle"]
  /\ req' = [req EXCEPT ![t] = NoRequest]
  /\ seen' = [seen EXCEPT ![t] = "none"]

-----------------------------------------------------------------------------
(* read *)

\* Operators whose name ends in a capitalised suffix, here and below, are
\* faulty variants of the definition that follows them.  No action uses them:
\* they stand in for it to show that the properties notice the fault.
HandshakeOk_NotCompared(given, expected) == expected # NoCode

\* A booking without a code can never be started.
HandshakeOk(given, expected) == expected # NoCode /\ given = expected

MayAdvance_AnyStatus(r, found) ==
  /\ found.worker = r.by
  /\ ActionNeedsOtp(r.op) => HandshakeOk(r.code, Otp[r.on])

MayAdvance_AnyWorker(r, found) ==
  /\ NextStatus(r.op, found.status) \in Status
  /\ ActionNeedsOtp(r.op) => HandshakeOk(r.code, Otp[r.on])

MayAdvance(r, found) ==
  /\ found.worker = r.by
  /\ NextStatus(r.op, found.status) \in Status
  /\ ActionNeedsOtp(r.op) => HandshakeOk(r.code, Otp[r.on])

MayCancel(r, found) ==
  /\ CustomerOf[r.on] = r.by
  /\ CanCancel(found.status)

MayWrite(r) == IF r.op = "cancel" THEN MayCancel(r, row[r.on])
                                  ELSE MayAdvance(r, row[r.on])

Read(t) ==
  /\ pc[t] = "read"
  /\ \/ /\ MayWrite(req[t])
        /\ pc' = [pc EXCEPT ![t] = "write"]
        /\ seen' = [seen EXCEPT ![t] = row[req[t].on].status]
        /\ UNCHANGED req
     \/ /\ ~MayWrite(req[t])
        /\ Answer(t)
  /\ UNCHANGED <<row, audit, failures>>

-----------------------------------------------------------------------------
(* write: the WHERE clauses, and what each UPDATE sets *)

Acceptable_AnyStatus(b, w) == row[b].worker = NoWorker /\ CustomerOf[b] # w

Acceptable_Taken(b, w) ==
  row[b].status \in {"pending", "accepted"} /\ CustomerOf[b] # w

Acceptable(b, w) ==
  /\ row[b].status = "pending"
  /\ row[b].worker = NoWorker
  /\ CustomerOf[b] # w

StillMine_AnyStatus(b, w, status) == row[b].worker = w

\* advance compares with the status it has read, not with a constant.
StillMine(b, w, status) == row[b].worker = w /\ row[b].status = status

StillCancellable_AnyStatus(b, c, status) == CustomerOf[b] = c

StillCancellable(b, c, status) == CustomerOf[b] = c /\ row[b].status = status

Ratable_Again(b, c) == CustomerOf[b] = c /\ row[b].status = "completed"

Ratable(b, c) ==
  /\ CustomerOf[b] = c
  /\ row[b].status = "completed"
  /\ row[b].rating = 0

Accepted_Unassigned(found, w) ==
  [found EXCEPT !.status = "accepted", !.stamps = @ \cup {"accepted_at"}]

Accepted(found, w) ==
  [found EXCEPT !.status = "accepted", !.worker = w,
                !.stamps = @ \cup {"accepted_at"}]

\* COALESCE keeps a timestamp that is already set.
Advanced(found, next) ==
  [found EXCEPT !.status = next,
                !.stamps = @ \cup (CASE next = "arrived"   -> {"arrived_at"}
                                     [] next = "completed" -> {"completed_at"}
                                     [] OTHER              -> {})]

Cancelled(found) ==
  [found EXCEPT !.status = "cancelled", !.stamps = @ \cup {"cancelled_at"}]

Rated(found, stars) == [found EXCEPT !.rating = stars]

\* One row affected: the statement commits and the handler reads it back.
Update(t, matches, new) ==
  \/ /\ matches
     /\ row' = [row EXCEPT ![req[t].on] = new]
     /\ pc' = [pc EXCEPT ![t] = "reread"]
     /\ UNCHANGED <<req, seen>>
  \/ /\ ~matches
     /\ Answer(t)
     /\ UNCHANGED row

WriteAccept(t) ==
  LET r == req[t] IN
  /\ pc[t] = "write"
  /\ r.op = "accept"
  /\ Update(t, Acceptable(r.on, r.by), Accepted(row[r.on], r.by))
  /\ UNCHANGED <<audit, failures>>

WriteAdvance(t) ==
  LET r == req[t] IN
  /\ pc[t] = "write"
  /\ r.op \in WorkerAction
  /\ Update(t, StillMine(r.on, r.by, seen[t]),
               Advanced(row[r.on], NextStatus(r.op, seen[t])))
  /\ UNCHANGED <<audit, failures>>

WriteCancel(t) ==
  LET r == req[t] IN
  /\ pc[t] = "write"
  /\ r.op = "cancel"
  /\ Update(t, StillCancellable(r.on, r.by, seen[t]), Cancelled(row[r.on]))
  /\ UNCHANGED <<audit, failures>>

WriteRate(t) ==
  LET r == req[t] IN
  /\ pc[t] = "write"
  /\ r.op = "rate"
  /\ Update(t, Ratable(r.on, r.by), Rated(row[r.on], r.stars))
  /\ UNCHANGED <<audit, failures>>

-----------------------------------------------------------------------------
(* reread and log *)

Reread_Stale(t) ==
  /\ pc[t] = "reread"
  /\ pc' = [pc EXCEPT ![t] = "log"]
  /\ UNCHANGED <<row, audit, req, seen, failures>>

Reread(t) ==
  /\ pc[t] = "reread"
  /\ seen' = [seen EXCEPT ![t] = row[req[t].on].status]
  /\ pc' = [pc EXCEPT ![t] = "log"]
  /\ UNCHANGED <<row, audit, req, failures>>

\* advance logs the status it has just read back, not the one it wrote.
Entry(t) ==
  [op |-> req[t].op, by |-> req[t].by,
   status |-> IF req[t].op \in WorkerAction THEN seen[t] ELSE "none"]

Log_NotRatings(t) ==
  /\ pc[t] = "log"
  /\ audit' = IF req[t].op = "rate"
              THEN audit
              ELSE [audit EXCEPT ![req[t].on] = Append(@, Entry(t))]
  /\ Answer(t)
  /\ UNCHANGED <<row, failures>>

Log(t) ==
  /\ pc[t] = "log"
  /\ audit' = [audit EXCEPT ![req[t].on] = Append(@, Entry(t))]
  /\ Answer(t)
  /\ UNCHANGED <<row, failures>>

\* A task is lost at any of its statements.  Whatever it committed stays.
Fail(t) ==
  /\ pc[t] # "idle"
  /\ failures < MaxFailures
  /\ failures' = failures + 1
  /\ Answer(t)
  /\ UNCHANGED <<row, audit>>

-----------------------------------------------------------------------------
Serve(t) ==
  \/ Read(t)
  \/ WriteAccept(t)
  \/ WriteAdvance(t)
  \/ WriteCancel(t)
  \/ WriteRate(t)
  \/ Reread(t)
  \/ Log(t)

Next ==
  \E t \in Task :
     \/ \E r \in Request : Begin(t, r)
     \/ Serve(t)
     \/ Fail(t)

Spec == Init /\ [][Next]_vars

-----------------------------------------------------------------------------
(* The lists the clients see *)

\* available, my_jobs and the two scopes of mine; paid jobs are what
\* worker_history lists and earnings adds up.
OpenFeed(w) == {b \in Booking : Acceptable(b, w)}
MyJobs(w)   == {b \in Booking : row[b].worker = w /\ row[b].status \notin Finished}
PaidJobs(w) == {b \in Booking : row[b].worker = w /\ row[b].status = "completed"}

-----------------------------------------------------------------------------
(* Type correctness *)

\* Every variable holds a value of its type; a busy task serves a request.
TypeOK ==
  /\ row \in [Booking -> Row]
  /\ audit \in [Booking -> Seq(AuditRow)]
  /\ pc \in [Task -> Step]
  /\ req \in [Task -> Request \cup {NoRequest}]
  /\ seen \in [Task -> Status \cup {"none"}]
  /\ failures \in 0..MaxFailures
  /\ \A t \in Task : pc[t] # "idle" => req[t] \in Request

-----------------------------------------------------------------------------
(* Safety *)

\* Operation `op` asked for by `u` has taken effect on booking b.
Happened(b, op, u) ==
  CASE op = "accept"        -> row[b].worker = u
    [] op \in WorkerAction  -> row[b].worker = u /\ row[b].status \in Since(op)
    [] op = "cancel"        -> CustomerOf[b] = u /\ row[b].status = "cancelled"
    [] op = "rate"          -> CustomerOf[b] = u /\ row[b].rating # 0
    [] OTHER                -> FALSE

\* Task t has committed its write and has not logged it yet.
Carries(t) == pc[t] \in {"reread", "log"}

\* The columns of a row agree however the handlers interleave: the timestamps
\* tell which statuses were passed, a worker is assigned exactly once the job
\* was accepted and is never the customer, only a completed job is rated.
\* (earnings filters on completed_at, the app's timeline on the others.)
RowsAgree ==
  \A b \in Booking :
    LET r == row[b] IN
    /\ "accepted_at" \in r.stamps <=> r.worker # NoWorker
    /\ "arrived_at" \in r.stamps <=> r.status \in AtOrAfter("arrived")
    /\ "completed_at" \in r.stamps <=> r.status = "completed"
    /\ "cancelled_at" \in r.stamps <=> r.status = "cancelled"
    /\ r.status = "pending" => r.worker = NoWorker
    /\ r.worker = NoWorker => r.status \in {"pending", "cancelled"}
    /\ r.worker # CustomerOf[b]
    /\ r.rating # 0 => r.status = "completed"

\* The audit trail tells the truth: every row in it, and every row a task is
\* about to write, is about an operation that took effect and was asked for
\* by the user it names, and no later operation undoes that.
AuditIsTrue ==
  /\ \A b \in Booking : \A i \in DOMAIN audit[b] :
       Happened(b, audit[b][i].op, audit[b][i].by)
  /\ \A t \in Task : Carries(t) => Happened(req[t].on, req[t].op, req[t].by)

\* No operation is logged twice, not even when the same request is sent twice
\* and both tasks race: at most one of them gets to write.
LoggedOnce ==
  /\ \A b \in Booking : \A i, j \in DOMAIN audit[b] :
       audit[b][i].op = audit[b][j].op => i = j
  /\ \A t \in Task : Carries(t) =>
       /\ \A i \in DOMAIN audit[req[t].on] : audit[req[t].on][i].op # req[t].op
       /\ \A s \in Task : Carries(s) /\ req[s].on = req[t].on
                            /\ req[s].op = req[t].op => s = t

\* The status logged beside a worker's action is one the action leads to,
\* though it may be a later one than the action wrote.
LoggedStatusFollows ==
  \A b \in Booking : \A i \in DOMAIN audit[b] :
    audit[b][i].op \in WorkerAction => audit[b][i].status \in Since(audit[b][i].op)

\* The operations on b that took effect and that no audit row tells of and
\* no running task is about to log.
Unlogged(b) ==
  {op \in Op :
     /\ \E u \in User : Happened(b, op, u)
     /\ \A i \in DOMAIN audit[b] : audit[b][i].op # op
     /\ \A t \in Task : Carries(t) /\ req[t].on = b => req[t].op # op}

\* An audit row goes missing only by a lost task, and each lost task loses at
\* most one row.
OneRowLostPerFailure ==
  Cardinality({lost \in Booking \X Op : lost[2] \in Unlogged(lost[1])}) <= failures

\* A task that has read the booking and is about to write acts on a row that
\* allowed the write when it was read: the right worker or customer, a legal
\* step from the status it has seen, and the customer's code for a start.
ReadBeforeWrite ==
  \A t \in Task : pc[t] = "write" =>
    LET r == req[t] IN
    /\ r.op \in WorkerAction =>
         /\ row[r.on].worker = r.by
         /\ NextStatus(r.op, seen[t]) \in Status
         /\ r.op = "start" => r.code = Otp[r.on] /\ r.code # NoCode
    /\ r.op = "cancel" => CustomerOf[r.on] = r.by /\ CanCancel(seen[t])

\* No job is invisible: an unfinished booking is either open to every worker
\* but its own customer, or on the list of exactly one worker.
NoOrphanJob ==
  \A b \in Booking : row[b].status \notin Finished =>
    \/ \A w \in Worker : b \in OpenFeed(w) <=> w # CustomerOf[b]
    \/ \E w \in Worker : \A v \in Worker : b \in MyJobs(v) <=> v = w

-----------------------------------------------------------------------------
(* Action properties *)

\* Work starts only by a request that carries the customer's arrival code, a
\* booking without a code never starts.
StartNeedsHandshake ==
  [][\A b \in Booking :
       row[b].status # "in_progress" /\ row'[b].status = "in_progress" =>
         /\ Otp[b] # NoCode
         /\ \E t \in Task : /\ pc[t] = "write"
                            /\ req[t].on = b
                            /\ req[t].by = row[b].worker
                            /\ req[t].code = Otp[b]]_vars

\* "booking changed, retry" is never a false alarm: when the write of advance
\* or cancel finds no row, the booking has left the status it was read in.
ConflictIsReal ==
  [][\A t \in Task :
       /\ pc[t] = "write" /\ pc'[t] = "idle" /\ failures' = failures
       /\ req[t].op \in WorkerAction \cup {"cancel"}
       => row[req[t].on].status \in AtOrAfter(seen[t]) \ {seen[t]}]_vars

\* What a worker has earned is never taken away: a paid job stays on the list
\* of the worker who did it, and on no other list.
PaidJobsStay ==
  [][\A w \in Worker :
       /\ PaidJobs(w) \subseteq PaidJobs(w)'
       /\ \A v \in Worker : v # w => PaidJobs(w)' \cap PaidJobs(v)' = {}]_vars

-----------------------------------------------------------------------------
(* Refinement *)

Lifecycle == INSTANCE BookingLifecycle
  WITH job <- [b \in Booking |-> [status |-> row[b].status,
                                  worker |-> row[b].worker,
                                  rating |-> row[b].rating]]

\* Seen from outside, the handlers do what the lifecycle promises: no status
\* is skipped or revisited, the first accept wins for good, a cancelled or
\* completed booking stays so and is rated at most once.
ImplementsLifecycle == Lifecycle!Spec

=============================================================================
