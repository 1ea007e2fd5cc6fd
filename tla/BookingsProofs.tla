---------------------------- MODULE BookingsProofs ----------------------------
(***************************************************************************)
(* What module Bookings guarantees for any number of bookings, users and   *)
(* concurrent tasks, and what its audit rows are worth however many of     *)
(* those tasks are lost.                                                   *)
(***************************************************************************)
EXTENDS Bookings, FiniteSetTheorems, TLAPS

(* Facts about the rules *)

\* A step of the rules leads to a proper status, and never into "pending",
\* "accepted" or "cancelled".
LEMMA NextStatusRange ==
  ASSUME NEW a, NEW s \in Status, NextStatus(a, s) \in Status
  PROVE  /\ a \in WorkerAction
         /\ s \in {"accepted", "en_route", "arrived", "in_progress"}
         /\ NextStatus(a, s) \in {"en_route", "arrived", "in_progress", "completed"}
  BY DEF NextStatus, Status, WorkerAction

LEMMA RequestFields ==
  ASSUME NEW r \in Request
  PROVE  /\ r.op \in Op /\ r.by \in User /\ r.on \in Booking
         /\ r.code \in Code \cup {NoCode} /\ r.stars \in Stars \cup {0}
  BY DEF Request

-----------------------------------------------------------------------------
(* Type correctness *)

\* What an inductive proof of TypeOK needs besides it: a request in hand was
\* admitted, a task that writes has read a status the write is legal from.
Prepared ==
  \A t \in Task :
    /\ pc[t] # "idle" => Admitted(req[t])
    /\ pc[t] = "write" =>
         /\ req[t].op # "other"
         /\ req[t].op \in WorkerAction =>
              /\ seen[t] \in Status
              /\ NextStatus(req[t].op, seen[t]) \in Status
    /\ pc[t] = "log" => seen[t] \in Status

LEMMA InitTyped == Init => TypeOK /\ Prepared
  <1> SUFFICES ASSUME Init PROVE TypeOK /\ Prepared
    OBVIOUS
  <1>1. NewRow \in Row
    BY DEF NewRow, Row, Status, Stamp
  <1>2. TypeOK
    BY <1>1, BoundAssumption DEF Init, TypeOK, Step
  <1>3. Prepared
    BY DEF Init, Prepared
  <1> QED BY <1>2, <1>3

LEMMA AnswerTyped ==
  ASSUME TypeOK, Prepared, NEW t \in Task, Answer(t)
  PROVE  /\ pc' \in [Task -> Step]
         /\ req' \in [Task -> Request \cup {NoRequest}]
         /\ seen' \in [Task -> Status \cup {"none"}]
         /\ \A s \in Task : pc'[s] # "idle" => req'[s] \in Request
         /\ \A s \in Task :
              /\ pc'[s] # "idle" => Admitted(req'[s])
              /\ pc'[s] = "write" =>
                   /\ req'[s].op # "other"
                   /\ req'[s].op \in WorkerAction =>
                        /\ seen'[s] \in Status
                        /\ NextStatus(req'[s].op, seen'[s]) \in Status
              /\ pc'[s] = "log" => seen'[s] \in Status
  BY DEF Answer, TypeOK, Prepared, Step

LEMMA UpdateTyped ==
  ASSUME TypeOK, Prepared, NEW t \in Task, pc[t] = "write",
         NEW m, NEW new \in Row, Update(t, m, new),
         UNCHANGED <<audit, failures>>
  PROVE  TypeOK' /\ Prepared'
  <1>0. req[t] \in Request
    BY DEF TypeOK
  <1>1. CASE row' = [row EXCEPT ![req[t].on] = new] /\ pc' = [pc EXCEPT ![t] = "reread"]
             /\ UNCHANGED <<req, seen>>
    <2>1. TypeOK'
      BY <1>0, <1>1 DEF TypeOK, Step
    <2>2. Prepared'
      BY <1>1 DEF TypeOK, Prepared, Step, Admitted
    <2> QED BY <2>1, <2>2
  <1>2. CASE Answer(t) /\ UNCHANGED row
    <2>1. TypeOK'
      BY <1>2, AnswerTyped DEF TypeOK
    <2>2. Prepared'
      BY <1>2, AnswerTyped DEF Prepared, Admitted
    <2> QED BY <2>1, <2>2
  <1> QED BY <1>1, <1>2 DEF Update

LEMMA NextTyped == TypeOK /\ Prepared /\ [Next]_vars => TypeOK' /\ Prepared'
  <1> SUFFICES ASSUME TypeOK, Prepared, [Next]_vars
               PROVE  TypeOK' /\ Prepared'
    OBVIOUS
  <1>1. ASSUME NEW t \in Task, NEW r \in Request, Begin(t, r)
        PROVE  TypeOK' /\ Prepared'
    <2>1. FirstStep(r.op) \in {"read", "write"} /\ (FirstStep(r.op) = "write" => r.op \in {"accept", "rate"})
      BY DEF FirstStep
    <2>2. TypeOK'
      BY <1>1, <2>1 DEF Begin, TypeOK, Step
    <2>3. Prepared'
      BY <1>1, <2>1 DEF Begin, TypeOK, Prepared, Step, Admitted, WorkerAction
    <2> QED BY <2>2, <2>3
  <1>2. ASSUME NEW t \in Task, Read(t)
        PROVE  TypeOK' /\ Prepared'
    <2>0. req[t] \in Request /\ req[t].on \in Booking /\ req[t].op \in Op
      BY <1>2, RequestFields DEF Read, TypeOK
    <2>1. CASE MayWrite(req[t]) /\ pc' = [pc EXCEPT ![t] = "write"]
               /\ seen' = [seen EXCEPT ![t] = row[req[t].on].status] /\ UNCHANGED req
      <3>0. row[req[t].on].status \in Status
        BY <2>0 DEF TypeOK, Row
      <3>1. TypeOK'
        BY <1>2, <2>0, <2>1, <3>0 DEF Read, TypeOK, Step
      <3>2. req[t].op = "cancel" \/ NextStatus(req[t].op, row[req[t].on].status) \in Status
        BY <2>1 DEF MayWrite, MayAdvance
      <3>3. req[t].op # "other"
        BY <3>0, <3>2, NextStatusRange DEF WorkerAction
      <3>4. Prepared'
        <4> SUFFICES ASSUME NEW s \in Task
                     PROVE  /\ pc'[s] # "idle" => Admitted(req'[s])
                            /\ pc'[s] = "write" =>
                                 /\ req'[s].op # "other"
                                 /\ req'[s].op \in WorkerAction =>
                                      /\ seen'[s] \in Status
                                      /\ NextStatus(req'[s].op, seen'[s]) \in Status
                            /\ pc'[s] = "log" => seen'[s] \in Status
          BY DEF Prepared, Admitted
        <4>1. req'[s] = req[s]
          BY <2>1
        <4>2. CASE s = t
          <5>1. pc'[s] = "write" /\ seen'[s] = row[req[t].on].status /\ pc[s] = "read"
            BY <1>2, <2>1, <4>2 DEF TypeOK, Read
          <5> QED BY <3>0, <3>2, <3>3, <4>1, <4>2, <5>1 DEF Prepared, WorkerAction
        <4>3. CASE s # t
          BY <2>1, <4>1, <4>3 DEF Prepared, TypeOK
        <4> QED BY <4>2, <4>3
      <3> QED BY <3>1, <3>4
    <2>2. CASE Answer(t)
      <3>1. TypeOK'
        BY <1>2, <2>2, AnswerTyped DEF TypeOK, Read
      <3>2. Prepared'
        BY <2>2, AnswerTyped DEF Prepared, Admitted
      <3> QED BY <3>1, <3>2
    <2> QED BY <1>2, <2>1, <2>2 DEF Read
  <1>3. ASSUME NEW t \in Task, WriteAccept(t)
        PROVE  TypeOK' /\ Prepared'
    <2>1. req[t] \in Request /\ pc[t] = "write" /\ req[t].op = "accept"
      BY <1>3 DEF WriteAccept, TypeOK
    <2>2. req[t].by \in Worker /\ row[req[t].on] \in Row
      BY <2>1, RequestFields DEF Prepared, Admitted, TypeOK
    <2>3. Accepted(row[req[t].on], req[t].by) \in Row
      BY <2>2 DEF Accepted, Row, Status, Stamp
    <2> QED BY <1>3, <2>1, <2>3, UpdateTyped DEF WriteAccept
  <1>4. ASSUME NEW t \in Task, WriteAdvance(t)
        PROVE  TypeOK' /\ Prepared'
    <2>1. req[t] \in Request /\ pc[t] = "write" /\ req[t].op \in WorkerAction
      BY <1>4 DEF WriteAdvance, TypeOK
    <2>2. NextStatus(req[t].op, seen[t]) \in Status /\ row[req[t].on] \in Row
      BY <2>1, RequestFields DEF Prepared, TypeOK
    <2>3. Advanced(row[req[t].on], NextStatus(req[t].op, seen[t])) \in Row
      BY <2>2 DEF Advanced, Row, Stamp
    <2> QED BY <1>4, <2>1, <2>3, UpdateTyped DEF WriteAdvance
  <1>5. ASSUME NEW t \in Task, WriteCancel(t)
        PROVE  TypeOK' /\ Prepared'
    <2>1. req[t] \in Request /\ pc[t] = "write"
      BY <1>5 DEF WriteCancel, TypeOK
    <2>0. row[req[t].on] \in Row
      BY <2>1, RequestFields DEF TypeOK
    <2>2. Cancelled(row[req[t].on]) \in Row
      BY <2>0 DEF Cancelled, Row, Status, Stamp
    <2> QED BY <1>5, <2>1, <2>2, UpdateTyped DEF WriteCancel
  <1>6. ASSUME NEW t \in Task, WriteRate(t)
        PROVE  TypeOK' /\ Prepared'
    <2>1. req[t] \in Request /\ pc[t] = "write" /\ req[t].op = "rate"
      BY <1>6 DEF WriteRate, TypeOK
    <2>2. req[t].stars \in 0..5
      BY <2>1 DEF Prepared, Admitted
    <2>3. Rated(row[req[t].on], req[t].stars) \in Row
      BY <2>1, <2>2, RequestFields DEF Rated, TypeOK, Row
    <2> QED BY <1>6, <2>1, <2>3, UpdateTyped DEF WriteRate
  <1>7. ASSUME NEW t \in Task, Reread(t)
        PROVE  TypeOK' /\ Prepared'
    <2>1. req[t] \in Request /\ row[req[t].on].status \in Status
      BY <1>7, RequestFields DEF Reread, TypeOK, Row
    <2>2. TypeOK'
      BY <1>7, <2>1 DEF Reread, TypeOK, Step
    <2>3. Prepared'
      BY <1>7, <2>1 DEF Reread, TypeOK, Prepared, Step, Admitted
    <2> QED BY <2>2, <2>3
  <1>8. ASSUME NEW t \in Task, Log(t)
        PROVE  TypeOK' /\ Prepared'
    <2>1. req[t] \in Request /\ seen[t] \in Status
      BY <1>8 DEF Log, TypeOK, Prepared
    <2>2. Entry(t) \in AuditRow
      BY <2>1, RequestFields DEF Entry, AuditRow
    <2>3. audit' \in [Booking -> Seq(AuditRow)]
      BY <1>8, <2>1, <2>2, RequestFields DEF Log, TypeOK
    <2>4. TypeOK'
      BY <1>8, <2>3, AnswerTyped DEF Log, TypeOK
    <2>5. Prepared'
      BY <1>8, AnswerTyped DEF Log, Prepared, Admitted
    <2> QED BY <2>4, <2>5
  <1>9. ASSUME NEW t \in Task, Fail(t)
        PROVE  TypeOK' /\ Prepared'
    <2>1. failures' \in 0..MaxFailures
      BY <1>9, BoundAssumption DEF Fail, TypeOK
    <2>2. TypeOK'
      BY <1>9, <2>1, AnswerTyped DEF Fail, TypeOK
    <2>3. Prepared'
      BY <1>9, AnswerTyped DEF Fail, Prepared, Admitted
    <2> QED BY <2>2, <2>3
  <1>10. CASE UNCHANGED vars
    BY <1>10 DEF vars, TypeOK, Prepared, Admitted
  <1> QED
    BY <1>1, <1>2, <1>3, <1>4, <1>5, <1>6, <1>7, <1>8, <1>9, <1>10 DEF Next, Serve

\* Every reachable state is well typed.
THEOREM Typed == Spec => []TypeOK
  BY InitTyped, NextTyped, PTL DEF Spec

-----------------------------------------------------------------------------
(* How a row may change *)

\* The UPDATE statements, seen from the row: `new` is what one of them makes
\* of the row of b, and its conditions hold of the row as it is now.
Takes(b, new) ==
  \E w \in Worker : Acceptable(b, w) /\ new = Accepted(row[b], w)

Moves(b, new) ==
  \E a \in WorkerAction :
     /\ row[b].worker \in Worker
     /\ NextStatus(a, row[b].status) \in Status
     /\ new = Advanced(row[b], NextStatus(a, row[b].status))

Withdraws(b, new) == CanCancel(row[b].status) /\ new = Cancelled(row[b])

Reviews(b, new) ==
  \E stars \in 1..5 :
     /\ row[b].status = "completed" /\ row[b].rating = 0
     /\ new = Rated(row[b], stars)

RowChange(b, new) ==
  /\ row' = [row EXCEPT ![b] = new]
  /\ Takes(b, new) \/ Moves(b, new) \/ Withdraws(b, new) \/ Reviews(b, new)

\* A step leaves all rows alone or changes one in one of the four ways.  The
\* status read earlier is the present one whenever the UPDATE matches.
LEMMA NextRows ==
  ASSUME TypeOK, Prepared, ReadBeforeWrite, [Next]_vars
  PROVE  UNCHANGED row \/ \E b \in Booking, new \in Row : RowChange(b, new)
  <1>1. ASSUME NEW t \in Task, WriteAccept(t)
        PROVE  UNCHANGED row \/ \E b \in Booking, new \in Row : RowChange(b, new)
    <2>1. req[t].by \in Worker /\ req[t].on \in Booking /\ row[req[t].on] \in Row
      BY <1>1, RequestFields DEF WriteAccept, TypeOK, Prepared, Admitted
    <2>2. Accepted(row[req[t].on], req[t].by) \in Row
      BY <2>1 DEF Accepted, Row, Status, Stamp
    <2> QED BY <1>1, <2>1, <2>2 DEF WriteAccept, Update, RowChange, Takes
  <1>2. ASSUME NEW t \in Task, WriteAdvance(t)
        PROVE  UNCHANGED row \/ \E b \in Booking, new \in Row : RowChange(b, new)
    <2>1. req[t].op \in WorkerAction /\ pc[t] = "write" /\ req[t] \in Request
      BY <1>2 DEF WriteAdvance, TypeOK
    <2>2. req[t].by \in Worker /\ req[t].on \in Booking /\ row[req[t].on] \in Row
      BY <2>1, RequestFields DEF TypeOK, Prepared, Admitted, WorkerAction
    <2>3. NextStatus(req[t].op, seen[t]) \in Status
      BY <2>1 DEF Prepared
    <2>4. Advanced(row[req[t].on], NextStatus(req[t].op, seen[t])) \in Row
      BY <2>2, <2>3 DEF Advanced, Row, Stamp
    <2>5. CASE StillMine(req[t].on, req[t].by, seen[t])
               /\ row' = [row EXCEPT ![req[t].on] = Advanced(row[req[t].on], NextStatus(req[t].op, seen[t]))]
      BY <2>1, <2>2, <2>3, <2>4, <2>5 DEF StillMine, RowChange, Moves
    <2> QED BY <1>2, <2>5 DEF WriteAdvance, Update
  <1>3. ASSUME NEW t \in Task, WriteCancel(t)
        PROVE  UNCHANGED row \/ \E b \in Booking, new \in Row : RowChange(b, new)
    <2>1. req[t].op = "cancel" /\ pc[t] = "write" /\ req[t] \in Request
      BY <1>3 DEF WriteCancel, TypeOK
    <2>2. req[t].on \in Booking /\ row[req[t].on] \in Row /\ CanCancel(seen[t])
      BY <2>1, RequestFields DEF TypeOK, ReadBeforeWrite
    <2>3. Cancelled(row[req[t].on]) \in Row
      BY <2>2 DEF Cancelled, Row, Status, Stamp
    <2> QED BY <1>3, <2>2, <2>3
            DEF WriteCancel, Update, StillCancellable, RowChange, Withdraws
  <1>4. ASSUME NEW t \in Task, WriteRate(t)
        PROVE  UNCHANGED row \/ \E b \in Booking, new \in Row : RowChange(b, new)
    <2>1. req[t].op = "rate" /\ pc[t] = "write" /\ req[t] \in Request
      BY <1>4 DEF WriteRate, TypeOK
    <2>2. req[t].on \in Booking /\ row[req[t].on] \in Row /\ req[t].stars \in 1..5
      BY <2>1, RequestFields DEF TypeOK, Prepared, Admitted
    <2>3. Rated(row[req[t].on], req[t].stars) \in Row
      BY <2>2 DEF Rated, Row
    <2> QED BY <1>4, <2>2, <2>3 DEF WriteRate, Update, Ratable, RowChange, Reviews
  <1>5. CASE UNCHANGED vars
    BY <1>5 DEF vars
  <1> QED
    BY <1>1, <1>2, <1>3, <1>4, <1>5 DEF Next, Serve, Begin, Read, Reread, Log, Fail

\* What each of the four ways makes of the columns.
LEMMA ChangedColumns ==
  ASSUME TypeOK, NEW b \in Booking, NEW new \in Row, RowChange(b, new)
  PROVE  /\ row'[b] = new
         /\ \A c \in Booking : c # b => row'[c] = row[c]
         /\ \/ /\ row[b].status = "pending" /\ row[b].worker = NoWorker
               /\ new.status = "accepted" /\ new.worker \in Worker
               /\ new.worker # CustomerOf[b] /\ new.rating = row[b].rating
               /\ new.stamps = row[b].stamps \cup {"accepted_at"}
            \/ /\ row[b].worker \in Worker
               /\ new.worker = row[b].worker /\ new.rating = row[b].rating
               /\ \/ /\ row[b].status = "accepted" /\ new.status = "en_route"
                     /\ new.stamps = row[b].stamps
                  \/ /\ row[b].status = "en_route" /\ new.status = "arrived"
                     /\ new.stamps = row[b].stamps \cup {"arrived_at"}
                  \/ /\ row[b].status = "arrived" /\ new.status = "in_progress"
                     /\ new.stamps = row[b].stamps
                  \/ /\ row[b].status = "in_progress" /\ new.status = "completed"
                     /\ new.stamps = row[b].stamps \cup {"completed_at"}
            \/ /\ row[b].status \in {"pending", "accepted"} /\ new.status = "cancelled"
               /\ new.worker = row[b].worker /\ new.rating = row[b].rating
               /\ new.stamps = row[b].stamps \cup {"cancelled_at"}
            \/ /\ row[b].status = "completed" /\ row[b].rating = 0
               /\ new.status = "completed" /\ new.rating \in 1..5
               /\ new.worker = row[b].worker /\ new.stamps = row[b].stamps
  <1>0. row[b] \in Row
    BY DEF TypeOK
  <1>1. row'[b] = new /\ \A c \in Booking : c # b => row'[c] = row[c]
    BY DEF RowChange, TypeOK
  <1>2. CASE Takes(b, new)
    BY <1>0, <1>1, <1>2 DEF Takes, Acceptable, Accepted, Row
  <1>3. CASE Moves(b, new)
    <2>1. PICK a \in WorkerAction :
            /\ row[b].worker \in Worker
            /\ NextStatus(a, row[b].status) \in Status
            /\ new = Advanced(row[b], NextStatus(a, row[b].status))
      BY <1>3 DEF Moves
    <2>2. \/ row[b].status = "accepted" /\ NextStatus(a, row[b].status) = "en_route"
          \/ row[b].status = "en_route" /\ NextStatus(a, row[b].status) = "arrived"
          \/ row[b].status = "arrived" /\ NextStatus(a, row[b].status) = "in_progress"
          \/ row[b].status = "in_progress" /\ NextStatus(a, row[b].status) = "completed"
      BY <1>0, <2>1 DEF NextStatus, WorkerAction, Status, Row
    <2>3. /\ new.status = NextStatus(a, row[b].status)
          /\ new.worker = row[b].worker /\ new.rating = row[b].rating
          /\ new.status = "arrived" => new.stamps = row[b].stamps \cup {"arrived_at"}
          /\ new.status = "completed" => new.stamps = row[b].stamps \cup {"completed_at"}
          /\ new.status \notin {"arrived", "completed"} => new.stamps = row[b].stamps
      BY <1>0, <2>1 DEF Advanced, Row
    <2> QED BY <1>1, <2>1, <2>2, <2>3
  <1>4. CASE Withdraws(b, new)
    BY <1>0, <1>1, <1>4 DEF Withdraws, CanCancel, Cancelled, Row
  <1>5. CASE Reviews(b, new)
    BY <1>0, <1>1, <1>5 DEF Reviews, Rated, Row
  <1> QED BY <1>2, <1>3, <1>4, <1>5 DEF RowChange

-----------------------------------------------------------------------------
(* Rows agree, and what was checked before a write still holds at the write *)

RowsInv == TypeOK /\ Prepared /\ RowsAgree /\ ReadBeforeWrite

LEMMA InitRows == Init => RowsAgree /\ ReadBeforeWrite
  <1> SUFFICES ASSUME Init PROVE RowsAgree /\ ReadBeforeWrite
    OBVIOUS
  <1>1. RowsAgree
    <2> SUFFICES ASSUME NEW b \in Booking
                 PROVE  /\ row[b] = NewRow /\ NoWorker # CustomerOf[b]
      BY DEF RowsAgree, NewRow, AtOrAfter
    <2> QED BY WorkerAssumption, RowAssumption DEF Init
  <1>2. ReadBeforeWrite
    BY DEF Init, ReadBeforeWrite
  <1> QED BY <1>1, <1>2

LEMMA NextRowsAgree == RowsInv /\ [Next]_vars => RowsAgree'
  <1> SUFFICES ASSUME RowsInv, [Next]_vars PROVE RowsAgree'
    OBVIOUS
  <1>1. CASE UNCHANGED row
    BY <1>1 DEF RowsInv, RowsAgree
  <1>2. ASSUME NEW b \in Booking, NEW new \in Row, RowChange(b, new)
        PROVE  RowsAgree'
    <2> SUFFICES ASSUME NEW c \in Booking
                 PROVE  /\ "accepted_at" \in row'[c].stamps <=> row'[c].worker # NoWorker
                        /\ "arrived_at" \in row'[c].stamps <=> row'[c].status \in AtOrAfter("arrived")
                        /\ "completed_at" \in row'[c].stamps <=> row'[c].status = "completed"
                        /\ "cancelled_at" \in row'[c].stamps <=> row'[c].status = "cancelled"
                        /\ row'[c].status = "pending" => row'[c].worker = NoWorker
                        /\ row'[c].worker = NoWorker => row'[c].status \in {"pending", "cancelled"}
                        /\ row'[c].worker # CustomerOf[c]
                        /\ row'[c].rating # 0 => row'[c].status = "completed"
      BY DEF RowsAgree
    <2>1. CASE c # b
      BY <1>2, <2>1, ChangedColumns DEF RowsInv, RowsAgree
    <2>2. CASE c = b
      BY <1>2, <2>2, ChangedColumns, WorkerAssumption DEF RowsInv, RowsAgree, AtOrAfter, TypeOK, Row
    <2> QED BY <2>1, <2>2
  <1> QED BY <1>1, <1>2, NextRows DEF RowsInv

\* The worker of a job never changes once there is one.
LEMMA WorkerStays ==
  ASSUME RowsInv, [Next]_vars, NEW b \in Booking, row[b].worker # NoWorker
  PROVE  row'[b].worker = row[b].worker
  BY NextRows, ChangedColumns DEF RowsInv

LEMMA NextReadBeforeWrite == RowsInv /\ [Next]_vars => ReadBeforeWrite'
  <1> SUFFICES ASSUME RowsInv, [Next]_vars, NEW s \in Task, pc'[s] = "write"
               PROVE  /\ req'[s].op \in WorkerAction =>
                           /\ row'[req'[s].on].worker = req'[s].by
                           /\ NextStatus(req'[s].op, seen'[s]) \in Status
                           /\ req'[s].op = "start" =>
                                req'[s].code = Otp[req'[s].on] /\ req'[s].code # NoCode
                      /\ req'[s].op = "cancel" =>
                           CustomerOf[req'[s].on] = req'[s].by /\ CanCancel(seen'[s])
    BY DEF ReadBeforeWrite
  <1>1. CASE pc[s] = "write" /\ req'[s] = req[s] /\ seen'[s] = seen[s]
    <2>1. req[s] \in Request /\ req[s].on \in Booking
      BY <1>1, RequestFields DEF RowsInv, TypeOK
    <2>2. req[s].op \in WorkerAction => req[s].by \in Worker
      BY <1>1 DEF RowsInv, Prepared, Admitted, WorkerAction
    <2>3. req[s].op \in WorkerAction => row'[req[s].on].worker = req[s].by
      BY <1>1, <2>1, <2>2, WorkerStays, WorkerAssumption DEF RowsInv, ReadBeforeWrite
    <2> QED BY <1>1, <2>3 DEF RowsInv, ReadBeforeWrite
  <1>2. ASSUME NEW r \in Request, Begin(s, r)
        PROVE  r.op \in {"accept", "rate"} /\ req'[s] = r
    BY <1>2 DEF Begin, FirstStep, RowsInv, TypeOK
  <1>3. ASSUME Read(s)
        PROVE  /\ req'[s] = req[s] /\ row' = row
               /\ seen'[s] = row[req[s].on].status
               /\ MayWrite(req[s])
    BY <1>3 DEF Read, Answer, RowsInv, TypeOK
  <1>4. CASE Read(s)
    <2>1. /\ req'[s] = req[s] /\ row' = row
          /\ seen'[s] = row[req[s].on].status
          /\ MayWrite(req[s])
      BY <1>3, <1>4
    <2> QED BY <2>1 DEF MayWrite, MayAdvance, MayCancel, HandshakeOk, ActionNeedsOtp, WorkerAction
  <1>5. ASSUME NEW r \in Request, Begin(s, r)
        PROVE  req'[s].op \notin WorkerAction /\ req'[s].op # "cancel"
    BY <1>2, <1>5 DEF WorkerAction
  <1>6. \/ pc[s] = "write" /\ req'[s] = req[s] /\ seen'[s] = seen[s]
        \/ \E r \in Request : Begin(s, r)
        \/ Read(s)
    <2>1. ASSUME NEW t \in Task, Serve(t) \/ Fail(t) \/ \E r \in Request : Begin(t, r), t # s
          PROVE  pc'[s] = pc[s] /\ req'[s] = req[s] /\ seen'[s] = seen[s]
      BY <2>1 DEF Serve, Fail, Begin, Read, WriteAccept, WriteAdvance, WriteCancel, WriteRate,
                  Update, Reread, Log, Answer, RowsInv, TypeOK
    <2>2. ASSUME Serve(s) \/ Fail(s), ~Read(s)
          PROVE  FALSE
      BY <2>2 DEF Serve, Fail, WriteAccept, WriteAdvance, WriteCancel, WriteRate,
                  Update, Reread, Log, Answer, RowsInv, TypeOK
    <2>3. CASE UNCHANGED vars
      BY <2>3 DEF vars
    <2> QED BY <2>1, <2>2, <2>3 DEF Next
  <1> QED BY <1>1, <1>4, <1>5, <1>6

LEMMA RowsInductive ==
  /\ Init => RowsInv
  /\ RowsInv /\ [Next]_vars => RowsInv'
  <1>1. Init => RowsInv
    BY InitTyped, InitRows DEF RowsInv
  <1>2. RowsInv /\ [Next]_vars => RowsInv'
    BY NextTyped, NextRowsAgree, NextReadBeforeWrite DEF RowsInv
  <1> QED BY <1>1, <1>2

\* The columns of every row agree in every reachable state.
THEOREM RowsAlwaysAgree == Spec => []RowsAgree
  <1>1. RowsInv => RowsAgree
    BY DEF RowsInv
  <1> QED BY <1>1, RowsInductive, PTL DEF Spec

\* What a handler checked on the row it read still licenses its UPDATE.
THEOREM CheckedBeforeWritten == Spec => []ReadBeforeWrite
  <1>1. RowsInv => ReadBeforeWrite
    BY DEF RowsInv
  <1> QED BY <1>1, RowsInductive, PTL DEF Spec

\* Every unfinished job is on offer to all other workers or on one worker's list.
THEOREM NoJobOrphaned == Spec => []NoOrphanJob
  <1>1. RowsInv => NoOrphanJob
    <2> SUFFICES ASSUME RowsInv, NEW b \in Booking, row[b].status \notin Finished
                 PROVE  \/ \A w \in Worker : b \in OpenFeed(w) <=> w # CustomerOf[b]
                        \/ \E w \in Worker : \A v \in Worker : b \in MyJobs(v) <=> v = w
      BY DEF NoOrphanJob
    <2>1. CASE row[b].worker = NoWorker
      BY <2>1 DEF RowsInv, RowsAgree, Finished, OpenFeed, Acceptable
    <2>2. CASE row[b].worker # NoWorker
      <3>1. row[b].worker \in Worker
        BY <2>2 DEF RowsInv, TypeOK, Row
      <3>2. \A v \in Worker : b \in MyJobs(v) <=> v = row[b].worker
        BY DEF MyJobs
      <3> QED BY <3>1, <3>2
    <2> QED BY <2>1, <2>2
  <1> QED BY <1>1, RowsInductive, PTL DEF Spec

-----------------------------------------------------------------------------
(* Action properties *)

\* A job starts only by a request that carries the customer's arrival code.
THEOREM HandshakeBeforeWork == Spec => StartNeedsHandshake
  <1> DEFINE Start(b) == row[b].status # "in_progress" /\ row'[b].status = "in_progress"
             Shaken(b) == /\ Otp[b] # NoCode
                          /\ \E t \in Task : /\ pc[t] = "write"
                                             /\ req[t].on = b
                                             /\ req[t].by = row[b].worker
                                             /\ req[t].code = Otp[b]
  <1>1. ASSUME RowsInv, [Next]_vars, NEW b \in Booking, Start(b)
        PROVE  Shaken(b)
    <2>1. PICK t \in Task : WriteAccept(t) \/ WriteAdvance(t) \/ WriteCancel(t) \/ WriteRate(t)
      BY <1>1 DEF Next, Serve, vars, Begin, Read, Reread, Log, Fail
    <2>2. pc[t] = "write" /\ req[t] \in Request /\ req[t].on \in Booking /\ row[b] \in Row
          /\ row[req[t].on] \in Row
      BY <1>1, <2>1, RequestFields DEF WriteAccept, WriteAdvance, WriteCancel, WriteRate, RowsInv, TypeOK
    <2>3. req[t].on = b
      BY <1>1, <2>1, <2>2 DEF WriteAccept, WriteAdvance, WriteCancel, WriteRate, Update, RowsInv, TypeOK
    <2>4. row'[b].status # "in_progress" \/ WriteAdvance(t)
      <3>1. Accepted(row[b], req[t].by).status = "accepted" /\ Cancelled(row[b]).status = "cancelled"
            /\ Rated(row[b], req[t].stars).status = row[b].status
        BY <2>2 DEF Accepted, Cancelled, Rated, Row
      <3>2. CASE WriteAccept(t)
        BY <1>1, <2>2, <2>3, <3>1, <3>2 DEF WriteAccept, Update, RowsInv, TypeOK
      <3>3. CASE WriteCancel(t)
        BY <1>1, <2>2, <2>3, <3>1, <3>3 DEF WriteCancel, Update, RowsInv, TypeOK
      <3>4. CASE WriteRate(t)
        BY <1>1, <2>2, <2>3, <3>1, <3>4 DEF WriteRate, Update, RowsInv, TypeOK
      <3> QED BY <2>1, <3>2, <3>3, <3>4
    <2>5. WriteAdvance(t)
      BY <1>1, <2>4
    <2>6. Advanced(row[b], NextStatus(req[t].op, seen[t])).status = NextStatus(req[t].op, seen[t])
      BY <2>2 DEF Advanced, Row
    <2>7. /\ StillMine(b, req[t].by, seen[t])
          /\ NextStatus(req[t].op, seen[t]) = "in_progress"
      BY <1>1, <2>2, <2>3, <2>5, <2>6 DEF WriteAdvance, Update, RowsInv, TypeOK
    <2>8. req[t].op = "start"
      BY <2>7 DEF NextStatus
    <2> QED
      BY <1>1, <2>2, <2>3, <2>7, <2>8 DEF RowsInv, ReadBeforeWrite, StillMine, WorkerAction
  <1>2. RowsInv /\ [Next]_vars => [\A b \in Booking : Start(b) => Shaken(b)]_vars
    BY <1>1
  <1> QED BY <1>2, RowsInductive, PTL DEF Spec, StartNeedsHandshake

\* A worker keeps every job that was paid, and nobody else is paid for it.
THEOREM PaidForGood == Spec => PaidJobsStay
  <1>1. ASSUME RowsInv, [Next]_vars, NEW w \in Worker
        PROVE  /\ PaidJobs(w) \subseteq PaidJobs(w)'
               /\ \A v \in Worker : v # w => PaidJobs(w)' \cap PaidJobs(v)' = {}
    <2>1. ASSUME NEW b \in Booking, row[b].worker = w, row[b].status = "completed"
          PROVE  row'[b].worker = w /\ row'[b].status = "completed"
      BY <1>1, <2>1, NextRows, ChangedColumns DEF RowsInv
    <2> QED BY <2>1 DEF PaidJobs
  <1>2. RowsInv /\ [Next]_vars =>
          [\A w \in Worker :
             /\ PaidJobs(w) \subseteq PaidJobs(w)'
             /\ \A v \in Worker : v # w => PaidJobs(w)' \cap PaidJobs(v)' = {}]_vars
    BY <1>1
  <1> QED BY <1>2, RowsInductive, PTL DEF Spec, PaidJobsStay

\* What the handlers have written to a booking is not taken back: it never
\* returns to a status it has left, the first worker to accept it stays, and so
\* do its timestamps and its rating.
NothingTakenBack ==
  [][\A b \in Booking :
       /\ row'[b].status \in AtOrAfter(row[b].status)
       /\ row[b].worker # NoWorker => row'[b].worker = row[b].worker
       /\ row[b].stamps \subseteq row'[b].stamps
       /\ row[b].rating # 0 => row'[b].rating = row[b].rating]_vars

\* Whoever races, each of the four UPDATEs only adds to a booking's history.
THEOREM RowsOnlyGrow == Spec => NothingTakenBack
  <1> DEFINE Grows(b) == /\ row'[b].status \in AtOrAfter(row[b].status)
                         /\ row[b].worker # NoWorker => row'[b].worker = row[b].worker
                         /\ row[b].stamps \subseteq row'[b].stamps
                         /\ row[b].rating # 0 => row'[b].rating = row[b].rating
  <1>1. ASSUME RowsInv, [Next]_vars, NEW b \in Booking
        PROVE  Grows(b)
    <2>1. row[b] \in Row
      BY <1>1 DEF RowsInv, TypeOK
    <2>2. CASE row'[b] = row[b]
      BY <2>1, <2>2 DEF AtOrAfter, Row, Status
    <2>3. ASSUME NEW new \in Row, RowChange(b, new)
          PROVE  Grows(b)
      BY <1>1, <2>1, <2>3, ChangedColumns DEF RowsInv, AtOrAfter, Row, Status
    <2>4. ASSUME NEW c \in Booking, NEW new \in Row, RowChange(c, new), c # b
          PROVE  row'[b] = row[b]
      BY <1>1, <2>4, ChangedColumns DEF RowsInv
    <2> QED BY <1>1, <2>2, <2>3, <2>4, NextRows DEF RowsInv
  <1>2. RowsInv /\ [Next]_vars => [\A b \in Booking : Grows(b)]_vars
    BY <1>1
  <1> QED BY <1>2, RowsInductive, PTL DEF Spec, NothingTakenBack

-----------------------------------------------------------------------------
(* Refinement *)

JobOf(r) == [status |-> r.status, worker |-> r.worker, rating |-> r.rating]
Jobs == [b \in Booking |-> JobOf(row[b])]

LEMMA LifecycleInit == Init => Lifecycle!Init
  BY DEF Init, Lifecycle!Init, NewRow

LEMMA LifecycleStep ==
  ASSUME RowsInv, NEW b \in Booking, NEW new \in Row, RowChange(b, new)
  PROVE  Lifecycle!Next
  <1>0. row[b] \in Row /\ row \in [Booking -> Row]
    BY DEF RowsInv, TypeOK
  <1>1. Jobs' = [Jobs EXCEPT ![b] = JobOf(new)]
    BY <1>0 DEF RowChange, Jobs, JobOf
  <1>2. Jobs[b] = JobOf(row[b])
    BY DEF Jobs
  <1>3. CASE Takes(b, new)
    <2>1. PICK w \in Worker : Acceptable(b, w) /\ new = Accepted(row[b], w)
      BY <1>3 DEF Takes
    <2>0. new.status = "accepted" /\ new.worker = w /\ new.rating = row[b].rating
      BY <1>0, <2>1 DEF Accepted, Row
    <2>2. JobOf(new) = [status |-> "accepted", worker |-> w, rating |-> row[b].rating]
      BY <2>0 DEF JobOf
    <2>3. Lifecycle!Take(b, w)
      BY <1>1, <1>2, <2>1, <2>2 DEF Lifecycle!Take, Acceptable, Jobs, JobOf
    <2> QED BY <2>3 DEF Lifecycle!Next
  <1>4. CASE Moves(b, new)
    <2>1. PICK a \in WorkerAction :
            /\ NextStatus(a, row[b].status) \in Status
            /\ new = Advanced(row[b], NextStatus(a, row[b].status))
      BY <1>4 DEF Moves
    <2>2. JobOf(new) = [JobOf(row[b]) EXCEPT !.status = NextStatus(a, row[b].status)]
      BY <1>0, <2>1 DEF JobOf, Advanced, Row
    <2>3. Lifecycle!Move(b, a)
      BY <1>1, <1>2, <2>1, <2>2 DEF Lifecycle!Move, Lifecycle!NextStatus, Lifecycle!Status,
         NextStatus, Status, Jobs, JobOf
    <2> QED BY <2>3 DEF Lifecycle!Next, Lifecycle!WorkerAction, WorkerAction
  <1>5. CASE Withdraws(b, new)
    <2>1. JobOf(new) = [JobOf(row[b]) EXCEPT !.status = "cancelled"]
      BY <1>0, <1>5 DEF Withdraws, JobOf, Cancelled, Row
    <2>2. Lifecycle!Withdraw(b)
      BY <1>1, <1>2, <1>5, <2>1 DEF Lifecycle!Withdraw, Lifecycle!CanCancel, CanCancel,
         Withdraws, Jobs, JobOf
    <2> QED BY <2>2 DEF Lifecycle!Next
  <1>6. CASE Reviews(b, new)
    <2>1. PICK stars \in 1..5 : /\ row[b].status = "completed" /\ row[b].rating = 0
                                /\ new = Rated(row[b], stars)
      BY <1>6 DEF Reviews
    <2>2. JobOf(new) = [JobOf(row[b]) EXCEPT !.rating = stars]
      BY <1>0, <2>1 DEF JobOf, Rated, Row
    <2>3. Lifecycle!Review(b, stars)
      BY <1>1, <1>2, <2>1, <2>2 DEF Lifecycle!Review, Jobs, JobOf
    <2> QED BY <2>3 DEF Lifecycle!Next
  <1> QED BY <1>3, <1>4, <1>5, <1>6 DEF RowChange

\* The concurrent handlers implement the booking lifecycle.
THEOREM Refinement == Spec => ImplementsLifecycle
  <1>1. RowsInv /\ [Next]_vars => [Lifecycle!Next]_Jobs
    BY NextRows, LifecycleStep DEF RowsInv, Jobs
  <1>2. QED
    BY <1>1, LifecycleInit, RowsInductive, PTL
       DEF Spec, ImplementsLifecycle, Lifecycle!Spec, Jobs, JobOf

-----------------------------------------------------------------------------
(* The audit rows: what they are worth, however many tasks are lost *)

\* A task about to log a worker's action holds a status the action leads to.
SeenFollows ==
  \A t \in Task :
    pc[t] = "log" /\ req[t].op \in WorkerAction => seen[t] \in Since(req[t].op)

AuditInv == RowsInv /\ AuditIsTrue /\ LoggedOnce /\ LoggedStatusFollows /\ SeenFollows

LEMMA InitAudit == Init => AuditInv
  <1> SUFFICES ASSUME Init PROVE AuditInv
    OBVIOUS
  <1>1. RowsInv
    BY RowsInductive
  <1>2. \A b \in Booking : DOMAIN audit[b] = {}
    BY DEF Init
  <1>3. \A t \in Task : pc[t] = "idle"
    BY DEF Init
  <1> QED
    BY <1>1, <1>2, <1>3
       DEF AuditInv, AuditIsTrue, LoggedOnce, LoggedStatusFollows, SeenFollows, Carries

-----------------------------------------------------------------------------
(* What has happened stays true *)

LEMMA HappenedStays ==
  ASSUME RowsInv, [Next]_vars, NEW b \in Booking, NEW op, NEW u \in User,
         Happened(b, op, u)
  PROVE  Happened(b, op, u)'
  <1>0. u # NoWorker
    BY WorkerAssumption
  <1>1. CASE UNCHANGED row
    BY <1>1 DEF Happened
  <1>2. ASSUME NEW c \in Booking, NEW new \in Row, RowChange(c, new)
        PROVE  Happened(b, op, u)'
    <2>1. CASE op = "accept"
      BY <1>0, <2>1, WorkerStays DEF Happened, WorkerAction
    <2>2. CASE op \in WorkerAction
      <3>1. row[b].worker = u /\ row[b].status \in Since(op) /\ row'[b].worker = u
        BY <1>0, <2>2, WorkerStays DEF Happened, WorkerAction
      <3>2. row'[b].status \in Since(op)
        BY <1>2, <2>2, <3>1, ChangedColumns DEF RowsInv, Since, AtOrAfter, WorkerAction
      <3> QED BY <2>2, <3>1, <3>2 DEF Happened, WorkerAction
    <2>3. CASE op = "cancel"
      BY <1>2, <2>3, ChangedColumns DEF RowsInv, Happened, WorkerAction
    <2>4. CASE op = "rate"
      BY <1>2, <2>4, ChangedColumns DEF RowsInv, Happened, WorkerAction
    <2> QED BY <2>1, <2>2, <2>3, <2>4 DEF Happened
  <1> QED BY <1>1, <1>2, NextRows DEF RowsInv

-----------------------------------------------------------------------------
(* A write that matches does something new *)

\* The UPDATE of task t has affected its row.
Wrote(t) ==
  /\ pc[t] = "write" /\ pc' = [pc EXCEPT ![t] = "reread"]
  /\ UNCHANGED <<req, seen, audit>>

LEMMA WroteTheRequest ==
  ASSUME RowsInv, NEW t \in Task, Wrote(t),
         WriteAccept(t) \/ WriteAdvance(t) \/ WriteCancel(t) \/ WriteRate(t)
  PROVE  /\ Happened(req[t].on, req[t].op, req[t].by)'
         /\ \A u \in User : ~Happened(req[t].on, req[t].op, u)
  <1>0. /\ req[t] \in Request /\ req[t].on \in Booking /\ req[t].by \in User
        /\ row[req[t].on] \in Row /\ pc'[t] = "reread" /\ row \in [Booking -> Row]
        /\ req'[t] = req[t]
    BY RequestFields DEF Wrote, RowsInv, TypeOK
  <1>1. CASE WriteAccept(t)
    <2>1. /\ req[t].op = "accept" /\ Acceptable(req[t].on, req[t].by)
          /\ row' = [row EXCEPT ![req[t].on] = Accepted(row[req[t].on], req[t].by)]
      BY <1>0, <1>1 DEF WriteAccept, Update, Answer, RowsInv, TypeOK
    <2>2. Accepted(row[req[t].on], req[t].by).worker = req[t].by
      BY <1>0 DEF Accepted, Row
    <2> QED BY <1>0, <2>1, <2>2, WorkerAssumption DEF Happened, Acceptable, WorkerAction
  <1>2. CASE WriteAdvance(t)
    <2>1. /\ req[t].op \in WorkerAction /\ StillMine(req[t].on, req[t].by, seen[t])
          /\ row' = [row EXCEPT ![req[t].on] =
                       Advanced(row[req[t].on], NextStatus(req[t].op, seen[t]))]
      BY <1>0, <1>2 DEF WriteAdvance, Update, Answer, RowsInv, TypeOK
    <2>2. LET new == Advanced(row[req[t].on], NextStatus(req[t].op, seen[t]))
          IN  new.worker = req[t].by /\ new.status = NextStatus(req[t].op, seen[t])
      BY <1>0, <2>1 DEF Advanced, Row, StillMine
    <2>3. /\ NextStatus(req[t].op, row[req[t].on].status) \in Status
          /\ seen[t] = row[req[t].on].status /\ row[req[t].on].status \in Status
      BY <1>0, <2>1 DEF StillMine, RowsInv, Prepared, Wrote, Row
    <2>4. /\ NextStatus(req[t].op, seen[t]) \in Since(req[t].op)
          /\ row[req[t].on].status \notin Since(req[t].op)
      BY <2>1, <2>3 DEF NextStatus, Status, WorkerAction, Since, AtOrAfter
    <2>5. /\ row'[req[t].on].worker = req[t].by
          /\ row'[req[t].on].status \in Since(req[t].op)
      BY <1>0, <2>1, <2>2, <2>4
    <2> QED BY <1>0, <2>1, <2>4, <2>5 DEF Happened, WorkerAction
  <1>3. CASE WriteCancel(t)
    <2>1. /\ req[t].op = "cancel" /\ StillCancellable(req[t].on, req[t].by, seen[t])
          /\ row' = [row EXCEPT ![req[t].on] = Cancelled(row[req[t].on])]
      BY <1>0, <1>3 DEF WriteCancel, Update, Answer, RowsInv, TypeOK
    <2>2. Cancelled(row[req[t].on]).status = "cancelled"
      BY <1>0 DEF Cancelled, Row
    <2>3. row[req[t].on].status # "cancelled"
      BY <2>1 DEF StillCancellable, RowsInv, ReadBeforeWrite, Wrote, CanCancel
    <2> QED BY <1>0, <2>1, <2>2, <2>3 DEF Happened, WorkerAction, StillCancellable
  <1>4. CASE WriteRate(t)
    <2>1. /\ req[t].op = "rate" /\ Ratable(req[t].on, req[t].by)
          /\ row' = [row EXCEPT ![req[t].on] = Rated(row[req[t].on], req[t].stars)]
      BY <1>0, <1>4 DEF WriteRate, Update, Answer, RowsInv, TypeOK
    <2>2. req[t].stars \in 1..5
      BY <2>1 DEF RowsInv, Prepared, Admitted, Wrote
    <2>3. Rated(row[req[t].on], req[t].stars).rating # 0
      BY <1>0, <2>2 DEF Rated, Row
    <2> QED BY <1>0, <2>1, <2>3 DEF Happened, WorkerAction, Ratable
  <1> QED BY <1>1, <1>2, <1>3, <1>4

-----------------------------------------------------------------------------
(* The steps, seen from the audit trail *)

Logged(t) ==
  /\ pc[t] = "log" /\ pc' = [pc EXCEPT ![t] = "idle"]
  /\ audit' = [audit EXCEPT ![req[t].on] = Append(audit[req[t].on], Entry(t))]
  /\ \A s \in Task \ {t} : req'[s] = req[s] /\ seen'[s] = seen[s]
  /\ UNCHANGED row

RereadIt(t) ==
  /\ pc[t] = "reread" /\ pc' = [pc EXCEPT ![t] = "log"]
  /\ seen' = [seen EXCEPT ![t] = row[req[t].on].status]
  /\ UNCHANGED <<row, audit, req>>

\* Neither the trail nor the carriers grow.
Quiet ==
  /\ UNCHANGED audit
  /\ \A s \in Task : Carries(s)' => /\ Carries(s) /\ pc'[s] = pc[s]
                                    /\ req'[s] = req[s] /\ seen'[s] = seen[s]

LEMMA AuditSteps ==
  ASSUME RowsInv, [Next]_vars
  PROVE  \/ Quiet
         \/ \E t \in Task : Logged(t) \/ RereadIt(t)
         \/ \E t \in Task : /\ Wrote(t)
                            /\ WriteAccept(t) \/ WriteAdvance(t) \/ WriteCancel(t) \/ WriteRate(t)
  <1> USE DEF RowsInv, TypeOK
  <1>1. ASSUME NEW t \in Task, Answer(t), UNCHANGED audit
        PROVE  Quiet
    BY <1>1 DEF Answer, Quiet, Carries
  <1>2. ASSUME NEW t \in Task, NEW r \in Request, Begin(t, r)
        PROVE  Quiet
    BY <1>2 DEF Begin, FirstStep, Quiet, Carries
  <1>3. ASSUME NEW t \in Task, Read(t)
        PROVE  Quiet
    <2>1. CASE pc' = [pc EXCEPT ![t] = "write"]
               /\ seen' = [seen EXCEPT ![t] = row[req[t].on].status] /\ UNCHANGED req
      BY <1>3, <2>1 DEF Read, Quiet, Carries
    <2> QED BY <1>1, <1>3, <2>1 DEF Read
  <1>4. ASSUME NEW t \in Task,
               WriteAccept(t) \/ WriteAdvance(t) \/ WriteCancel(t) \/ WriteRate(t)
        PROVE  Quiet \/ Wrote(t)
    BY <1>1, <1>4 DEF WriteAccept, WriteAdvance, WriteCancel, WriteRate, Update, Wrote
  <1>5. ASSUME NEW t \in Task, Fail(t)
        PROVE  Quiet
    BY <1>1, <1>5 DEF Fail
  <1>6. ASSUME NEW t \in Task, Reread(t)
        PROVE  RereadIt(t)
    BY <1>6 DEF Reread, RereadIt
  <1>7. ASSUME NEW t \in Task, Log(t)
        PROVE  Logged(t)
    BY <1>7 DEF Log, Logged, Answer
  <1>8. CASE UNCHANGED vars
    BY <1>8 DEF vars, Quiet, Carries
  <1> QED
    BY <1>2, <1>3, <1>4, <1>5, <1>6, <1>7, <1>8 DEF Next, Serve

-----------------------------------------------------------------------------
(* The invariant is inductive *)

LEMMA AuditRowTyped ==
  ASSUME RowsInv, NEW b \in Booking, NEW i \in DOMAIN audit[b]
  PROVE  audit[b][i] \in AuditRow /\ audit[b][i].by \in User
  <1>1. audit[b] \in Seq(AuditRow)
    BY DEF RowsInv, TypeOK
  <1>2. i \in 1..Len(audit[b])
    BY <1>1
  <1>3. audit[b][i] \in AuditRow
    BY <1>1, <1>2
  <1> QED BY <1>3 DEF AuditRow

\* A row of the trail is an old one, or the one a logging task appends.
LEMMA LoggedRows ==
  ASSUME RowsInv, NEW t \in Task, Logged(t), NEW b \in Booking, NEW i \in DOMAIN audit'[b]
  PROVE  /\ req[t].on \in Booking
         /\ \/ i \in DOMAIN audit[b] /\ audit'[b][i] = audit[b][i]
            \/ /\ b = req[t].on /\ i = Len(audit[b]) + 1 /\ audit'[b][i] = Entry(t)
               /\ i \notin DOMAIN audit[b]
  <1>1. req[t].on \in Booking /\ audit[b] \in Seq(AuditRow)
    BY RequestFields DEF Logged, RowsInv, TypeOK
  <1>2. CASE b # req[t].on
    BY <1>1, <1>2 DEF Logged, RowsInv, TypeOK
  <1>3. CASE b = req[t].on
    <2>1. audit'[b] = Append(audit[b], Entry(t))
      BY <1>1, <1>3 DEF Logged, RowsInv, TypeOK
    <2> QED BY <1>1, <1>3, <2>1
  <1> QED BY <1>2, <1>3, <1>1

LEMMA NextAuditIsTrue == AuditInv /\ [Next]_vars => AuditIsTrue'
  <1> SUFFICES ASSUME AuditInv, [Next]_vars PROVE AuditIsTrue'
    OBVIOUS
  <1>0. RowsInv /\ AuditIsTrue
    BY DEF AuditInv
  <1>a. \A t \in Task : Carries(t) => req[t].on \in Booking /\ req[t].by \in User
    BY <1>0, RequestFields DEF RowsInv, TypeOK, Carries
  <1>b. \A b \in Booking : \A i \in DOMAIN audit[b] : audit[b][i].by \in User
    BY <1>0, AuditRowTyped
  <1>c. \A b \in Booking : \A i \in DOMAIN audit[b] :
          Happened(b, audit[b][i].op, audit[b][i].by)
    BY <1>0 DEF AuditIsTrue
  <1>d. \A t \in Task : Carries(t) => Happened(req[t].on, req[t].op, req[t].by)
    BY <1>0 DEF AuditIsTrue
  <1>e. ASSUME NEW b \in Booking, NEW op, NEW u \in User, Happened(b, op, u)
        PROVE  Happened(b, op, u)'
    BY <1>0, <1>e, HappenedStays
  <1>1. CASE Quiet
    <2>1. ASSUME NEW b \in Booking, NEW i \in DOMAIN audit'[b]
          PROVE  Happened(b, audit[b][i].op, audit[b][i].by)'
      BY <1>1, <1>b, <1>c, <1>e, <2>1 DEF Quiet, Happened
    <2>2. ASSUME NEW t \in Task, Carries(t)'
          PROVE  Happened(req[t].on, req[t].op, req[t].by)'
      BY <1>1, <1>a, <1>d, <1>e, <2>2 DEF Quiet, Happened
    <2> QED BY <2>1, <2>2 DEF AuditIsTrue
  <1>2. ASSUME NEW t \in Task, Logged(t)
        PROVE  AuditIsTrue'
    <2>0. Carries(t)
      BY <1>2 DEF Logged, Carries
    <2>1. ASSUME NEW b \in Booking, NEW i \in DOMAIN audit'[b]
          PROVE  Happened(b, audit[b][i].op, audit[b][i].by)'
      <3>1. CASE i \in DOMAIN audit[b] /\ audit'[b][i] = audit[b][i]
        <4>1. \A o, u : o = audit[b][i].op /\ u = audit[b][i].by =>
                Happened(b, o, u) /\ u \in User
          BY <1>b, <1>c, <3>1
        <4>2. \A o, u : o = audit[b][i].op /\ u = audit[b][i].by => Happened(b, o, u)'
          BY <1>e, <4>1
        <4> QED BY <3>1, <4>2 DEF Happened
      <3>2. CASE b = req[t].on /\ audit'[b][i] = Entry(t)
        BY <1>a, <1>d, <1>e, <2>0, <3>2 DEF Happened, Entry
      <3> QED BY <1>0, <1>2, <2>1, <3>1, <3>2, LoggedRows
    <2>2. ASSUME NEW s \in Task, Carries(s)'
          PROVE  Happened(req[s].on, req[s].op, req[s].by)'
      <3>1. s # t /\ Carries(s) /\ req'[s] = req[s]
        BY <1>0, <1>2, <2>2 DEF Logged, Carries, RowsInv, TypeOK
      <3> QED BY <1>a, <1>d, <1>e, <3>1 DEF Happened
    <2> QED BY <2>1, <2>2 DEF AuditIsTrue
  <1>3. ASSUME NEW t \in Task, RereadIt(t)
        PROVE  AuditIsTrue'
    <2>1. ASSUME NEW b \in Booking, NEW i \in DOMAIN audit'[b]
          PROVE  Happened(b, audit[b][i].op, audit[b][i].by)'
      BY <1>3, <1>b, <1>c, <1>e, <2>1 DEF RereadIt, Happened
    <2>2. ASSUME NEW s \in Task, Carries(s)'
          PROVE  Happened(req[s].on, req[s].op, req[s].by)'
      <3>1. Carries(s) /\ req'[s] = req[s]
        BY <1>0, <1>3, <2>2 DEF RereadIt, Carries, RowsInv, TypeOK
      <3> QED BY <1>a, <1>d, <1>e, <3>1 DEF Happened
    <2> QED BY <2>1, <2>2 DEF AuditIsTrue
  <1>4. ASSUME NEW t \in Task, Wrote(t),
               WriteAccept(t) \/ WriteAdvance(t) \/ WriteCancel(t) \/ WriteRate(t)
        PROVE  AuditIsTrue'
    <2>1. ASSUME NEW b \in Booking, NEW i \in DOMAIN audit'[b]
          PROVE  Happened(b, audit[b][i].op, audit[b][i].by)'
      BY <1>4, <1>b, <1>c, <1>e, <2>1 DEF Wrote, Happened
    <2>2. ASSUME NEW s \in Task, Carries(s)'
          PROVE  Happened(req[s].on, req[s].op, req[s].by)'
      <3>1. CASE s = t
        BY <1>0, <1>4, <3>1, WroteTheRequest
      <3>2. CASE s # t
        <4>1. Carries(s) /\ req'[s] = req[s]
          BY <1>0, <1>4, <2>2, <3>2 DEF Wrote, Carries, RowsInv, TypeOK
        <4> QED BY <1>a, <1>d, <1>e, <4>1 DEF Happened
      <3> QED BY <3>1, <3>2
    <2> QED BY <2>1, <2>2 DEF AuditIsTrue
  <1> QED BY <1>0, <1>1, <1>2, <1>3, <1>4, AuditSteps

LEMMA NextLoggedOnce == AuditInv /\ [Next]_vars => LoggedOnce'
  <1> SUFFICES ASSUME AuditInv, [Next]_vars PROVE LoggedOnce'
    OBVIOUS
  <1>0. RowsInv /\ AuditIsTrue /\ LoggedOnce
    BY DEF AuditInv
  <1>a. \A b \in Booking : \A i, j \in DOMAIN audit[b] :
          audit[b][i].op = audit[b][j].op => i = j
    BY <1>0 DEF LoggedOnce
  <1>b. \A t \in Task : Carries(t) =>
          /\ \A i \in DOMAIN audit[req[t].on] : audit[req[t].on][i].op # req[t].op
          /\ \A s \in Task : Carries(s) /\ req[s].on = req[t].on
                               /\ req[s].op = req[t].op => s = t
    BY <1>0 DEF LoggedOnce
  <1>c. \A t \in Task : Carries(t) => req[t].on \in Booking /\ req[t].by \in User
    BY <1>0, RequestFields DEF RowsInv, TypeOK, Carries
  <1>1. CASE Quiet
    BY <1>1, <1>a, <1>b DEF Quiet, LoggedOnce, Carries
  <1>2. ASSUME NEW t \in Task, RereadIt(t)
        PROVE  LoggedOnce'
    <2>1. \A s \in Task : Carries(s)' => Carries(s)
      BY <1>0, <1>2 DEF RereadIt, Carries, RowsInv, TypeOK
    <2> QED BY <1>2, <1>a, <1>b, <2>1 DEF RereadIt, LoggedOnce, Carries
  <1>3. ASSUME NEW t \in Task, Logged(t)
        PROVE  LoggedOnce'
    <2>0. /\ Carries(t) /\ ~Carries(t)'
          /\ \A s \in Task : Carries(s)' => s # t /\ Carries(s) /\ req'[s] = req[s]
      BY <1>0, <1>3 DEF Logged, Carries, RowsInv, TypeOK
    <2>1. ASSUME NEW b \in Booking, NEW i \in DOMAIN audit'[b]
          PROVE  \/ i \in DOMAIN audit[b] /\ audit'[b][i] = audit[b][i]
                 \/ /\ b = req[t].on /\ i = Len(audit[b]) + 1
                    /\ audit'[b][i].op = req[t].op
      <3>1. Entry(t).op = req[t].op
        BY DEF Entry
      <3> QED BY <1>0, <1>3, <2>1, <3>1, LoggedRows
    <2>2. \A b \in Booking : \A i, j \in DOMAIN audit'[b] :
            audit'[b][i].op = audit'[b][j].op => i = j
      BY <1>a, <1>b, <2>0, <2>1
    <2>3. ASSUME NEW s \in Task, Carries(s)'
          PROVE  /\ \A i \in DOMAIN audit'[req'[s].on] :
                      audit'[req'[s].on][i].op # req'[s].op
                 /\ \A r \in Task : Carries(r)' /\ req'[r].on = req'[s].on
                                      /\ req'[r].op = req'[s].op => r = s
      <3>1. s # t /\ Carries(s) /\ req'[s] = req[s] /\ req[s].on \in Booking
        BY <1>c, <2>0, <2>3
      <3>2. \A i \in DOMAIN audit'[req[s].on] : audit'[req[s].on][i].op # req[s].op
        BY <1>b, <2>0, <2>1, <3>1
      <3>3. \A r \in Task : Carries(r)' /\ req'[r].on = req'[s].on
                              /\ req'[r].op = req'[s].op => r = s
        BY <1>b, <2>0, <3>1
      <3> QED BY <3>1, <3>2, <3>3
    <2> QED BY <2>2, <2>3 DEF LoggedOnce, Carries
  <1>4. ASSUME NEW t \in Task, Wrote(t),
               WriteAccept(t) \/ WriteAdvance(t) \/ WriteCancel(t) \/ WriteRate(t)
        PROVE  LoggedOnce'
    <2>1. \A u \in User : ~Happened(req[t].on, req[t].op, u)
      BY <1>0, <1>4, WroteTheRequest
    <2>2. req[t].on \in Booking
      BY <1>0, <1>4, RequestFields DEF Wrote, RowsInv, TypeOK
    <2>3. \A i \in DOMAIN audit[req[t].on] : audit[req[t].on][i].op # req[t].op
      <3>1. \A i \in DOMAIN audit[req[t].on] : audit[req[t].on][i].by \in User
        BY <1>0, <2>2, AuditRowTyped
      <3> QED BY <1>0, <2>1, <2>2, <3>1 DEF AuditIsTrue
    <2>4. \A s \in Task : Carries(s) => req[s].on # req[t].on \/ req[s].op # req[t].op
      BY <1>0, <1>c, <2>1 DEF AuditIsTrue
    <2>5. /\ audit' = audit /\ req' = req
          /\ \A s \in Task : Carries(s)' => s = t \/ Carries(s)
      BY <1>0, <1>4 DEF Wrote, Carries, RowsInv, TypeOK
    <2>6. ASSUME NEW s \in Task, Carries(s)'
          PROVE  /\ \A i \in DOMAIN audit[req[s].on] : audit[req[s].on][i].op # req[s].op
                 /\ \A r \in Task : Carries(r)' /\ req[r].on = req[s].on
                                      /\ req[r].op = req[s].op => r = s
      BY <1>b, <2>3, <2>4, <2>5, <2>6
    <2> QED BY <1>a, <2>5, <2>6 DEF LoggedOnce, Carries
  <1> QED BY <1>0, <1>1, <1>2, <1>3, <1>4, AuditSteps

LEMMA NextStatusFollows == AuditInv /\ [Next]_vars => LoggedStatusFollows' /\ SeenFollows'
  <1> SUFFICES ASSUME AuditInv, [Next]_vars PROVE LoggedStatusFollows' /\ SeenFollows'
    OBVIOUS
  <1>0. RowsInv /\ AuditIsTrue /\ LoggedStatusFollows /\ SeenFollows
    BY DEF AuditInv
  <1>1. CASE Quiet
    BY <1>0, <1>1 DEF Quiet, LoggedStatusFollows, SeenFollows, Carries
  <1>2. ASSUME NEW t \in Task, Wrote(t)
        PROVE  LoggedStatusFollows' /\ SeenFollows'
    BY <1>0, <1>2 DEF Wrote, LoggedStatusFollows, SeenFollows, RowsInv, TypeOK
  <1>3. ASSUME NEW t \in Task, RereadIt(t)
        PROVE  LoggedStatusFollows' /\ SeenFollows'
    <2>1. req[t].op \in WorkerAction => row[req[t].on].status \in Since(req[t].op)
      BY <1>0, <1>3 DEF RereadIt, AuditIsTrue, Carries, Happened, WorkerAction
    <2>2. SeenFollows'
      BY <1>0, <1>3, <2>1 DEF RereadIt, SeenFollows, RowsInv, TypeOK
    <2> QED BY <1>0, <1>3, <2>2 DEF RereadIt, LoggedStatusFollows
  <1>4. ASSUME NEW t \in Task, Logged(t)
        PROVE  LoggedStatusFollows' /\ SeenFollows'
    <2>1. Entry(t).op \in WorkerAction => Entry(t).status \in Since(Entry(t).op)
      BY <1>0, <1>4 DEF Entry, SeenFollows, Logged
    <2>2. LoggedStatusFollows'
      <3> SUFFICES ASSUME NEW b \in Booking, NEW i \in DOMAIN audit'[b],
                          audit'[b][i].op \in WorkerAction
                   PROVE  audit'[b][i].status \in Since(audit'[b][i].op)
        BY DEF LoggedStatusFollows
      <3>1. (i \in DOMAIN audit[b] /\ audit'[b][i] = audit[b][i]) \/ audit'[b][i] = Entry(t)
        BY <1>0, <1>4, LoggedRows
      <3> QED BY <1>0, <2>1, <3>1 DEF LoggedStatusFollows
    <2>3. SeenFollows'
      BY <1>0, <1>4 DEF Logged, SeenFollows, RowsInv, TypeOK
    <2> QED BY <2>2, <2>3
  <1> QED BY <1>0, <1>1, <1>2, <1>3, <1>4, AuditSteps

LEMMA AuditInductive ==
  /\ Init => AuditInv
  /\ AuditInv /\ [Next]_vars => AuditInv'
  <1>1. AuditInv /\ [Next]_vars => AuditInv'
    BY RowsInductive, NextAuditIsTrue, NextLoggedOnce, NextStatusFollows DEF AuditInv
  <1> QED BY <1>1, InitAudit

\* Every audit row is about an operation that took effect, whatever was lost.
THEOREM AuditTellsTheTruth == Spec => []AuditIsTrue
  <1>1. AuditInv => AuditIsTrue
    BY DEF AuditInv
  <1> QED BY <1>1, AuditInductive, PTL DEF Spec

\* No operation is logged twice, however many identical requests race.
THEOREM NothingLoggedTwice == Spec => []LoggedOnce
  <1>1. AuditInv => LoggedOnce
    BY DEF AuditInv
  <1> QED BY <1>1, AuditInductive, PTL DEF Spec

\* The status beside a worker's action in the trail is one it leads to.
THEOREM LoggedStatusIsLegal == Spec => []LoggedStatusFollows
  <1>1. AuditInv => LoggedStatusFollows
    BY DEF AuditInv
  <1> QED BY <1>1, AuditInductive, PTL DEF Spec

-----------------------------------------------------------------------------
(* A refused write *)

\* The booking a task is about to write has only moved on since it was read.
MovedOn ==
  \A t \in Task : pc[t] = "write" /\ req[t].op \in WorkerAction \cup {"cancel"} =>
    row[req[t].on].status \in AtOrAfter(seen[t])

LEMMA StatusMovesOn ==
  ASSUME RowsInv, [Next]_vars, NEW b \in Booking, NEW s, row[b].status \in AtOrAfter(s)
  PROVE  row'[b].status \in AtOrAfter(s)
<1>1. CASE UNCHANGED row
  BY <1>1
<1>2. ASSUME NEW c \in Booking, NEW new \in Row, RowChange(c, new)
      PROVE  row'[b].status \in AtOrAfter(s)
  <2>1. CASE c = b
    BY <1>2, <2>1, ChangedColumns DEF RowsInv, AtOrAfter, Status
  <2>2. CASE c # b
    BY <1>2, <2>2, ChangedColumns DEF RowsInv
  <2> QED BY <2>1, <2>2
<1> QED BY <1>1, <1>2, NextRows DEF RowsInv

\* A task is about to write because it was before, because it serves a request
\* without a read, or because it has just read.
LEMMA WhoWrites ==
  ASSUME RowsInv, [Next]_vars, NEW s \in Task, pc'[s] = "write"
  PROVE  \/ pc[s] = "write" /\ req'[s] = req[s] /\ seen'[s] = seen[s]
         \/ req'[s].op \in {"accept", "rate"}
         \/ /\ pc[s] = "read" /\ req'[s] = req[s] /\ row' = row
            /\ seen'[s] = row[req[s].on].status
<1>1. ASSUME NEW t \in Task, t # s, Serve(t) \/ Fail(t) \/ \E r \in Request : Begin(t, r)
      PROVE  pc'[s] = pc[s] /\ req'[s] = req[s] /\ seen'[s] = seen[s]
  BY <1>1 DEF Serve, Fail, Begin, Read, WriteAccept, WriteAdvance, WriteCancel, WriteRate,
              Update, Reread, Log, Answer, RowsInv, TypeOK
<1>2. ASSUME NEW r \in Request, Begin(s, r)
      PROVE  req'[s].op \in {"accept", "rate"}
  BY <1>2 DEF Begin, FirstStep, RowsInv, TypeOK
<1>3. ASSUME Read(s)
      PROVE  /\ pc[s] = "read" /\ req'[s] = req[s] /\ row' = row
             /\ seen'[s] = row[req[s].on].status
  BY <1>3 DEF Read, Answer, RowsInv, TypeOK
<1>4. ASSUME Serve(s) \/ Fail(s), ~Read(s)
      PROVE  FALSE
  BY <1>4 DEF Serve, Fail, WriteAccept, WriteAdvance, WriteCancel, WriteRate,
              Update, Reread, Log, Answer, RowsInv, TypeOK
<1>5. CASE UNCHANGED vars
  BY <1>5 DEF vars
<1> QED BY <1>1, <1>2, <1>3, <1>4, <1>5 DEF Next

LEMMA MovedOnNext == RowsInv /\ MovedOn /\ [Next]_vars => MovedOn'
<1> SUFFICES ASSUME RowsInv, MovedOn, [Next]_vars, NEW t \in Task, pc'[t] = "write",
                    req'[t].op \in WorkerAction \cup {"cancel"}
             PROVE  row'[req'[t].on].status \in AtOrAfter(seen'[t])
  BY DEF MovedOn
<1>1. CASE pc[t] = "write" /\ req'[t] = req[t] /\ seen'[t] = seen[t]
  <2>1. req[t].on \in Booking
    BY <1>1, RequestFields DEF RowsInv, TypeOK
  <2>2. row[req[t].on].status \in AtOrAfter(seen[t])
    BY <1>1 DEF MovedOn
  <2> QED BY <1>1, <2>1, <2>2, StatusMovesOn
<1>2. CASE /\ pc[t] = "read" /\ req'[t] = req[t] /\ row' = row
           /\ seen'[t] = row[req[t].on].status
  <2>1. row[req[t].on].status \in Status
    BY <1>2, RequestFields DEF RowsInv, TypeOK, Row
  <2> QED BY <1>2, <2>1 DEF AtOrAfter, Status
<1>3. req'[t].op \notin {"accept", "rate"}
  BY DEF WorkerAction
<1> QED BY <1>1, <1>2, <1>3, WhoWrites

\* "booking changed, retry" is answered only if the booking has changed: advance
\* and cancel find no row only when the status they read is past.
THEOREM RetryIsNeeded == Spec => ConflictIsReal
<1> DEFINE Refused(t) == /\ pc[t] = "write" /\ pc'[t] = "idle" /\ failures' = failures
                         /\ req[t].op \in WorkerAction \cup {"cancel"}
           Past(t) == row[req[t].on].status \in AtOrAfter(seen[t]) \ {seen[t]}
<1>1. ASSUME RowsInv, MovedOn, [Next]_vars, NEW t \in Task, Refused(t)
      PROVE  Past(t)
  <2>1. WriteAdvance(t) \/ WriteCancel(t)
    <3>1. ASSUME NEW u \in Task, u # t, Serve(u) \/ Fail(u) \/ \E r \in Request : Begin(u, r)
          PROVE  pc'[t] = pc[t]
      BY <1>1, <3>1 DEF Serve, Fail, Begin, Read, WriteAccept, WriteAdvance, WriteCancel,
           WriteRate, Update, Reread, Log, Answer, RowsInv, TypeOK
    <3>2. ~Fail(t) /\ ~(\E r \in Request : Begin(t, r)) /\ ~Read(t) /\ ~Reread(t) /\ ~Log(t)
      BY <1>1 DEF Fail, Begin, Read, Reread, Log, RowsInv, TypeOK
    <3>3. ~WriteAccept(t) /\ ~WriteRate(t)
      BY <1>1 DEF WriteAccept, WriteRate, WorkerAction
    <3> QED BY <1>1, <3>1, <3>2, <3>3 DEF Next, Serve, vars
  <2>2. \/ req[t].op \in WorkerAction /\ ~StillMine(req[t].on, req[t].by, seen[t])
        \/ req[t].op = "cancel" /\ ~StillCancellable(req[t].on, req[t].by, seen[t])
    BY <1>1, <2>1 DEF WriteAdvance, WriteCancel, Update, RowsInv, TypeOK
  <2>3. row[req[t].on].status # seen[t]
    BY <1>1, <2>2 DEF RowsInv, ReadBeforeWrite, StillMine, StillCancellable
  <2> QED BY <1>1, <2>3 DEF MovedOn
<1>2. Init => MovedOn
  BY DEF Init, MovedOn
<1>3. RowsInv /\ MovedOn /\ [Next]_vars => [\A t \in Task : Refused(t) => Past(t)]_vars
  BY <1>1
<1> QED BY <1>2, <1>3, RowsInductive, MovedOnNext, PTL DEF Spec, ConflictIsReal

-----------------------------------------------------------------------------
(* What a lost task costs *)

\* The operations whose audit row is missing for good.
Missing == {lost \in Booking \X Op : lost[2] \in Unlogged(lost[1])}

LossInv == AuditInv /\ IsFiniteSet(Missing) /\ Cardinality(Missing) <= failures

\* An operation that has happened after a step had happened before, or is the
\* one the step has written.
LEMMA NothingElseHappens ==
  ASSUME RowsInv, NEW t \in Task, Wrote(t),
         WriteAccept(t) \/ WriteAdvance(t) \/ WriteCancel(t) \/ WriteRate(t),
         NEW b \in Booking, NEW op \in Op, NEW u \in User, Happened(b, op, u)',
         <<b, op>> # <<req[t].on, req[t].op>>
  PROVE  \E v \in User : Happened(b, op, v)
<1>0. /\ req[t] \in Request /\ req[t].on \in Booking /\ req[t].by \in User
      /\ row[req[t].on] \in Row /\ row \in [Booking -> Row] /\ pc'[t] = "reread"
      /\ u # NoWorker /\ row[b] \in Row
  BY RequestFields, WorkerAssumption DEF Wrote, RowsInv, TypeOK
<1>1. CASE b # req[t].on
  <2>1. row'[b] = row[b]
    BY <1>0, <1>1 DEF WriteAccept, WriteAdvance, WriteCancel, WriteRate, Update, Answer
  <2> QED BY <2>1 DEF Happened
<1>2. CASE b = req[t].on /\ op # req[t].op
  <2>1. CASE WriteAccept(t)
    <3>2. /\ row'[b] = Accepted(row[b], req[t].by) /\ req[t].op = "accept"
          /\ Acceptable(b, req[t].by)
      BY <1>0, <1>2, <2>1 DEF WriteAccept, Update, Answer, RowsInv, TypeOK
    <3>3. row'[b].status = "accepted" /\ row'[b].rating = row[b].rating
      BY <1>0, <3>2 DEF Accepted, Row
    <3> QED BY <1>0, <1>2, <3>2, <3>3 DEF Happened, WorkerAction, Since, AtOrAfter, Op
  <2>2. CASE WriteAdvance(t)
    <3>1. /\ row'[b] = Advanced(row[b], NextStatus(req[t].op, seen[t]))
          /\ req[t].op \in WorkerAction /\ StillMine(b, req[t].by, seen[t])
      BY <1>0, <1>2, <2>2 DEF WriteAdvance, Update, Answer, RowsInv, TypeOK
    <3>2. /\ row'[b].status = NextStatus(req[t].op, seen[t]) /\ row'[b].worker = row[b].worker
          /\ row'[b].rating = row[b].rating
      BY <1>0, <3>1 DEF Advanced, Row
    <3>3. NextStatus(req[t].op, row[b].status) \in Status /\ seen[t] = row[b].status
      BY <1>0, <3>1 DEF StillMine, RowsInv, Prepared, Wrote
    <3>4. op \in WorkerAction /\ row'[b].status \in Since(op) => row[b].status \in Since(op)
      BY <1>0, <1>2, <3>1, <3>2, <3>3 DEF NextStatus, Status, WorkerAction, Since, AtOrAfter, Row
    <3>5. row'[b].status # "cancelled"
      BY <1>0, <3>1, <3>2, <3>3 DEF NextStatus, Status
    <3> QED BY <1>0, <3>2, <3>4, <3>5 DEF Happened, WorkerAction, Op
  <2>3. CASE WriteCancel(t)
    <3>1. /\ row'[b] = Cancelled(row[b]) /\ req[t].op = "cancel"
      BY <1>0, <1>2, <2>3 DEF WriteCancel, Update, Answer, RowsInv, TypeOK
    <3>2. row'[b].status = "cancelled" /\ row'[b].worker = row[b].worker
          /\ row'[b].rating = row[b].rating
      BY <1>0, <3>1 DEF Cancelled, Row
    <3>3. op \in WorkerAction => row'[b].status \notin Since(op)
      BY <3>2 DEF Since, AtOrAfter, WorkerAction
    <3> QED BY <1>0, <1>2, <3>1, <3>2, <3>3 DEF Happened, WorkerAction, Op
  <2>4. CASE WriteRate(t)
    <3>1. /\ row'[b] = Rated(row[b], req[t].stars) /\ req[t].op = "rate"
      BY <1>0, <1>2, <2>4 DEF WriteRate, Update, Answer, RowsInv, TypeOK
    <3>2. row'[b].status = row[b].status /\ row'[b].worker = row[b].worker
      BY <1>0, <3>1 DEF Rated, Row
    <3> QED BY <1>0, <1>2, <3>1, <3>2 DEF Happened, WorkerAction, Op
  <2> QED BY <2>1, <2>2, <2>3, <2>4
<1> QED BY <1>1, <1>2

\* A step leaves no operation unlogged, unless it loses the task that carries it.
LEMMA WhatGoesMissing ==
  ASSUME AuditInv, [Next]_vars
  PROVE  \/ Missing' \subseteq Missing /\ failures' \in {failures, failures + 1}
         \/ /\ failures' = failures + 1
            /\ \E lost : Missing' \subseteq Missing \cup {lost}
<1>0. RowsInv
  BY DEF AuditInv
<1> USE <1>0
<1>1. ASSUME NEW t \in Task, Fail(t)
      PROVE  failures' = failures + 1 /\ Missing' \subseteq Missing \cup {<<req[t].on, req[t].op>>}
  <2>1. /\ UNCHANGED <<row, audit>>
        /\ \A s \in Task : s # t => pc'[s] = pc[s] /\ req'[s] = req[s]
    BY <1>1 DEF Fail, Answer, RowsInv, TypeOK
  <2>2. ASSUME NEW b \in Booking, NEW op \in Op, op \in Unlogged(b)',
               <<b, op>> # <<req[t].on, req[t].op>>
        PROVE  op \in Unlogged(b)
    BY <2>1, <2>2 DEF Unlogged, Happened, Carries
  <2> QED BY <1>1, <2>2 DEF Fail, Missing
<1>2. ASSUME NEW t \in Task, NEW b \in Booking, NEW op \in Op, op \in Unlogged(b)',
             Wrote(t), WriteAccept(t) \/ WriteAdvance(t) \/ WriteCancel(t) \/ WriteRate(t)
      PROVE  op \in Unlogged(b)
  <2>1. Carries(t)' /\ audit' = audit /\ req' = req
        /\ \A s \in Task : Carries(s) => Carries(s)'
    BY <1>2 DEF Wrote, Carries, RowsInv, TypeOK
  <2>2. <<b, op>> # <<req[t].on, req[t].op>>
    BY <1>2, <2>1 DEF Unlogged, Carries
  <2>3. PICK u \in User : Happened(b, op, u)'
    BY <1>2 DEF Unlogged, Happened
  <2>4. \E v \in User : Happened(b, op, v)
    BY <1>2, <2>2, <2>3, NothingElseHappens
  <2> QED BY <1>2, <2>1, <2>4 DEF Unlogged, Carries
<1>3. ASSUME NEW t \in Task, NEW b \in Booking, NEW op \in Op, op \in Unlogged(b)', RereadIt(t)
      PROVE  op \in Unlogged(b)
  BY <1>3 DEF RereadIt, Unlogged, Happened, Carries, RowsInv, TypeOK
<1>4. ASSUME NEW t \in Task, NEW b \in Booking, NEW op \in Op, op \in Unlogged(b)', Logged(t)
      PROVE  op \in Unlogged(b)
  <2>1. /\ req[t].on \in Booking /\ audit[req[t].on] \in Seq(AuditRow)
        /\ audit' = [audit EXCEPT ![req[t].on] = Append(audit[req[t].on], Entry(t))]
        /\ row' = row /\ \A s \in Task \ {t} : pc'[s] = pc[s] /\ req'[s] = req[s]
    BY <1>4, RequestFields DEF Logged, RowsInv, TypeOK
  <2>2. audit'[req[t].on] = Append(audit[req[t].on], Entry(t)) /\ Entry(t).op = req[t].op
    BY <2>1 DEF RowsInv, TypeOK, Entry
  <2>3. Len(audit[req[t].on]) + 1 \in DOMAIN audit'[req[t].on]
        /\ audit'[req[t].on][Len(audit[req[t].on]) + 1] = Entry(t)
    BY <2>1, <2>2
  <2>4. <<b, op>> # <<req[t].on, req[t].op>>
    BY <1>4, <2>2, <2>3 DEF Unlogged
  <2>5. \A i \in DOMAIN audit[b] : i \in DOMAIN audit'[b] /\ audit'[b][i] = audit[b][i]
    <3>1. CASE b = req[t].on
      BY <2>1, <2>2, <3>1
    <3>2. CASE b # req[t].on
      BY <2>1, <3>2 DEF RowsInv, TypeOK
    <3> QED BY <3>1, <3>2
  <2>6. \A i \in DOMAIN audit[b] : audit[b][i].op # op
    BY <1>4, <2>5 DEF Unlogged
  <2>7. \E u \in User : Happened(b, op, u)
    BY <1>4, <2>1 DEF Unlogged, Happened
  <2>8. \A s \in Task : Carries(s) /\ req[s].on = b => req[s].op # op
    BY <1>4, <2>1, <2>4 DEF Unlogged, Carries
  <2> QED BY <2>6, <2>7, <2>8 DEF Unlogged
<1>5. ASSUME NEW b \in Booking, NEW op \in Op, op \in Unlogged(b)',
             UNCHANGED <<row, audit>>,
             \A s \in Task : Carries(s) => Carries(s)' /\ req'[s] = req[s]
      PROVE  op \in Unlogged(b)
  BY <1>5 DEF Unlogged, Happened, Carries
<1>6. ASSUME NEW t \in Task, Answer(t), ~Carries(t)
      PROVE  \A s \in Task : Carries(s) => Carries(s)' /\ req'[s] = req[s]
  BY <1>6 DEF Answer, Carries, RowsInv, TypeOK
<1>7. ASSUME NEW t \in Task,
             (\E r \in Request : Begin(t, r)) \/ Read(t)
      PROVE  UNCHANGED <<row, audit, failures>>
             /\ \A s \in Task : Carries(s) => Carries(s)' /\ req'[s] = req[s]
  BY <1>6, <1>7 DEF Begin, Read, Carries, RowsInv, TypeOK
<1>8. ASSUME NEW t \in Task,
             WriteAccept(t) \/ WriteAdvance(t) \/ WriteCancel(t) \/ WriteRate(t)
      PROVE  /\ failures' = failures
             /\ \/ Wrote(t)
                \/ UNCHANGED <<row, audit>>
                   /\ \A s \in Task : Carries(s) => Carries(s)' /\ req'[s] = req[s]
  <2>1. pc[t] = "write" /\ failures' = failures
    BY <1>8 DEF WriteAccept, WriteAdvance, WriteCancel, WriteRate
  <2>2. Wrote(t) \/ (Answer(t) /\ UNCHANGED <<row, audit>>)
    BY <1>8 DEF WriteAccept, WriteAdvance, WriteCancel, WriteRate, Update, Wrote
  <2> QED BY <1>6, <2>1, <2>2 DEF Carries
<1>9. CASE UNCHANGED vars
  BY <1>9 DEF vars, Missing, Unlogged, Happened, Carries
<1>10. ASSUME NEW t \in Task, Reread(t) \/ Log(t)
       PROVE  failures' = failures /\ (RereadIt(t) \/ Logged(t))
  <2>1. CASE Reread(t)
    BY <2>1 DEF Reread, RereadIt
  <2>2. CASE Log(t)
    BY <2>2 DEF Log, Logged, Answer
  <2> QED BY <1>10, <2>1, <2>2
<1> QED
  BY <1>1, <1>2, <1>3, <1>4, <1>5, <1>7, <1>8, <1>9, <1>10 DEF Next, Serve, Missing

LEMMA LossInductive ==
  /\ Init => LossInv
  /\ LossInv /\ [Next]_vars => LossInv'
<1>1. ASSUME Init PROVE LossInv
  <2>1. \A b \in Booking, op \in Op, u \in User : ~Happened(b, op, u)
    BY <1>1, WorkerAssumption DEF Init, NewRow, Happened, WorkerAction, Since, AtOrAfter, Op
  <2>2. Missing = {}
    BY <2>1 DEF Missing, Unlogged
  <2> QED BY <1>1, <2>2, FS_EmptySet, InitAudit DEF LossInv, Init
<1>2. ASSUME LossInv, [Next]_vars PROVE LossInv'
  <2>0. failures \in Nat /\ Cardinality(Missing) \in Nat
    BY <1>2, FS_CardinalityType DEF LossInv, AuditInv, RowsInv, TypeOK
  <2>1. CASE Missing' \subseteq Missing /\ failures' \in {failures, failures + 1}
    <3>1. IsFiniteSet(Missing') /\ Cardinality(Missing') <= Cardinality(Missing)
          /\ Cardinality(Missing') \in Nat
      BY <1>2, <2>1, FS_Subset, FS_CardinalityType DEF LossInv
    <3> QED BY <1>2, <2>0, <2>1, <3>1, AuditInductive DEF LossInv
  <2>2. ASSUME NEW lost, Missing' \subseteq Missing \cup {lost}, failures' = failures + 1
        PROVE  LossInv'
    <3>1. IsFiniteSet(Missing \cup {lost}) /\ Cardinality(Missing \cup {lost}) <= Cardinality(Missing) + 1
          /\ Cardinality(Missing \cup {lost}) \in Nat
      <4>1. IsFiniteSet(Missing)
        BY <1>2 DEF LossInv
      <4>2. CASE lost \in Missing
        <5>1. Missing \cup {lost} = Missing
          BY <4>2
        <5> QED BY <2>0, <4>1, <5>1
      <4>3. CASE lost \notin Missing
        BY <2>0, <4>1, <4>3, FS_AddElement
      <4> QED BY <4>2, <4>3
    <3>2. IsFiniteSet(Missing') /\ Cardinality(Missing') <= Cardinality(Missing \cup {lost})
          /\ Cardinality(Missing') \in Nat
      BY <2>2, <3>1, FS_Subset, FS_CardinalityType
    <3> QED BY <1>2, <2>0, <2>2, <3>1, <3>2, AuditInductive DEF LossInv
  <2> QED BY <1>2, <2>1, <2>2, WhatGoesMissing DEF LossInv
<1> QED BY <1>1, <1>2

\* Each lost task costs the trail one row at most, whatever else runs.
THEOREM OneRowPerLoss == Spec => []OneRowLostPerFailure
<1>1. LossInv => OneRowLostPerFailure
  BY DEF LossInv, OneRowLostPerFailure, Missing
<1> QED BY <1>1, LossInductive, PTL DEF Spec
=============================================================================
