----------------------------- MODULE TicketsProofs -----------------------------
(***************************************************************************)
(* Proofs about Tickets, for any number of tickets, users and requests:    *)
(* the types, and that a ticket is where its audit trail says.             *)
(***************************************************************************)
EXTENDS Tickets, FiniteSetTheorems, TLAPS

USE TicketAssumption

\* A task works on a request of its own; who is about to create a ticket is
\* alone with it, and it does not exist yet.
TasksAgree ==
  /\ \A t \in Task : pc[t] # "idle" => req[t] \in Requests
  /\ \A t \in Task : pc[t] = "idle" => req[t] = NoRequest
  /\ \A t \in Task : pc[t] = "write" /\ req[t].op = "created" => row[req[t].ticket] = NoTicket
  /\ \A s, t \in Task : /\ pc[s] = "write" /\ req[s].op = "created"
                        /\ pc[t] = "write" /\ req[t].op = "created"
                        /\ req[s].ticket = req[t].ticket
                        => s = t

\* A ticket nobody raised is an empty row, and nothing happened to it.
EmptyRow(k) == row[k].status = "none" => row[k] = NoTicket
NothingYet(k) == Count(k, "created") = 0 => \A e \in Event : Count(k, e) = 0

Explained(k) ==
  /\ row[k].status = Told(k)
  /\ Count(k, "resolved") \in {Count(k, "reopened"), Count(k, "reopened") + 1}
  /\ NothingYet(k)

TicketInv ==
  /\ TypeOK /\ TasksAgree
  /\ \A k \in Ticket : EmptyRow(k)
  /\ failures = 0 => \A k \in Ticket : Explained(k)

Pending(k, e) == {t \in Task : pc[t] \in {"get", "log"} /\ req[t].ticket = k /\ req[t].op = e}

-----------------------------------------------------------------------------
LEMMA CountTyped ==
  ASSUME TypeOK, NEW k \in Ticket, NEW e \in Event
  PROVE  /\ IsFiniteSet(Pending(k, e))
         /\ Unlogged(k, e) = Cardinality(Pending(k, e))
         /\ Unlogged(k, e) \in Nat /\ Count(k, e) \in Nat
<1>1. IsFiniteSet(Pending(k, e))
  BY FS_Subset DEF Pending
<1>2. Unlogged(k, e) = Cardinality(Pending(k, e))
  BY DEF Unlogged, Pending
<1>3. audit[k][e] \in Nat
  BY DEF TypeOK
<1> QED BY <1>1, <1>2, <1>3, FS_CardinalityType DEF Count

\* What is told of a ticket depends on the counts alone.
LEMMA SameCounts ==
  ASSUME NEW k \in Ticket, \A e \in Event : Count(k, e)' = Count(k, e),
         row[k]' = row[k], Explained(k)
  PROVE  Explained(k)'
BY DEF Explained, NothingYet, Told, Event

\* No task comes to a row it has still to log, or leaves one.
LEMMA NobodyLogs ==
  ASSUME NEW k \in Ticket, NEW e \in Event, audit' = audit,
         \A s \in Task : s \in Pending(k, e)' <=> s \in Pending(k, e)
  PROVE  Count(k, e)' = Count(k, e)
<1>1. Pending(k, e)' = Pending(k, e)
  BY DEF Pending
<1>2. Unlogged(k, e)' = Unlogged(k, e)
  BY <1>1 DEF Unlogged, Pending
<1> QED BY <1>2 DEF Count

LEMMA OneMore ==
  ASSUME TypeOK, TypeOK', NEW k \in Ticket, NEW e \in Event, NEW t \in Task,
         t \notin Pending(k, e), Pending(k, e)' = Pending(k, e) \cup {t}
  PROVE  Unlogged(k, e)' = Unlogged(k, e) + 1
<1>1. Cardinality(Pending(k, e) \cup {t}) = Cardinality(Pending(k, e)) + 1
  BY CountTyped, FS_AddElement
<1>2. Unlogged(k, e)' = Cardinality(Pending(k, e)')
  BY DEF Unlogged, Pending
<1> QED BY <1>1, <1>2, CountTyped

LEMMA OneLess ==
  ASSUME TypeOK, TypeOK', NEW k \in Ticket, NEW e \in Event, NEW t \in Task,
         t \in Pending(k, e), Pending(k, e)' = Pending(k, e) \ {t}
  PROVE  Unlogged(k, e)' = Unlogged(k, e) - 1
<1>1. Cardinality(Pending(k, e) \ {t}) = Cardinality(Pending(k, e)) - 1
  BY CountTyped, FS_RemoveElement
<1>2. Unlogged(k, e)' = Cardinality(Pending(k, e)')
  BY DEF Unlogged, Pending
<1> QED BY <1>1, <1>2, CountTyped

-----------------------------------------------------------------------------
LEMMA RequestTyped ==
  ASSUME NEW r \in Requests
  PROVE  r.op \in Event /\ r.ticket \in Ticket /\ r # NoRequest
         /\ (r.op \in {"created", "reopened"} => r.by \in User)
BY DEF Requests, Event, NoRequest

LEMMA TypeInit == Init => TypeOK
BY DEF Init, TypeOK, NoTicket, Status, Event, Requests, NoRequest

LEMMA TypeNext ==
  ASSUME TypeOK, TasksAgree, [Next]_vars
  PROVE  TypeOK'
<1>1. ASSUME NEW t \in Task, NEW r \in Requests, Begin(t, r)
      PROVE  TypeOK'
  BY <1>1 DEF Begin, TypeOK
<1>2. ASSUME NEW t \in Task, Write(t)
      PROVE  TypeOK'
  <2> DEFINE r == req[t]
  <2>1. r \in Requests
    BY <1>2 DEF Write, TasksAgree
  <2>2. r.ticket \in Ticket /\ r.op \in Event
    BY <2>1, RequestTyped
  <2>3. Updated(r, row[r.ticket]) \in [owner : User \cup {None}, status : Status \cup {"none"},
                                       resolved : BOOLEAN]
    BY <2>1, <2>2, RequestTyped DEF Updated, TypeOK, Status, Event
  <2>4. row' \in [Ticket -> [owner : User \cup {None}, status : Status \cup {"none"},
                             resolved : BOOLEAN]]
    <3>1. row' = row \/ row' = [row EXCEPT ![r.ticket] = Updated(r, row[r.ticket])]
      BY <1>2, <2>2 DEF Write, TypeOK
    <3> QED BY <2>2, <2>3, <3>1 DEF TypeOK
  <2>5. pc' \in [Task -> {"idle", "write", "get", "log"}]
        /\ req' \in [Task -> Requests \cup {NoRequest}]
    BY <1>2 DEF Write, Done, TypeOK
  <2> QED BY <1>2, <2>4, <2>5 DEF Write, TypeOK
<1>3. ASSUME NEW t \in Task, Get(t)
      PROVE  TypeOK'
  BY <1>3 DEF Get, TypeOK
<1>4. ASSUME NEW t \in Task, Log(t)
      PROVE  TypeOK'
  <2>1. req[t].ticket \in Ticket /\ req[t].op \in Event
    BY <1>4, RequestTyped DEF Log, TasksAgree
  <2>2. audit' \in [Ticket -> [Event -> Nat]]
    BY <1>4, <2>1 DEF Log, TypeOK
  <2> QED BY <1>4, <2>2 DEF Log, Done, TypeOK
<1>5. ASSUME NEW t \in Task, Fail(t)
      PROVE  TypeOK'
  BY <1>5 DEF Fail, Done, TypeOK
<1>6. ASSUME UNCHANGED vars
      PROVE  TypeOK'
  BY <1>6 DEF vars, TypeOK
<1> QED BY <1>1, <1>2, <1>3, <1>4, <1>5, <1>6 DEF Next, Serve

LEMMA TasksNext ==
  ASSUME TypeOK, TasksAgree, [Next]_vars
  PROVE  TasksAgree'
<1>1. ASSUME NEW t \in Task, NEW r \in Requests, Begin(t, r)
      PROVE  TasksAgree'
  BY <1>1 DEF Begin, TypeOK, TasksAgree
<1>2. ASSUME NEW t \in Task, Write(t)
      PROVE  TasksAgree'
  <2> DEFINE r == req[t]
  <2>1. r \in Requests /\ pc[t] = "write" /\ r.ticket \in Ticket
    BY <1>2, RequestTyped DEF Write, TasksAgree
  <2>2. ASSUME NEW s \in Task, s # t, pc[s] = "write", req[s].op = "created"
        PROVE  row'[req[s].ticket] = NoTicket
    <3>1. row[req[s].ticket] = NoTicket
      BY <2>2 DEF TasksAgree
    <3>2. CASE row' = row
      BY <3>1, <3>2
    <3>3. CASE Matches(r, row[r.ticket]) /\ row' = [row EXCEPT ![r.ticket] = Updated(r, @)]
      <4>1. req[s].ticket # r.ticket
        <5>1. CASE r.op = "created"
          BY <5>1, <2>1, <2>2 DEF TasksAgree
        <5>2. CASE r.op # "created"
          <6>1. r.op \in Event /\ (r.op = "reopened" => r.by \in User)
            BY <2>1, RequestTyped
          <6>2. ~Matches(r, NoTicket)
            BY <5>2, <6>1 DEF Matches, Event, NoTicket
          <6> QED BY <3>1, <3>3, <6>2
        <5> QED BY <5>1, <5>2
      <4> QED BY <4>1, <3>1, <3>3 DEF TypeOK
    <3> QED BY <1>2, <3>2, <3>3 DEF Write
  <2>3. /\ pc' \in [Task -> {"idle", "write", "get", "log"}]
        /\ pc'[t] \in {"idle", "get"}
        /\ \A s \in Task : s # t => pc'[s] = pc[s] /\ req'[s] = req[s]
        /\ pc'[t] = "get" => req'[t] = r
        /\ pc'[t] = "idle" => req'[t] = NoRequest
    BY <1>2 DEF Write, Done, TypeOK
  <2> QED BY <2>1, <2>2, <2>3 DEF TasksAgree
<1>3. ASSUME NEW t \in Task, Get(t)
      PROVE  TasksAgree'
  BY <1>3 DEF Get, TypeOK, TasksAgree
<1>4. ASSUME NEW t \in Task, Log(t) \/ Fail(t)
      PROVE  TasksAgree'
  <2>1. /\ pc' = [pc EXCEPT ![t] = "idle"] /\ req' = [req EXCEPT ![t] = NoRequest]
        /\ row' = row
    BY <1>4 DEF Log, Fail, Done
  <2> QED BY <2>1 DEF TypeOK, TasksAgree
<1>5. ASSUME UNCHANGED vars
      PROVE  TasksAgree'
  BY <1>5 DEF vars, TasksAgree
<1> QED BY <1>1, <1>2, <1>3, <1>4, <1>5 DEF Next, Serve

LEMMA RowsNext ==
  ASSUME TicketInv, [Next]_vars
  PROVE  \A k \in Ticket : EmptyRow(k)'
<1> USE DEF TicketInv
<1>1. ASSUME NEW t \in Task, Write(t)
      PROVE  \A k \in Ticket : EmptyRow(k)'
  <2> DEFINE r == req[t]
  <2>1. r \in Requests /\ r.op \in Event /\ r.ticket \in Ticket
    BY <1>1, RequestTyped DEF Write, TasksAgree
  <2>2. Updated(r, row[r.ticket]).status # "none"
    BY <2>1 DEF Updated, Event, TypeOK
  <2> QED BY <1>1, <2>1, <2>2 DEF Write, EmptyRow, TypeOK
<1>2. ASSUME row' = row
      PROVE  \A k \in Ticket : EmptyRow(k)'
  BY <1>2 DEF EmptyRow
<1> QED BY <1>1, <1>2 DEF Next, Serve, Begin, Get, Log, Fail, vars

-----------------------------------------------------------------------------
\* A change that goes through is told at once.
LEMMA WriteExplained ==
  ASSUME TicketInv, TypeOK', failures = 0, NEW t \in Task, Write(t),
         NEW r, r = req[t], Matches(r, row[r.ticket])
  PROVE  \A k \in Ticket : Explained(k)'
<1> USE DEF TicketInv
<1>1. r \in Requests /\ r.op \in Event /\ r.ticket \in Ticket /\ pc[t] = "write"
  BY RequestTyped DEF Write, TasksAgree
<1>2. /\ row' = [row EXCEPT ![r.ticket] = Updated(r, @)]
      /\ pc' = [pc EXCEPT ![t] = "get"] /\ req' = req /\ audit' = audit
  BY DEF Write
<1>3. ASSUME NEW k \in Ticket, NEW e \in Event, k # r.ticket \/ e # r.op
      PROVE  Count(k, e)' = Count(k, e)
  <2>1. \A s \in Task : s \in Pending(k, e)' <=> s \in Pending(k, e)
    BY <1>1, <1>2, <1>3 DEF Pending, TypeOK
  <2> QED BY <1>2, <2>1, NobodyLogs
<1>4. Count(r.ticket, r.op)' = Count(r.ticket, r.op) + 1
  <2>1. t \notin Pending(r.ticket, r.op)
    BY <1>1 DEF Pending
  <2>2. Pending(r.ticket, r.op)' = Pending(r.ticket, r.op) \cup {t}
    BY <1>1, <1>2 DEF Pending, TypeOK
  <2>3. Unlogged(r.ticket, r.op)' = Unlogged(r.ticket, r.op) + 1
    BY <1>1, <2>1, <2>2, OneMore
  <2>4. audit[r.ticket][r.op] \in Nat
    BY <1>1 DEF TypeOK
  <2> QED BY <1>1, <1>2, <2>3, <2>4, CountTyped DEF Count
<1>5. ASSUME NEW k \in Ticket, k # r.ticket
      PROVE  Explained(k)'
  <2>1. \A e \in Event : Count(k, e)' = Count(k, e)
    BY <1>3, <1>5
  <2>2. row[k]' = row[k]
    BY <1>1, <1>2, <1>5 DEF TypeOK
  <2> QED BY <2>1, <2>2, SameCounts
<1>6. ASSUME NEW k \in Ticket, k = r.ticket
      PROVE  Explained(k)'
  <2>0. k = r.ticket
    BY <1>6
  <2>1. /\ row[k].status = Told(k)
        /\ Count(k, "resolved") \in {Count(k, "reopened"), Count(k, "reopened") + 1}
        /\ NothingYet(k) /\ EmptyRow(k)
    BY DEF Explained
  <2>2. \A e \in Event : Count(k, e) \in Nat
    BY <1>1, <2>0, CountTyped
  <2>3. \A e \in Event : e # r.op => Count(k, e)' = Count(k, e)
    BY <1>1, <2>0, <1>3
  <2>4. row'[k] = Updated(r, row[k]) /\ row[k].status \in Status \cup {"none"}
    BY <1>1, <2>0, <1>2 DEF TypeOK
  <2>5. CASE r.op = "created"
    <3>1. row[k] = NoTicket
      BY <1>1, <2>0, <2>5 DEF TasksAgree
    <3>2. Count(k, "created") = 0
      BY <3>1, <2>1 DEF Told, NoTicket
    <3>3. row'[k].status = "open"
      BY <2>0, <2>4, <2>5 DEF Updated
    <3>4. \A e \in Event : Count(k, e) = 0
      BY <2>1, <3>2 DEF NothingYet
    <3> QED BY <1>4, <2>0, <2>3, <2>5, <3>3, <3>4 DEF Explained, Told, NothingYet, Event
  <2>6. CASE r.op = "reopened"
    <3>1. row[k].status = "resolved" /\ row'[k].status = "open"
      BY <1>1, <2>0, <2>4, <2>6 DEF Matches, Updated, TypeOK, Status
    <3> QED BY <1>4, <2>0, <2>1, <2>2, <2>3, <2>6, <3>1 DEF Explained, Told, NothingYet, Event
  <2>7. CASE r.op = "resolved"
    <3>1. row[k].status = "open" /\ row'[k].status = "resolved"
      BY <1>1, <2>0, <2>4, <2>7 DEF Matches, Updated, TypeOK
    <3> QED BY <1>4, <2>0, <2>1, <2>2, <2>3, <2>7, <3>1 DEF Explained, Told, NothingYet, Event
  <2>8. CASE r.op = "closed"
    <3>1. row[k].status # "none" /\ row'[k].status = "closed"
      BY <1>1, <2>0, <2>1, <2>4, <2>8 DEF Matches, Updated, TypeOK, EmptyRow
    <3> QED BY <1>4, <2>0, <2>1, <2>2, <2>3, <2>8, <3>1 DEF Explained, Told, NothingYet, Event
  <2> QED BY <1>1, <2>0, <2>5, <2>6, <2>7, <2>8 DEF Event
<1> QED BY <1>5, <1>6

\* The row that is logged was counted before.
LEMMA LogExplained ==
  ASSUME TicketInv, TypeOK', failures = 0, NEW t \in Task, Log(t), NEW r, r = req[t]
  PROVE  \A k \in Ticket : Explained(k)'
<1> USE DEF TicketInv
<1>1. r \in Requests /\ r.op \in Event /\ r.ticket \in Ticket /\ pc[t] = "log"
  BY RequestTyped DEF Log, TasksAgree
<1>2. /\ pc' = [pc EXCEPT ![t] = "idle"] /\ req' = [req EXCEPT ![t] = NoRequest]
      /\ audit' = [audit EXCEPT ![r.ticket][r.op] = @ + 1] /\ row' = row
  BY DEF Log, Done
<1>3. ASSUME NEW k \in Ticket, NEW e \in Event
      PROVE  Count(k, e)' = Count(k, e)
  <2>1. CASE k = r.ticket /\ e = r.op
    <3>1. t \in Pending(k, e)
      BY <1>1, <2>1 DEF Pending
    <3>2. Pending(k, e)' = Pending(k, e) \ {t}
      BY <1>1, <1>2, <2>1 DEF Pending, TypeOK
    <3>3. Unlogged(k, e)' = Unlogged(k, e) - 1
      BY <3>1, <3>2, OneLess
    <3>4. audit'[k][e] = audit[k][e] + 1 /\ audit[k][e] \in Nat
      BY <1>1, <1>2, <2>1 DEF TypeOK
    <3> QED BY <3>3, <3>4, CountTyped DEF Count
  <2>2. CASE ~(k = r.ticket /\ e = r.op)
    <3>1. Pending(k, e)' = Pending(k, e)
      BY <1>1, <1>2, <2>2 DEF Pending, TypeOK
    <3>2. audit'[k][e] = audit[k][e]
      BY <1>1, <1>2, <2>2 DEF TypeOK
    <3>3. Unlogged(k, e)' = Unlogged(k, e)
      BY <3>1 DEF Unlogged, Pending
    <3> QED BY <3>2, <3>3 DEF Count
  <2> QED BY <2>1, <2>2
<1> QED BY <1>2, <1>3, SameCounts DEF TypeOK

LEMMA ExplainedNext ==
  ASSUME TicketInv, TypeOK', [Next]_vars
  PROVE  failures' = 0 => \A k \in Ticket : Explained(k)'
<1> USE DEF TicketInv
<1> SUFFICES ASSUME failures' = 0 PROVE \A k \in Ticket : Explained(k)'
  OBVIOUS
\* A step that logs nothing and leaves the rows as they are.
<1>1. ASSUME failures = 0, row' = row, audit' = audit,
             \A k \in Ticket, e \in Event, s \in Task : s \in Pending(k, e)' <=> s \in Pending(k, e)
      PROVE  \A k \in Ticket : Explained(k)'
  BY <1>1, NobodyLogs, SameCounts
<1>2. ASSUME NEW t \in Task, NEW r \in Requests, Begin(t, r)
      PROVE  \A k \in Ticket : Explained(k)'
  <2>1. \A k \in Ticket, e \in Event, s \in Task : s \in Pending(k, e)' <=> s \in Pending(k, e)
    BY <1>2 DEF Begin, Pending, TypeOK
  <2> QED BY <1>1, <1>2, <2>1 DEF Begin
<1>3. ASSUME NEW t \in Task, Write(t)
      PROVE  \A k \in Ticket : Explained(k)'
  <2>1. failures = 0
    BY <1>3 DEF Write
  <2>2. CASE Matches(req[t], row[req[t].ticket])
    BY <1>3, <2>1, <2>2, WriteExplained
  <2>3. CASE ~Matches(req[t], row[req[t].ticket])
    <3>1. Done(t) /\ row' = row /\ audit' = audit /\ pc[t] = "write"
      BY <1>3, <2>3 DEF Write
    <3>2. \A k \in Ticket, e \in Event, s \in Task : s \in Pending(k, e)' <=> s \in Pending(k, e)
      BY <3>1 DEF Done, Pending, TypeOK
    <3> QED BY <1>1, <2>1, <3>1, <3>2
  <2> QED BY <2>2, <2>3
<1>4. ASSUME NEW t \in Task, Get(t)
      PROVE  \A k \in Ticket : Explained(k)'
  <2>1. \A k \in Ticket, e \in Event, s \in Task : s \in Pending(k, e)' <=> s \in Pending(k, e)
    BY <1>4 DEF Get, Pending, TypeOK
  <2> QED BY <1>1, <1>4, <2>1 DEF Get
<1>5. ASSUME NEW t \in Task, Log(t)
      PROVE  \A k \in Ticket : Explained(k)'
  BY <1>5, LogExplained DEF Log
<1>6. ASSUME NEW t \in Task, Fail(t)
      PROVE  FALSE
  BY <1>6 DEF Fail, TypeOK
<1>7. ASSUME UNCHANGED vars
      PROVE  \A k \in Ticket : Explained(k)'
  BY <1>1, <1>7 DEF vars, Pending
<1> QED BY <1>2, <1>3, <1>4, <1>5, <1>6, <1>7 DEF Next, Serve

LEMMA TicketInvInit == Init => TicketInv
<1> SUFFICES ASSUME Init PROVE TicketInv
  OBVIOUS
<1>1. TypeOK
  BY TypeInit
<1>2. TasksAgree /\ \A k \in Ticket : EmptyRow(k)
  BY DEF Init, TasksAgree, EmptyRow, NoTicket, NoRequest
<1>3. ASSUME NEW k \in Ticket, NEW e \in Event
      PROVE  Count(k, e) = 0
  <2>1. Pending(k, e) = {}
    BY DEF Init, Pending
  <2>2. Unlogged(k, e) = 0
    BY <1>1, <2>1, CountTyped, FS_EmptySet
  <2> QED BY <2>2 DEF Count, Init
<1>4. \A k \in Ticket : Explained(k)
  BY <1>3 DEF Explained, NothingYet, Told, Event, Init, NoTicket
<1> QED BY <1>1, <1>2, <1>4 DEF TicketInv

LEMMA TicketInvNext == TicketInv /\ [Next]_vars => TicketInv'
<1> SUFFICES ASSUME TicketInv, [Next]_vars PROVE TicketInv'
  OBVIOUS
<1>1. TypeOK' /\ TasksAgree'
  BY TypeNext, TasksNext DEF TicketInv
<1>2. \A k \in Ticket : EmptyRow(k)'
  BY RowsNext
<1>3. failures' = 0 => \A k \in Ticket : Explained(k)'
  BY <1>1, ExplainedNext
<1> QED BY <1>1, <1>2, <1>3 DEF TicketInv

\* Every variable of the ticket handlers keeps its type.
THEOREM TicketTypes == Spec => []TypeOK
<1>1. TicketInv => TypeOK
  BY DEF TicketInv
<1> QED BY TicketInvInit, TicketInvNext, <1>1, PTL DEF Spec

\* Without a lost request, a ticket is where its audit trail says, and each of
\* its resolutions but the last was reopened once.
THEOREM TrailExplains == Spec => []TrailExplainsTicket
<1>1. TicketInv => TrailExplainsTicket
  BY DEF TicketInv, Explained, TrailExplainsTicket
<1> QED BY TicketInvInit, TicketInvNext, <1>1, PTL DEF Spec
=============================================================================
