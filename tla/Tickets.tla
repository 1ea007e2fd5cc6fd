-------------------------------- MODULE Tickets --------------------------------
(***************************************************************************)
(* Complaint tickets: a customer raises and reopens them, staff resolve    *)
(* and close them (backend/src/api/tickets.rs over                         *)
(* backend/src/infra/db/tickets.rs).  Each request is one conditional      *)
(* UPDATE, a SELECT for the answer and an audit row, three statements      *)
(* between which other requests run and the request may be lost.           *)
(***************************************************************************)
EXTENDS Naturals, FiniteSets

CONSTANTS
  Ticket, User, Staff,
  None,
  Task,        \* requests that run at the same time
  MaxChanges,  \* bound: requests that change a ticket
  MaxFailures  \* bound: requests lost

ASSUME TicketAssumption ==
  /\ None \notin User
  /\ IsFiniteSet(Task)
  /\ MaxChanges \in Nat /\ MaxFailures \in Nat

VARIABLES
  row,      \* row[k]: the ticket, of nobody before it is created
  audit,    \* audit[k][e]: how many audit rows with event e ticket k has
  pc, req,  \* pc[t], req[t]: the next statement of task t and its request
  changes, failures

vars == <<row, audit, pc, req, changes, failures>>

-----------------------------------------------------------------------------
Event == {"created", "resolved", "reopened", "closed"}
Status == {"open", "resolved", "closed"}

NoTicket == [owner |-> None, status |-> "none", resolved |-> FALSE]
Ask(op, k, by) == [op |-> op, ticket |-> k, by |-> by]
Requests == [op : {"created", "reopened"}, ticket : Ticket, by : User]
              \cup [op : {"resolved", "closed"}, ticket : Ticket, by : Staff]
NoRequest == [op |-> "none"]

Init ==
  /\ row = [k \in Ticket |-> NoTicket]
  /\ audit = [k \in Ticket |-> [e \in Event |-> 0]]
  /\ pc = [t \in Task |-> "idle"]
  /\ req = [t \in Task |-> NoRequest]
  /\ changes = 0 /\ failures = 0

Done(t) == /\ pc' = [pc EXCEPT ![t] = "idle"]
           /\ req' = [req EXCEPT ![t] = NoRequest]

\* The id of a new ticket is fresh; any other request names some ticket.
Begin(t, r) ==
  /\ pc[t] = "idle"
  /\ changes < MaxChanges
  /\ r.op = "created" => /\ row[r.ticket] = NoTicket
                        /\ \A s \in Task : req[s].op = "created" => req[s].ticket # r.ticket
  /\ changes' = changes + 1
  /\ pc' = [pc EXCEPT ![t] = "write"]
  /\ req' = [req EXCEPT ![t] = r]
  /\ UNCHANGED <<row, audit, failures>>

-----------------------------------------------------------------------------
(* The INSERT, and the WHERE clauses of the UPDATEs *)

\* Operators with a capitalised suffix are faulty variants of the definition
\* that follows them.  No action uses them: they stand in for it to show that
\* the properties notice the fault.

Matches_AnySettled(r, found) ==
  CASE r.op = "created" -> TRUE
    [] r.op = "reopened" -> found.owner = r.by /\ found.status # "open"
    [] r.op = "resolved" -> found.status = "open"
    [] r.op = "closed" -> found # NoTicket /\ found.status # "closed"

Matches(r, found) ==
  CASE r.op = "created" -> TRUE
    [] r.op = "reopened" -> found.owner = r.by /\ found.status = "resolved"
    [] r.op = "resolved" -> found.status = "open"
    [] r.op = "closed" -> found # NoTicket /\ found.status # "closed"

\* A reopened ticket keeps its resolution.
Updated(r, found) ==
  CASE r.op = "created" -> [owner |-> r.by, status |-> "open", resolved |-> FALSE]
    [] r.op = "reopened" -> [found EXCEPT !.status = "open"]
    [] r.op = "resolved" -> [found EXCEPT !.status = "resolved", !.resolved = TRUE]
    [] r.op = "closed" -> [found EXCEPT !.status = "closed"]

\* No row affected is a Conflict.
Write(t) ==
  LET r == req[t] IN
  /\ pc[t] = "write"
  /\ \/ /\ Matches(r, row[r.ticket])
        /\ row' = [row EXCEPT ![r.ticket] = Updated(r, @)]
        /\ pc' = [pc EXCEPT ![t] = "get"]
        /\ UNCHANGED req
     \/ /\ ~Matches(r, row[r.ticket])
        /\ Done(t)
        /\ UNCHANGED row
  /\ UNCHANGED <<audit, changes, failures>>

\* get: the ticket for the answer, as it is by now.
Get(t) ==
  /\ pc[t] = "get"
  /\ pc' = [pc EXCEPT ![t] = "log"]
  /\ UNCHANGED <<row, audit, req, changes, failures>>

Log(t) ==
  /\ pc[t] = "log"
  /\ audit' = [audit EXCEPT ![req[t].ticket][req[t].op] = @ + 1]
  /\ Done(t)
  /\ UNCHANGED <<row, changes, failures>>

Fail(t) ==
  /\ pc[t] # "idle"
  /\ failures < MaxFailures
  /\ failures' = failures + 1
  /\ Done(t)
  /\ UNCHANGED <<row, audit, changes>>

Serve(t) == Write(t) \/ Get(t) \/ Log(t)

Next == \E t \in Task : \/ \E r \in Requests : Begin(t, r)
                        \/ Serve(t) \/ Fail(t)

Spec == Init /\ [][Next]_vars

-----------------------------------------------------------------------------
(* Properties *)

\* Every variable holds a value of its type.
TypeOK ==
  /\ row \in [Ticket -> [owner : User \cup {None}, status : Status \cup {"none"},
                         resolved : BOOLEAN]]
  /\ audit \in [Ticket -> [Event -> Nat]]
  /\ pc \in [Task -> {"idle", "write", "get", "log"}]
  /\ req \in [Task -> Requests \cup {NoRequest}]
  /\ changes \in 0..MaxChanges /\ failures \in 0..MaxFailures

Unlogged(k, e) ==
  Cardinality({t \in Task : pc[t] \in {"get", "log"} /\ req[t].ticket = k /\ req[t].op = e})

\* What happened to ticket k so far, by the trail and the rows still to come.
Count(k, e) == audit[k][e] + Unlogged(k, e)

\* The status the events of a ticket add up to, in whatever order they are.
Told(k) == IF Count(k, "created") = 0 THEN "none"
           ELSE IF Count(k, "closed") > 0 THEN "closed"
           ELSE IF Count(k, "resolved") > Count(k, "reopened") THEN "resolved"
           ELSE "open"

\* "closed is the admin's permanent state", "never a closed one": whatever
\* customers and staff do at once, a ticket is where its audit trail says, as
\* long as no request was lost: each resolution but the last one was reopened,
\* once, and nothing follows the closing.
TrailExplainsTicket ==
  failures = 0 => \A k \in Ticket :
    /\ row[k].status = Told(k)
    /\ Count(k, "resolved") \in {Count(k, "reopened"), Count(k, "reopened") + 1}
=============================================================================
