-------------------------- MODULE WorkerVerification --------------------------
(***************************************************************************)
(* How accounts come by their roles: applications to become a worker       *)
(* (POST /me/apply-worker, KYC uploads), the admins' decisions, and the    *)
(* roles a login hands out (backend/src/infra/db/workers.rs, api/me.rs,    *)
(* api/admin.rs, api/auth.rs).                                             *)
(*                                                                         *)
(* An application reads the applicant's roles in one statement and inserts *)
(* in another; a unique index keeps one pending application per user.  A   *)
(* decision is one transaction: it locks and updates the application,      *)
(* grants the role, commits.  Statements that need the locked row wait.    *)
(* Admins are the phones in ADMIN_PHONES, read when the server starts.     *)
(***************************************************************************)
EXTENDS Naturals, Sequences, FiniteSets

CONSTANTS
  User,        \* accounts, one per phone
  AdminPhones, \* the values of ADMIN_PHONES the operators use
  Task,
  MaxApps,     \* bound: applications
  MaxFailures, \* bound: tasks lost
  MaxRestarts  \* bound: restarts of the server

ASSUME VerificationAssumption ==
  /\ AdminPhones \subseteq SUBSET User /\ AdminPhones # {}
  /\ MaxApps \in Nat /\ MaxFailures \in Nat /\ MaxRestarts \in Nat

VARIABLES
  roles,     \* roles[u]: user_roles
  members,   \* the users who hold a session's tokens
  apps,      \* worker_applications, in insertion order
  staff,     \* ADMIN_PHONES of the running server
  pc,        \* pc[t]: the next statement of task t
  req,       \* req[t]: the request task t serves
  audit,     \* the audit rows about applications: <<action, application>>
  failures,  \* tasks lost
  restarts

tables == <<roles, members, apps>>
vars == <<tables, staff, pc, req, audit, failures, restarts>>

-----------------------------------------------------------------------------
Part == {"doc", "selfie"}

Request ==
  [kind : {"login", "apply"}, by : User]
    \cup [kind : {"kyc"}, by : User, part : Part]
    \cup [kind : {"decide"}, by : User, app : 1..MaxApps, approve : BOOLEAN]

NoRequest == [kind |-> "none"]

\* The first statement of each handler.
Entry == [login |-> "grant", apply |-> "roles", kyc |-> "attach", decide |-> "lock"]

Pending(i) == apps[i].status = "pending"
AppsOf(u) == {i \in DOMAIN apps : apps[i].user = u}

\* A transaction that has updated application i and is not over.
Locked(i) == \E t \in Task : pc[t] \in {"role", "commit"} /\ req[t].app = i

Init ==
  /\ roles = [u \in User |-> {}]
  /\ members = {}
  /\ apps = <<>>
  /\ staff \in AdminPhones
  /\ pc = [t \in Task |-> "idle"]
  /\ req = [t \in Task |-> NoRequest]
  /\ audit = {}
  /\ failures = 0
  /\ restarts = 0

Go(t, step) == pc' = [pc EXCEPT ![t] = step] /\ UNCHANGED req

\* The handler answers; a transaction still open is rolled back.
Answer(t) == /\ pc' = [pc EXCEPT ![t] = "idle"]
             /\ req' = [req EXCEPT ![t] = NoRequest]

Entitled_Anybody(r) ==
  r.kind = "decide" =>
    r.by \in members /\ "admin" \in roles[r.by] /\ r.app \in DOMAIN apps

\* A login brings its own credentials; the rest needs a token, and a decision
\* the permission workers:verify, which is the admins'.  Nothing takes the
\* admin role away, so a token's roles are as good as the table's.
Entitled(r) ==
  \/ r.kind = "login"
  \/ r.kind \in {"apply", "kyc"} /\ r.by \in members
  \/ /\ r.kind = "decide"
     /\ r.by \in members /\ "admin" \in roles[r.by]
     /\ r.app \in DOMAIN apps

Applying == {t \in Task : pc[t] \in {"roles", "insert"}}

Begin(t, r) ==
  /\ pc[t] = "idle"
  /\ Entitled(r)
  /\ r.kind = "apply" => Len(apps) + Cardinality(Applying) < MaxApps
  /\ pc' = [pc EXCEPT ![t] = Entry[r.kind]]
  /\ req' = [req EXCEPT ![t] = r]
  /\ UNCHANGED <<tables, staff, audit, failures, restarts>>

-----------------------------------------------------------------------------
(* Login: the roles of verify_otp *)

\* Operators with a capitalised suffix, above and below, are faulty variants
\* of the definition that follows them.  No action uses them: they stand in for
\* it to show that the properties notice the fault.

Gains(u, role) == roles' = [roles EXCEPT ![u] = @ \cup {role}]

GrantAtLogin_Customer(t) ==
  /\ pc[t] = "grant"
  /\ roles' = [roles EXCEPT ![req[t].by] =
                 @ \cup (IF req[t].by \in staff THEN {"admin"} ELSE {"customer"})]
  /\ Go(t, "session")
  /\ UNCHANGED <<members, apps, staff, audit, failures, restarts>>

\* Admin phones become admin, everybody else customer.
GrantAtLogin(t) ==
  LET u == req[t].by IN
  /\ pc[t] = "grant"
  /\ IF u \in staff THEN Gains(u, "admin") /\ Go(t, "revoke")
                    ELSE Gains(u, "customer") /\ Go(t, "session")
  /\ UNCHANGED <<members, apps, staff, audit, failures, restarts>>

RevokeCustomer(t) ==
  /\ pc[t] = "revoke"
  /\ roles' = [roles EXCEPT ![req[t].by] = @ \ {"customer"}]
  /\ Go(t, "session")
  /\ UNCHANGED <<members, apps, staff, audit, failures, restarts>>

OpenSession(t) ==
  /\ pc[t] = "session"
  /\ members' = members \cup {req[t].by}
  /\ Answer(t)
  /\ UNCHANGED <<roles, apps, staff, audit, failures, restarts>>

-----------------------------------------------------------------------------
(* Applying *)

ReadRoles_WorkersOnly(t) ==
  /\ pc[t] = "roles"
  /\ IF "worker" \in roles[req[t].by] THEN Answer(t) ELSE Go(t, "insert")
  /\ UNCHANGED <<tables, staff, audit, failures, restarts>>

\* Workers and staff do not apply.
ReadRoles(t) ==
  /\ pc[t] = "roles"
  /\ IF roles[req[t].by] \cap {"worker", "admin"} # {} THEN Answer(t) ELSE Go(t, "insert")
  /\ UNCHANGED <<tables, staff, audit, failures, restarts>>

HasPending_Never(u) == FALSE

\* The partial unique index on the user's pending application.
HasPending(u) == \E i \in AppsOf(u) : Pending(i)

NewApplication(u) == [user |-> u, status |-> "pending", kyc |-> {}]

\* INSERT ... ON CONFLICT DO NOTHING; waits for a decision under way.
InsertApplication(t) ==
  LET u == req[t].by IN
  /\ pc[t] = "insert"
  /\ \A i \in AppsOf(u) : ~Locked(i)
  /\ IF HasPending(u)
     THEN Answer(t) /\ UNCHANGED apps
     ELSE /\ apps' = Append(apps, NewApplication(u))
          /\ pc' = [pc EXCEPT ![t] = "applied"]
          /\ req' = [req EXCEPT ![t] = [kind |-> "applied", app |-> Len(apps) + 1]]
  /\ UNCHANGED <<roles, members, staff, audit, failures, restarts>>

LogApplied(t) ==
  /\ pc[t] = "applied"
  /\ audit' = audit \cup {<<"worker.applied", req[t].app>>}
  /\ Answer(t)
  /\ UNCHANGED <<tables, staff, failures, restarts>>

Attachable_Latest(u) == {i \in AppsOf(u) : \A j \in AppsOf(u) : j <= i}

\* The applications of u a document goes to: WHERE status = 'pending'.
Attachable(u) == {i \in AppsOf(u) : Pending(i)}

\* UPDATE; waits for a decision under way, then looks again.  The audit row
\* of an upload names no application and is left out.
AttachKyc(t) ==
  LET u == req[t].by IN
  /\ pc[t] = "attach"
  /\ \A i \in AppsOf(u) : ~Locked(i)
  /\ apps' = [i \in DOMAIN apps |->
       IF i \in Attachable(u) THEN [apps[i] EXCEPT !.kyc = @ \cup {req[t].part}]
                              ELSE apps[i]]
  /\ Answer(t)
  /\ UNCHANGED <<roles, members, staff, audit, failures, restarts>>

-----------------------------------------------------------------------------
(* Deciding *)

Decidable_Always(i) == TRUE

Decidable(i) == Pending(i)

\* UPDATE ... WHERE status = 'pending': zero rows is a Conflict.
LockApplication(t) ==
  /\ pc[t] = "lock"
  /\ ~Locked(req[t].app)
  /\ IF Decidable(req[t].app) THEN Go(t, IF req[t].approve THEN "role" ELSE "commit")
                              ELSE Answer(t)
  /\ UNCHANGED <<tables, staff, audit, failures, restarts>>

GrantWorker_Outside(t) ==
  /\ pc[t] = "role"
  /\ Gains(apps[req[t].app].user, "worker")
  /\ Go(t, "commit")
  /\ UNCHANGED <<members, apps, staff, audit, failures, restarts>>

\* The INSERT into user_roles, inside the transaction.
GrantWorker(t) ==
  /\ pc[t] = "role"
  /\ Go(t, "commit")
  /\ UNCHANGED <<tables, staff, audit, failures, restarts>>

Verdict(approve) == IF approve THEN "approved" ELSE "rejected"

CommitDecision(t) ==
  LET i == req[t].app IN
  /\ pc[t] = "commit"
  /\ apps' = [apps EXCEPT ![i].status = Verdict(req[t].approve)]
  /\ IF req[t].approve THEN Gains(apps[i].user, "worker") ELSE UNCHANGED roles
  /\ Go(t, "decided")
  /\ UNCHANGED <<members, staff, audit, failures, restarts>>

DecisionEvent(approve) ==
  IF approve THEN "worker.application_approved" ELSE "worker.application_rejected"

LogDecided(t) ==
  /\ pc[t] = "decided"
  /\ audit' = audit \cup {<<DecisionEvent(req[t].approve), req[t].app>>}
  /\ Answer(t)
  /\ UNCHANGED <<tables, staff, failures, restarts>>

-----------------------------------------------------------------------------
Serve(t) ==
  \/ GrantAtLogin(t) \/ RevokeCustomer(t) \/ OpenSession(t)
  \/ ReadRoles(t) \/ InsertApplication(t) \/ LogApplied(t) \/ AttachKyc(t)
  \/ LockApplication(t) \/ GrantWorker(t) \/ CommitDecision(t) \/ LogDecided(t)

\* A task is lost at any statement; PostgreSQL rolls its transaction back.
Fail(t) ==
  /\ pc[t] # "idle"
  /\ failures < MaxFailures
  /\ failures' = failures + 1
  /\ Answer(t)
  /\ UNCHANGED <<tables, staff, audit, restarts>>

\* The server restarts, perhaps with other ADMIN_PHONES; its tasks are lost.
Restart ==
  /\ restarts < MaxRestarts
  /\ restarts' = restarts + 1
  /\ staff' \in AdminPhones
  /\ pc' = [t \in Task |-> "idle"]
  /\ req' = [t \in Task |-> NoRequest]
  /\ UNCHANGED <<tables, audit, failures>>

Next ==
  \/ \E t \in Task : (\E r \in Request : Begin(t, r)) \/ Serve(t) \/ Fail(t)
  \/ Restart

Spec == Init /\ [][Next]_vars

-----------------------------------------------------------------------------
(* Properties *)

Role == {"customer", "worker", "admin"}
Steps == {"idle", "grant", "revoke", "session", "roles", "insert", "applied",
          "attach", "lock", "role", "commit", "decided"}
Application == [user : User, status : {"pending", "approved", "rejected"},
                kyc : SUBSET Part]

\* Every variable holds a value of its type, and only members apply.
TypeOK ==
  /\ roles \in [User -> SUBSET Role]
  /\ members \subseteq User
  /\ apps \in Seq(Application) /\ Len(apps) <= MaxApps
  /\ staff \in AdminPhones
  /\ pc \in [Task -> Steps]
  /\ \A t \in Task :
       req[t] \in Request \cup {NoRequest} \cup [kind : {"applied"}, app : DOMAIN apps]
  /\ audit \subseteq {"worker.applied", DecisionEvent(TRUE), DecisionEvent(FALSE)}
                       \X DOMAIN apps
  /\ failures \in 0..MaxFailures /\ restarts \in 0..MaxRestarts
  /\ \A i \in DOMAIN apps : apps[i].user \in members

\* "the role can never exist without a decided application behind it", and an
\* approval never exists without the role: decide commits both or neither,
\* whichever decisions race and wherever they fail.
WorkerIffApproved ==
  \A u \in User :
    "worker" \in roles[u] <=> \E i \in AppsOf(u) : apps[i].status = "approved"

\* "one live application per user": applications race with each other and
\* with decisions, and still never are two of a user's pending.
OnePending ==
  \A i, j \in DOMAIN apps :
    Pending(i) /\ Pending(j) /\ apps[i].user = apps[j].user => i = j

\* A decision is final: no later decision, upload or application changes a
\* decided application, so what the admin saw is what stays on file.
DecidedIsFrozen ==
  [][\A i \in DOMAIN apps : ~Pending(i) => apps'[i] = apps[i]]_vars

\* A decision's audit row agrees with the application, so two admins who
\* decide at once never both appear to have decided.
AuditMatches ==
  \A i \in DOMAIN apps, approve \in BOOLEAN :
    <<DecisionEvent(approve), i>> \in audit => apps[i].status = Verdict(approve)

\* "admin accounts carry the admin role only (self-heals ...)": as long as the
\* server does not restart with other phones, a login of an admin phone ends
\* without the customer role, whatever logins of the same phone run besides.
StaffAreNotCustomers ==
  \A t \in Task :
    pc[t] = "session" /\ req[t].by \in staff =>
      "admin" \in roles[req[t].by] /\ "customer" \notin roles[req[t].by]

\* "Admins cannot be workers (separation of duties)", as far as it goes: apply
\* looks at the roles before it inserts and a login looks at no application,
\* yet as long as the server runs with the same admin phones nobody comes to
\* hold both roles, whatever logins, applications and decisions race.  (A
\* worker whose phone is in ADMIN_PHONES after a restart does hold both.)
SeparationNeedsRestart ==
  \A u \in User : {"admin", "worker"} \subseteq roles[u] => restarts > 0
=============================================================================
