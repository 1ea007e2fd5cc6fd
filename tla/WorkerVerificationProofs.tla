----------------------- MODULE WorkerVerificationProofs -----------------------
(***************************************************************************)
(* The worker role and the applications behind it, for any number of       *)
(* users, applications and requests.                                       *)
(*                                                                         *)
(* The argument is that of the row lock: a decision under way is about a   *)
(* pending application, and no other decision under way is (Locks).  So a  *)
(* COMMIT turns exactly one pending application into a decided one, and    *)
(* hands out the role if it approved.                                      *)
(*                                                                         *)
(* Two more parts build on it: what the audit rows of decisions say        *)
(* (AuditInv), and who administers (LoginInv, SeparationInv).  The types   *)
(* that are left need both, and a count: room is kept for the applications *)
(* under way (RoomInv).                                                    *)
(***************************************************************************)
EXTENDS WorkerVerification, FiniteSetTheorems, TLAPS

USE VerificationAssumption

\* The types of what the argument below looks at.
Typed ==
  /\ roles \in [User -> SUBSET Role]
  /\ apps \in Seq(Application)
  /\ pc \in [Task -> Steps]
  /\ req \in [Task -> Request \cup {NoRequest} \cup [kind : {"applied"}, app : Nat]]
  /\ \A t \in Task :
       /\ pc[t] \in {"grant", "revoke", "session", "roles", "insert", "attach"} =>
            req[t].by \in User
       /\ pc[t] \in {"lock", "role", "commit"} =>
            req[t].app \in DOMAIN apps /\ req[t].approve \in BOOLEAN
       /\ pc[t] = "attach" => req[t].part \in Part

Deciding(t) == pc[t] \in {"role", "commit"}

\* A decision under way has a pending application to itself.
Locks ==
  /\ \A t \in Task : Deciding(t) => Pending(req[t].app)
  /\ \A t1, t2 \in Task :
       Deciding(t1) /\ Deciding(t2) /\ req[t1].app = req[t2].app => t1 = t2

VerifyInv == Typed /\ Locks /\ WorkerIffApproved /\ OnePending

-----------------------------------------------------------------------------
\* A step that keeps the applications' users and statuses, everybody's worker
\* role and lets no task begin to decide.
LEMMA NothingDecided ==
  ASSUME VerifyInv, Typed',
         DOMAIN apps' = DOMAIN apps,
         \A i \in DOMAIN apps : /\ apps'[i].user = apps[i].user
                                /\ apps'[i].status = apps[i].status,
         \A u \in User : "worker" \in roles'[u] <=> "worker" \in roles[u],
         \A s \in Task : Deciding(s)' => Deciding(s) /\ req'[s] = req[s]
  PROVE  VerifyInv'
<1>1. Locks'
  BY DEF VerifyInv, Typed, Locks, Pending, Deciding
<1>2. WorkerIffApproved'
  BY DEF VerifyInv, WorkerIffApproved, AppsOf
<1>3. OnePending'
  BY DEF VerifyInv, OnePending, Pending
<1> QED BY <1>1, <1>2, <1>3 DEF VerifyInv

\* A step of task t that leaves the applications alone.
LEMMA StepTyped ==
  ASSUME Typed, NEW t \in Task, apps' = apps, roles' \in [User -> SUBSET Role],
         \/ Answer(t)
         \/ \E step \in Steps \ {"attach", "lock", "role", "commit"} :
              /\ Go(t, step)
              /\ pc[t] \in {"grant", "revoke", "session", "roles", "insert", "attach"}
                 \/ step = "decided"
         \/ /\ pc[t] \in {"lock", "role", "commit"}
            /\ \E step \in {"role", "commit"} : Go(t, step)
  PROVE  Typed'
<1>1. CASE Answer(t)
  BY <1>1 DEF Typed, Answer, Steps
<1>2. CASE ~Answer(t)
  <2>1. PICK step \in Steps :
             /\ Go(t, step)
             /\ \/ step \in {"role", "commit"} /\ pc[t] \in {"lock", "role", "commit"}
                \/ /\ step \notin {"attach", "lock", "role", "commit"}
                   /\ \/ pc[t] \in {"grant", "revoke", "session", "roles", "insert", "attach"}
                      \/ step = "decided"
    BY <1>2 DEF Steps
  <2>2. pc' = [pc EXCEPT ![t] = step] /\ req' = req
    BY <2>1 DEF Go
  <2> QED BY <2>1, <2>2 DEF Typed
<1> QED BY <1>1, <1>2

\* Logging in changes the customer and admin roles only; reading the roles,
\* granting inside the transaction and logging change no table.
LEMMA QuietSteps ==
  ASSUME VerifyInv, NEW t \in Task,
         \/ GrantAtLogin(t) \/ RevokeCustomer(t) \/ OpenSession(t)
         \/ ReadRoles(t) \/ LogApplied(t) \/ GrantWorker(t) \/ LogDecided(t)
         \/ Fail(t)
  PROVE  VerifyInv'
<1>0. Typed
  BY DEF VerifyInv
<1>1. apps' = apps
  BY DEF GrantAtLogin, RevokeCustomer, OpenSession, ReadRoles, LogApplied,
         GrantWorker, LogDecided, Fail, tables
<1>2. /\ roles' \in [User -> SUBSET Role]
      /\ \A u \in User : "worker" \in roles'[u] <=> "worker" \in roles[u]
  <2>1. CASE GrantAtLogin(t)
    <3>1. req[t].by \in User
      BY <1>0, <2>1 DEF Typed, GrantAtLogin
    <3>2. CASE req[t].by \in staff
      BY <1>0, <2>1, <3>1, <3>2 DEF Typed, GrantAtLogin, Gains, Role
    <3>3. CASE req[t].by \notin staff
      BY <1>0, <2>1, <3>1, <3>3 DEF Typed, GrantAtLogin, Gains, Role
    <3> QED BY <3>2, <3>3
  <2>2. CASE RevokeCustomer(t)
    <3>1. req[t].by \in User
      BY <1>0, <2>2 DEF Typed, RevokeCustomer
    <3> QED BY <1>0, <2>2, <3>1 DEF Typed, RevokeCustomer, Role
  <2>3. CASE ~GrantAtLogin(t) /\ ~RevokeCustomer(t)
    <3>1. roles' = roles
      BY <2>3 DEF OpenSession, ReadRoles, LogApplied, GrantWorker, LogDecided, Fail, tables
    <3> QED BY <1>0, <3>1 DEF Typed
  <2> QED BY <2>1, <2>2, <2>3
<1>3. \/ Answer(t)
      \/ \E step \in {"revoke", "session", "insert"} :
           Go(t, step) /\ pc[t] \in {"grant", "revoke", "roles"}
      \/ pc[t] = "role" /\ Go(t, "commit")
  BY DEF GrantAtLogin, RevokeCustomer, OpenSession, ReadRoles, LogApplied,
         GrantWorker, LogDecided, Fail
<1>4. Typed'
  BY <1>0, <1>1, <1>2, <1>3, StepTyped DEF Steps
<1>5. \A s \in Task : Deciding(s)' => Deciding(s) /\ req'[s] = req[s]
  BY <1>0, <1>3 DEF Typed, Answer, Go, Deciding
<1> QED BY <1>1, <1>2, <1>4, <1>5, NothingDecided

LEMMA BeginKeeps ==
  ASSUME VerifyInv, NEW t \in Task, NEW r \in Request, Begin(t, r)
  PROVE  VerifyInv'
<1>1. UNCHANGED tables /\ pc' = [pc EXCEPT ![t] = Entry[r.kind]] /\ req' = [req EXCEPT ![t] = r]
  BY DEF Begin
<1>2. /\ Entry[r.kind] \in Steps \ {"role", "commit"}
      /\ Entry[r.kind] \in {"grant", "roles", "attach"} => r.by \in User
      /\ Entry[r.kind] = "attach" => r.part \in Part
      /\ Entry[r.kind] = "lock" => r.app \in DOMAIN apps /\ r.approve \in BOOLEAN
      /\ Entry[r.kind] \in {"grant", "roles", "attach", "lock"}
  BY DEF Begin, Entitled, Entry, Request, Steps
<1>3. Typed'
  BY <1>1, <1>2 DEF VerifyInv, Typed, tables
<1>4. \A s \in Task : Deciding(s)' => Deciding(s) /\ req'[s] = req[s]
  BY <1>1, <1>2 DEF VerifyInv, Typed, Deciding
<1> QED BY <1>1, <1>3, <1>4, NothingDecided DEF tables

\* A document goes to a pending application and leaves its status alone.
LEMMA AttachKeeps ==
  ASSUME VerifyInv, NEW t \in Task, AttachKyc(t)
  PROVE  /\ VerifyInv'
         /\ \A i \in DOMAIN apps : ~Pending(i) => apps'[i] = apps[i]
<1>0. Typed /\ apps \in Seq(Application)
  BY DEF VerifyInv, Typed
<1> DEFINE u == req[t].by
           attached(i) == [apps[i] EXCEPT !.kyc = @ \cup {req[t].part}]
           new(i) == IF i \in Attachable(u) THEN attached(i) ELSE apps[i]
<1>1. apps' = [i \in DOMAIN apps |-> new(i)] /\ UNCHANGED <<roles, members, staff>>
  BY DEF AttachKyc
<1>2. req[t].part \in Part
  BY <1>0 DEF Typed, AttachKyc
<1>3. ASSUME NEW i \in DOMAIN apps
      PROVE  /\ new(i) \in Application /\ new(i).user = apps[i].user
             /\ new(i).status = apps[i].status
             /\ ~Pending(i) => new(i) = apps[i]
  <2>1. apps[i] \in Application
    BY <1>0
  <2>2. /\ attached(i) \in Application /\ attached(i).user = apps[i].user
        /\ attached(i).status = apps[i].status
    BY <1>2, <2>1 DEF Application
  <2> HIDE DEF attached
  <2> QED BY <2>1, <2>2 DEF Attachable
<1> HIDE DEF new
<1>4. /\ DOMAIN apps' = DOMAIN apps /\ apps' \in Seq(Application)
      /\ \A i \in DOMAIN apps : apps'[i] = new(i)
  BY <1>0, <1>1, <1>3
<1>5. Answer(t)
  BY DEF AttachKyc
<1>6. Typed'
  BY <1>0, <1>1, <1>4, <1>5 DEF Typed, Answer, Steps
<1>7. \A s \in Task : Deciding(s)' => Deciding(s) /\ req'[s] = req[s]
  BY <1>0, <1>5 DEF Typed, Answer, Deciding
<1>8. VerifyInv'
  BY <1>1, <1>3, <1>4, <1>6, <1>7, NothingDecided
<1> QED BY <1>3, <1>4, <1>8

\* An application is added only for a user who has none pending; the decisions
\* under way are about other applications.
LEMMA InsertKeeps ==
  ASSUME VerifyInv, NEW t \in Task, InsertApplication(t)
  PROVE  /\ VerifyInv'
         /\ \A i \in DOMAIN apps : apps'[i] = apps[i]
<1>0. Typed /\ apps \in Seq(Application) /\ roles' = roles
  BY DEF VerifyInv, Typed, InsertApplication
<1>1. req[t].by \in User /\ pc[t] = "insert"
  BY <1>0 DEF Typed, InsertApplication
<1>2. CASE HasPending(req[t].by)
  <2>1. Answer(t) /\ apps' = apps
    BY <1>2 DEF InsertApplication
  <2>2. Typed'
    BY <1>0, <2>1, StepTyped DEF Typed
  <2>3. \A s \in Task : Deciding(s)' => Deciding(s) /\ req'[s] = req[s]
    BY <1>0, <2>1 DEF Typed, Answer, Deciding
  <2> QED BY <1>0, <2>1, <2>2, <2>3, NothingDecided
<1>3. CASE ~HasPending(req[t].by)
  <2> DEFINE new == NewApplication(req[t].by)
             n == Len(apps) + 1
  <2>1. new \in Application /\ new.user = req[t].by /\ new.status = "pending"
    BY <1>1 DEF NewApplication, Application
  <2>2. apps' = Append(apps, new)
    BY <1>3 DEF InsertApplication
  <2> HIDE DEF new
  <2>3. /\ apps' \in Seq(Application) /\ DOMAIN apps = 1..Len(apps)
        /\ DOMAIN apps' = 1..n /\ n \in Nat \ {0} /\ apps'[n] = new
        /\ \A i \in DOMAIN apps : apps'[i] = apps[i]
    BY <1>0, <2>1, <2>2
  <2>4. /\ pc' = [pc EXCEPT ![t] = "applied"]
        /\ req' = [req EXCEPT ![t] = [kind |-> "applied", app |-> n]]
    BY <1>3 DEF InsertApplication
  <2> HIDE DEF n
  <2>5. DOMAIN apps' = DOMAIN apps \cup {n} /\ n \notin DOMAIN apps
    BY <1>0, <2>3 DEF n
  <2>6. Typed'
    BY <1>0, <2>3, <2>4, <2>5 DEF Typed, Steps
  <2>7. \A s \in Task : Deciding(s)' => Deciding(s) /\ req'[s] = req[s]
    BY <1>0, <2>4 DEF Typed, Deciding
  <2>8. Locks'
    <3>1. \A s \in Task : Deciding(s) => req[s].app \in DOMAIN apps
      BY <1>0 DEF Typed, Deciding
    <3> QED BY <2>3, <2>7, <3>1 DEF VerifyInv, Locks, Pending
  <2>9. WorkerIffApproved'
    <3> SUFFICES ASSUME NEW u \in User
                 PROVE  "worker" \in roles'[u] <=>
                          \E i \in DOMAIN apps' : apps'[i].user = u /\ apps'[i].status = "approved"
      BY DEF WorkerIffApproved, AppsOf
    <3>1. "worker" \in roles[u] <=>
            \E i \in DOMAIN apps : apps[i].user = u /\ apps[i].status = "approved"
      BY DEF VerifyInv, WorkerIffApproved, AppsOf
    <3> QED BY <1>0, <2>1, <2>3, <2>5, <3>1
  <2>10. OnePending'
    <3>1. \A i \in DOMAIN apps : Pending(i) => apps[i].user # req[t].by
      BY <1>3 DEF HasPending, AppsOf
    <3> QED BY <2>1, <2>3, <2>5, <3>1 DEF VerifyInv, OnePending, Pending
  <2> QED BY <2>3, <2>6, <2>8, <2>9, <2>10 DEF VerifyInv
<1> QED BY <1>2, <1>3

\* The UPDATE locks a pending application that no other decision has locked.
LEMMA LockKeeps ==
  ASSUME VerifyInv, NEW t \in Task, LockApplication(t)
  PROVE  VerifyInv'
<1>0. Typed /\ UNCHANGED tables /\ pc[t] = "lock"
  BY DEF VerifyInv, LockApplication
<1>1. Answer(t) \/ \E step \in {"role", "commit"} : Go(t, step)
  BY DEF LockApplication
<1>2. Typed'
  BY <1>0, <1>1, StepTyped DEF Typed, tables
<1>3. CASE Answer(t)
  <2>1. \A s \in Task : Deciding(s)' => Deciding(s) /\ req'[s] = req[s]
    BY <1>0, <1>3 DEF Typed, Answer, Deciding
  <2> QED BY <1>0, <1>2, <2>1, NothingDecided DEF tables
<1>4. CASE ~Answer(t)
  <2>1. Pending(req[t].app) /\ ~Locked(req[t].app) /\ req' = req
    BY <1>4 DEF LockApplication, Decidable, Go
  <2>2. \A s \in Task : Deciding(s)' => Deciding(s) \/ s = t
    BY <1>0, <1>1, <1>4 DEF Typed, Go, Deciding
  <2>3. \A s \in Task : Deciding(s) => req[s].app # req[t].app
    BY <2>1 DEF Locked, Deciding
  <2>4. Locks'
    BY <1>0, <2>1, <2>2, <2>3 DEF VerifyInv, Locks, Pending, tables
  <2> QED BY <1>0, <1>2, <2>4
          DEF VerifyInv, WorkerIffApproved, OnePending, AppsOf, Pending, tables
<1> QED BY <1>3, <1>4

\* The COMMIT turns the application it has locked into a decided one.
LEMMA CommitKeeps ==
  ASSUME VerifyInv, NEW t \in Task, CommitDecision(t)
  PROVE  /\ VerifyInv'
         /\ \A i \in DOMAIN apps : ~Pending(i) => apps'[i] = apps[i]
<1> DEFINE n == req[t].app
           new == [apps[n] EXCEPT !.status = Verdict(req[t].approve)]
<1>0. Typed /\ apps \in Seq(Application)
  BY DEF VerifyInv, Typed
<1>1. /\ pc[t] = "commit" /\ n \in DOMAIN apps /\ req[t].approve \in BOOLEAN
      /\ apps[n].status = "pending" /\ req' = req /\ pc' = [pc EXCEPT ![t] = "decided"]
  BY <1>0 DEF VerifyInv, Typed, Locks, Deciding, Pending, CommitDecision, Go
<1>2. apps[n] \in Application
  BY <1>0, <1>1
<1>3. /\ new \in Application /\ new.user = apps[n].user
      /\ new.status = Verdict(req[t].approve)
      /\ new.status \in {"approved", "rejected"}
      /\ new.status = "approved" <=> req[t].approve
  BY <1>1, <1>2 DEF Application, Verdict
<1>4. apps' = [apps EXCEPT ![n] = new]
  BY DEF CommitDecision
<1>5. /\ roles' \in [User -> SUBSET Role]
      /\ \A u \in User : "worker" \in roles'[u] <=>
           "worker" \in roles[u] \/ (req[t].approve /\ u = apps[n].user)
  <2>1. apps[n].user \in User
    BY <1>2 DEF Application
  <2>2. CASE req[t].approve
    <3>1. roles' = [roles EXCEPT ![apps[n].user] = @ \cup {"worker"}]
      BY <2>2 DEF CommitDecision, Gains
    <3> HIDE DEF n
    <3> QED BY <1>0, <2>1, <2>2, <3>1 DEF Typed, Role
  <2>3. CASE ~req[t].approve
    BY <1>0, <2>3 DEF CommitDecision, Typed
  <2> QED BY <2>2, <2>3
<1> HIDE DEF n, new
<1>6. /\ apps' \in Seq(Application) /\ DOMAIN apps' = DOMAIN apps /\ apps'[n] = new
      /\ \A i \in DOMAIN apps : i # n => apps'[i] = apps[i]
  BY <1>0, <1>1, <1>3, <1>4
<1>7. Typed'
  BY <1>0, <1>1, <1>5, <1>6 DEF Typed, Steps
<1>8. Locks'
  <2>1. \A s \in Task : Deciding(s)' => Deciding(s) /\ s # t
    BY <1>0, <1>1 DEF Typed, Deciding
  <2>2. \A s \in Task : Deciding(s) /\ s # t => req[s].app # n /\ req[s].app \in DOMAIN apps
    BY <1>0, <1>1 DEF VerifyInv, Locks, Deciding, n, Typed
  <2> QED BY <1>1, <1>6, <2>1, <2>2 DEF VerifyInv, Locks, Pending
<1>9. WorkerIffApproved'
  <2> SUFFICES ASSUME NEW u \in User
               PROVE  "worker" \in roles'[u] <=>
                        \E i \in DOMAIN apps' : apps'[i].user = u /\ apps'[i].status = "approved"
    BY DEF WorkerIffApproved, AppsOf
  <2>1. "worker" \in roles[u] <=>
          \E i \in DOMAIN apps : apps[i].user = u /\ apps[i].status = "approved"
    BY DEF VerifyInv, WorkerIffApproved, AppsOf
  <2> QED BY <1>1, <1>3, <1>5, <1>6, <2>1
<1>10. OnePending'
  BY <1>3, <1>6 DEF VerifyInv, OnePending, Pending
<1>11. \A i \in DOMAIN apps : ~Pending(i) => apps'[i] = apps[i]
  BY <1>1, <1>6 DEF Pending
<1> QED BY <1>7, <1>8, <1>9, <1>10, <1>11 DEF VerifyInv

\* A restart loses every task and nothing else.
LEMMA RestartKeeps ==
  ASSUME VerifyInv, Restart
  PROVE  VerifyInv'
<1>1. UNCHANGED tables /\ pc' = [t \in Task |-> "idle"] /\ req' = [t \in Task |-> NoRequest]
  BY DEF Restart
<1>2. Typed'
  BY <1>1 DEF VerifyInv, Typed, Steps, tables
<1>3. \A s \in Task : ~Deciding(s)'
  BY <1>1 DEF Deciding
<1> QED BY <1>1, <1>2, <1>3, NothingDecided DEF tables

-----------------------------------------------------------------------------
\* VerifyInv is inductive, and no step changes a decided application.
LEMMA VerifyInductive ==
  ASSUME VerifyInv, [Next]_vars
  PROVE  /\ VerifyInv'
         /\ \A i \in DOMAIN apps : ~Pending(i) => apps'[i] = apps[i]
<1>1. ASSUME NEW t \in Task, NEW r \in Request, Begin(t, r)
      PROVE  VerifyInv' /\ apps' = apps
  BY <1>1, BeginKeeps DEF Begin, tables
<1>2. ASSUME NEW t \in Task,
             \/ GrantAtLogin(t) \/ RevokeCustomer(t) \/ OpenSession(t)
             \/ ReadRoles(t) \/ LogApplied(t) \/ GrantWorker(t) \/ LogDecided(t)
             \/ Fail(t)
      PROVE  VerifyInv' /\ apps' = apps
  <2>1. apps' = apps
    BY <1>2 DEF GrantAtLogin, RevokeCustomer, OpenSession, ReadRoles, LogApplied,
                GrantWorker, LogDecided, Fail, tables
  <2> QED BY <1>2, <2>1, QuietSteps
<1>3. ASSUME NEW t \in Task,
             InsertApplication(t) \/ AttachKyc(t) \/ CommitDecision(t)
      PROVE  /\ VerifyInv'
             /\ \A i \in DOMAIN apps : ~Pending(i) => apps'[i] = apps[i]
  BY <1>3, InsertKeeps, AttachKeeps, CommitKeeps
<1>4. ASSUME NEW t \in Task, LockApplication(t)
      PROVE  VerifyInv' /\ apps' = apps
  BY <1>4, LockKeeps DEF LockApplication, tables
<1>5. CASE Restart
  BY <1>5, RestartKeeps DEF Restart, tables
<1>6. CASE UNCHANGED vars
  <2>1. UNCHANGED <<roles, apps, pc, req>>
    BY <1>6 DEF vars, tables
  <2>2. Typed'
    BY <2>1 DEF VerifyInv, Typed
  <2>3. \A s \in Task : Deciding(s)' => Deciding(s)
    BY <2>1 DEF Deciding
  <2> QED BY <2>1, <2>2, <2>3, NothingDecided
<1> QED BY <1>1, <1>2, <1>3, <1>4, <1>5, <1>6 DEF Next, Serve

LEMMA VerifyInitially == Init => VerifyInv
<1> SUFFICES ASSUME Init PROVE VerifyInv
  OBVIOUS
<1>1. Typed
  BY DEF Init, Typed, Steps
<1>2. Locks /\ WorkerIffApproved /\ OnePending
  BY DEF Init, Locks, Deciding, WorkerIffApproved, OnePending, AppsOf
<1> QED BY <1>1, <1>2 DEF VerifyInv

THEOREM VerifyInvariant == Spec => []VerifyInv
BY VerifyInitially, VerifyInductive, PTL DEF Spec

\* "the role can never exist without a decided application behind it": users
\* are workers exactly when one of their applications was approved.
THEOREM WorkersAreApproved == Spec => []WorkerIffApproved
<1>1. VerifyInv => WorkerIffApproved
  BY DEF VerifyInv
<1> QED BY <1>1, VerifyInvariant, PTL

\* "one live application per user".
THEOREM OneLiveApplication == Spec => []OnePending
<1>1. VerifyInv => OnePending
  BY DEF VerifyInv
<1> QED BY <1>1, VerifyInvariant, PTL

\* What has been decided is neither decided again nor edited.
THEOREM DecisionsAreFinal == Spec => DecidedIsFrozen
<1>1. ASSUME VerifyInv, [Next]_vars
      PROVE  [\A i \in DOMAIN apps : ~Pending(i) => apps'[i] = apps[i]]_vars
  BY <1>1, VerifyInductive
<1> QED BY <1>1, VerifyInvariant, PTL DEF Spec, DecidedIsFrozen

-----------------------------------------------------------------------------
(* The audit rows of decisions *)

\* A decision that is over, on file and audited or about to be.
Settled(i, approve) == i \in DOMAIN apps /\ apps[i].status = Verdict(approve)

AuditInv ==
  /\ \A a \in audit, approve \in BOOLEAN :
       a[1] = DecisionEvent(approve) => Settled(a[2], approve)
  /\ \A t \in Task :
       pc[t] = "decided" => req[t].approve \in BOOLEAN /\ Settled(req[t].app, req[t].approve)

LEMMA SettledForGood ==
  ASSUME VerifyInv, [Next]_vars, NEW i, NEW approve \in BOOLEAN, Settled(i, approve)
  PROVE  Settled(i, approve)'
<1>1. apps \in Seq(Application)
  BY DEF VerifyInv, Typed
<1>2. i \in DOMAIN apps'
  <2>1. ASSUME NEW t \in Task, InsertApplication(t)
        PROVE  i \in DOMAIN apps'
    <3>1. CASE apps' = apps
      BY <3>1 DEF Settled
    <3>2. CASE apps' = Append(apps, NewApplication(req[t].by))
      BY <1>1, <3>2 DEF Settled
    <3> QED BY <2>1, <3>1, <3>2 DEF InsertApplication
  <2>2. ASSUME NEW t \in Task, AttachKyc(t) \/ CommitDecision(t)
        PROVE  i \in DOMAIN apps'
    BY <2>2 DEF AttachKyc, CommitDecision, Settled
  <2>3. ASSUME apps' = apps
        PROVE  i \in DOMAIN apps'
    BY <2>3 DEF Settled
  <2> QED BY <2>1, <2>2, <2>3
          DEF Next, Serve, Begin, Fail, Restart, GrantAtLogin, RevokeCustomer, OpenSession,
              ReadRoles, LogApplied, LockApplication, GrantWorker, LogDecided, tables, vars
<1>3. apps'[i] = apps[i]
  <2>1. ~Pending(i)
    BY DEF Settled, Pending, Verdict
  <2> QED BY <2>1, VerifyInductive DEF Settled
<1> QED BY <1>2, <1>3 DEF Settled

\* A step of task t that decides nothing: it logs no decision, and no task
\* comes to have decided.
LEMMA NothingAudited ==
  ASSUME VerifyInv, AuditInv, [Next]_vars,
         \A a \in audit' : a \in audit \/ a[1] = "worker.applied",
         \A t \in Task : pc'[t] = "decided" => pc[t] = "decided" /\ req'[t] = req[t]
  PROVE  AuditInv'
<1>1. ASSUME NEW a \in audit', NEW approve \in BOOLEAN, a[1] = DecisionEvent(approve)
      PROVE  Settled(a[2], approve)'
  <2>1. a \in audit
    BY <1>1 DEF DecisionEvent
  <2>2. Settled(a[2], approve)
    BY <1>1, <2>1 DEF AuditInv
  <2> QED BY <2>2, SettledForGood
<1>2. ASSUME NEW t \in Task, pc'[t] = "decided"
      PROVE  req'[t].approve \in BOOLEAN /\ Settled(req[t].app, req[t].approve)'
  <2>1. /\ req'[t] = req[t] /\ req[t].approve \in BOOLEAN
        /\ Settled(req[t].app, req[t].approve)
    BY <1>2 DEF AuditInv
  <2>2. \A i, approve : approve \in BOOLEAN /\ Settled(i, approve) => Settled(i, approve)'
    BY SettledForGood
  <2> QED BY <2>1, <2>2 DEF Settled
<1> QED BY <1>1, <1>2 DEF AuditInv, Settled

LEMMA AuditNext ==
  ASSUME VerifyInv, AuditInv, [Next]_vars
  PROVE  AuditInv'
<1>0. Typed
  BY DEF VerifyInv
<1>1. ASSUME NEW t \in Task, NEW r \in Request, Begin(t, r)
      PROVE  AuditInv'
  <2>1. Entry[r.kind] # "decided"
    BY DEF Entry, Request
  <2> QED BY <1>0, <1>1, <2>1, NothingAudited DEF Begin, Typed
<1>2. ASSUME NEW t \in Task,
             \/ GrantAtLogin(t) \/ RevokeCustomer(t) \/ OpenSession(t)
             \/ ReadRoles(t) \/ InsertApplication(t) \/ AttachKyc(t)
             \/ LockApplication(t) \/ GrantWorker(t) \/ LogApplied(t) \/ Fail(t)
      PROVE  AuditInv'
  <2>1. \A a \in audit' : a \in audit \/ a[1] = "worker.applied"
    BY <1>2 DEF GrantAtLogin, RevokeCustomer, OpenSession, ReadRoles, InsertApplication,
                AttachKyc, LockApplication, GrantWorker, LogApplied, Fail
  <2>2. /\ pc'[t] # "decided"
        /\ \A s \in Task : s # t => pc'[s] = pc[s] /\ req'[s] = req[s]
    BY <1>0, <1>2 DEF GrantAtLogin, RevokeCustomer, OpenSession, ReadRoles, InsertApplication,
                AttachKyc, LockApplication, GrantWorker, LogApplied, Fail, Go, Answer, Typed
  <2> QED BY <2>1, <2>2, NothingAudited
<1>3. ASSUME NEW t \in Task, CommitDecision(t)
      PROVE  AuditInv'
  <2>1. /\ audit' = audit /\ req' = req /\ pc' = [pc EXCEPT ![t] = "decided"]
        /\ req[t].app \in DOMAIN apps /\ req[t].approve \in BOOLEAN
        /\ apps' = [apps EXCEPT ![req[t].app].status = Verdict(req[t].approve)]
    BY <1>0, <1>3 DEF CommitDecision, Go, Typed
  <2>2. apps[req[t].app] \in Application
    BY <1>0, <2>1 DEF Typed
  <2>3. apps'[req[t].app].status = Verdict(req[t].approve) /\ req[t].app \in DOMAIN apps'
    BY <1>0, <2>1, <2>2 DEF Typed, Application
  <2>4. \A i, approve : approve \in BOOLEAN /\ Settled(i, approve) => Settled(i, approve)'
    BY SettledForGood
  <2>5. \A a \in audit, approve \in BOOLEAN :
          a[1] = DecisionEvent(approve) => Settled(a[2], approve)'
    BY <2>4 DEF AuditInv
  <2>6. \A s \in Task : s # t /\ pc'[s] = "decided" =>
          req[s].approve \in BOOLEAN /\ Settled(req[s].app, req[s].approve)'
    BY <1>0, <2>1, <2>4 DEF AuditInv, Typed, Settled
  <2>7. req[t].approve \in BOOLEAN /\ Settled(req[t].app, req[t].approve)'
    BY <2>1, <2>3 DEF Settled
  <2> QED BY <2>1, <2>5, <2>6, <2>7 DEF AuditInv, Settled
<1>4. ASSUME NEW t \in Task, LogDecided(t)
      PROVE  AuditInv'
  <2>1. /\ audit' = audit \cup {<<DecisionEvent(req[t].approve), req[t].app>>}
        /\ apps' = apps /\ pc[t] = "decided"
        /\ pc' = [pc EXCEPT ![t] = "idle"] /\ req' = [req EXCEPT ![t] = NoRequest]
    BY <1>4 DEF LogDecided, Answer, tables
  <2>2. req[t].approve \in BOOLEAN /\ Settled(req[t].app, req[t].approve)
    BY <2>1 DEF AuditInv
  <2>3. \A approve \in BOOLEAN :
          DecisionEvent(req[t].approve) = DecisionEvent(approve) => req[t].approve = approve
    BY <2>2 DEF DecisionEvent
  <2>4. ASSUME NEW a \in audit', NEW approve \in BOOLEAN, a[1] = DecisionEvent(approve)
        PROVE  Settled(a[2], approve)
    <3>1. CASE a \in audit
      BY <2>4, <3>1 DEF AuditInv
    <3>2. CASE a = <<DecisionEvent(req[t].approve), req[t].app>>
      BY <2>2, <2>3, <2>4, <3>2
    <3> QED BY <2>1, <3>1, <3>2
  <2>5. \A s \in Task : pc'[s] = "decided" => pc[s] = "decided" /\ req'[s] = req[s]
    BY <1>0, <2>1 DEF Typed
  <2> QED BY <2>1, <2>4, <2>5 DEF AuditInv, Settled
<1>5. CASE Restart
  BY <1>5, NothingAudited DEF Restart
<1>6. CASE UNCHANGED vars
  BY <1>6, NothingAudited DEF vars
<1> QED BY <1>1, <1>2, <1>3, <1>4, <1>5, <1>6 DEF Next, Serve

\* An audited decision is the decision on file: two admins who decide at once
\* never both appear to have decided.
THEOREM DecisionsAreAudited == Spec => []AuditMatches
<1>1. Init => AuditInv
  BY DEF Init, AuditInv
<1>2. AuditInv => AuditMatches
  BY DEF AuditInv, AuditMatches, Settled
<1> QED BY <1>1, <1>2, AuditNext, VerifyInvariant, PTL DEF Spec

-----------------------------------------------------------------------------
(* Who administers *)

\* A login of an admin phone grants before it revokes, and nothing gives back
\* what it has revoked: other logins of the phone know it as an admin's too.
LoginInv ==
  /\ \A t \in Task : pc[t] = "revoke" => req[t].by \in staff /\ "admin" \in roles[req[t].by]
  /\ StaffAreNotCustomers

\* Before a restart only the phones of the staff administer, and they do from
\* their first login on; so none of them gets past ReadRoles.
SeparationInv ==
  restarts = 0 =>
    /\ \A u \in User : "admin" \in roles[u] => u \in staff
    /\ \A u \in User : u \in members /\ u \in staff => "admin" \in roles[u]
    /\ \A t \in Task : pc[t] = "roles" => req[t].by \in members
    /\ \A t \in Task : pc[t] = "insert" => req[t].by \notin staff
    /\ \A i \in DOMAIN apps : apps[i].user \notin staff
    /\ \A u \in User : "worker" \in roles[u] => u \notin staff

RolesInv == restarts \in Nat /\ LoginInv /\ SeparationInv

\* A step of task t that changes no role and leads to no login's end keeps the
\* invariant if it respects what is asked of an application.
LEMMA RolesKept ==
  ASSUME Typed, RolesInv, NEW t \in Task, UNCHANGED <<roles, members, staff, restarts>>,
         \A s \in Task : s # t => pc'[s] = pc[s] /\ req'[s] = req[s],
         pc'[t] \notin {"revoke", "session"},
         pc'[t] = "roles" => req'[t].by \in members,
         restarts = 0 /\ pc'[t] = "insert" => req'[t].by \notin staff,
         restarts = 0 => \A i \in DOMAIN apps' : apps'[i].user \notin staff
  PROVE  RolesInv'
<1>1. LoginInv'
  BY DEF RolesInv, LoginInv, StaffAreNotCustomers
<1>2. SeparationInv'
  BY DEF RolesInv, SeparationInv
<1> QED BY <1>1, <1>2 DEF RolesInv

LEMMA LoginSteps ==
  ASSUME VerifyInv, RolesInv, NEW t \in Task,
         GrantAtLogin(t) \/ RevokeCustomer(t) \/ OpenSession(t)
  PROVE  RolesInv'
<1> DEFINE u == req[t].by
<1>0. Typed /\ UNCHANGED <<apps, staff, restarts>>
  BY DEF VerifyInv, GrantAtLogin, RevokeCustomer, OpenSession
<1>1. u \in User /\ roles \in [User -> SUBSET Role]
  BY <1>0 DEF Typed, GrantAtLogin, RevokeCustomer, OpenSession
<1>2. ASSUME NEW s \in Task, pc[s] \in {"revoke", "session", "roles", "insert"}
      PROVE  req[s].by \in User
  BY <1>0, <1>2 DEF Typed
<1>3. CASE GrantAtLogin(t)
  <2>1. CASE u \in staff
    <3>1. /\ roles' = [roles EXCEPT ![u] = @ \cup {"admin"}] /\ members' = members
          /\ pc' = [pc EXCEPT ![t] = "revoke"] /\ req' = req
      BY <1>3, <2>1 DEF GrantAtLogin, Gains, Go
    <3>2. LoginInv'
      BY <1>0, <1>1, <1>2, <2>1, <3>1 DEF RolesInv, LoginInv, StaffAreNotCustomers, Typed
    <3>3. SeparationInv'
      BY <1>0, <1>1, <1>2, <2>1, <3>1 DEF RolesInv, SeparationInv, Typed
    <3> QED BY <1>0, <3>2, <3>3 DEF RolesInv
  <2>2. CASE u \notin staff
    <3>1. /\ roles' = [roles EXCEPT ![u] = @ \cup {"customer"}] /\ members' = members
          /\ pc' = [pc EXCEPT ![t] = "session"] /\ req' = req
      BY <1>3, <2>2 DEF GrantAtLogin, Gains, Go
    <3>2. LoginInv'
      BY <1>0, <1>1, <1>2, <2>2, <3>1 DEF RolesInv, LoginInv, StaffAreNotCustomers, Typed
    <3>3. SeparationInv'
      BY <1>0, <1>1, <1>2, <2>2, <3>1 DEF RolesInv, SeparationInv, Typed
    <3> QED BY <1>0, <3>2, <3>3 DEF RolesInv
  <2> QED BY <2>1, <2>2
<1>4. CASE RevokeCustomer(t)
  <2>1. /\ roles' = [roles EXCEPT ![u] = @ \ {"customer"}] /\ members' = members
        /\ pc[t] = "revoke" /\ pc' = [pc EXCEPT ![t] = "session"] /\ req' = req
    BY <1>4 DEF RevokeCustomer, Go
  <2>2. LoginInv'
    BY <1>0, <1>1, <1>2, <2>1 DEF RolesInv, LoginInv, StaffAreNotCustomers, Typed
  <2>3. SeparationInv'
    BY <1>0, <1>1, <1>2, <2>1 DEF RolesInv, SeparationInv, Typed
  <2> QED BY <1>0, <2>2, <2>3 DEF RolesInv
<1>5. CASE OpenSession(t)
  <2>1. /\ roles' = roles /\ members' = members \cup {u} /\ pc[t] = "session"
        /\ pc' = [pc EXCEPT ![t] = "idle"] /\ req' = [req EXCEPT ![t] = NoRequest]
    BY <1>5 DEF OpenSession, Answer
  <2>2. u \in staff => "admin" \in roles[u]
    BY <2>1 DEF RolesInv, LoginInv, StaffAreNotCustomers
  <2>3. LoginInv'
    BY <1>0, <2>1 DEF RolesInv, LoginInv, StaffAreNotCustomers, Typed
  <2>4. SeparationInv'
    BY <1>0, <2>1, <2>2 DEF RolesInv, SeparationInv, Typed
  <2> QED BY <1>0, <2>3, <2>4 DEF RolesInv
<1> QED BY <1>3, <1>4, <1>5

LEMMA ApplySteps ==
  ASSUME VerifyInv, RolesInv, NEW t \in Task,
         ReadRoles(t) \/ InsertApplication(t) \/ AttachKyc(t)
  PROVE  RolesInv'
<1>0. /\ Typed /\ UNCHANGED <<roles, members, staff, restarts>>
      /\ apps \in Seq(Application)
      /\ restarts = 0 => \A i \in DOMAIN apps : apps[i].user \notin staff
  BY DEF VerifyInv, RolesInv, SeparationInv, Typed, ReadRoles, InsertApplication, AttachKyc, tables
<1>1. \A s \in Task : s # t => pc'[s] = pc[s] /\ req'[s] = req[s]
  BY <1>0 DEF Typed, ReadRoles, InsertApplication, AttachKyc, Go, Answer
<1>2. CASE ReadRoles(t)
  <2>1. pc'[t] \in {"idle", "insert"} /\ apps' = apps /\ pc[t] = "roles"
    BY <1>0, <1>2 DEF ReadRoles, Go, Answer, Typed, tables
  <2>2. restarts = 0 /\ pc'[t] = "insert" => req'[t].by \notin staff
    <3>1. pc'[t] = "insert" => req' = req /\ "admin" \notin roles[req[t].by]
      BY <1>0, <1>2 DEF ReadRoles, Go, Answer, Typed
    <3>2. req[t].by \in User
      BY <1>0, <2>1 DEF Typed
    <3> QED BY <2>1, <3>1, <3>2 DEF RolesInv, SeparationInv
  <2> QED BY <1>0, <1>1, <2>1, <2>2, RolesKept
<1>3. CASE InsertApplication(t)
  <2>1. pc'[t] \in {"idle", "applied"} /\ pc[t] = "insert"
    BY <1>0, <1>3 DEF InsertApplication, Answer, Typed
  <2>2. restarts = 0 => \A i \in DOMAIN apps' : apps'[i].user \notin staff
    <3>1. CASE apps' = apps
      BY <1>0, <3>1
    <3>2. CASE apps' = Append(apps, NewApplication(req[t].by))
      <4>1. restarts = 0 => NewApplication(req[t].by).user \notin staff
        BY <2>1 DEF RolesInv, SeparationInv, NewApplication
      <4> HIDE DEF NewApplication
      <4> QED BY <1>0, <3>2, <4>1
    <3> QED BY <1>3, <3>1, <3>2 DEF InsertApplication
  <2> QED BY <1>0, <1>1, <2>1, <2>2, RolesKept
<1>4. CASE AttachKyc(t)
  <2>1. pc'[t] = "idle"
    BY <1>0, <1>4 DEF AttachKyc, Answer, Typed
  <2>2. DOMAIN apps' = DOMAIN apps /\ \A i \in DOMAIN apps : apps'[i].user = apps[i].user
    <3>1. \A i \in DOMAIN apps : apps[i] \in Application
      BY <1>0
    <3> QED BY <1>4, <3>1 DEF AttachKyc, Application
  <2> QED BY <1>0, <1>1, <2>1, <2>2, RolesKept
<1> QED BY <1>2, <1>3, <1>4

LEMMA DecideSteps ==
  ASSUME VerifyInv, RolesInv, NEW t \in Task, CommitDecision(t)
  PROVE  RolesInv'
<1> DEFINE n == req[t].app
           w == apps[n].user
<1>0. Typed /\ apps \in Seq(Application) /\ UNCHANGED <<members, staff, restarts>>
  BY DEF VerifyInv, Typed, CommitDecision
<1>1. /\ pc[t] = "commit" /\ n \in DOMAIN apps
      /\ req' = req /\ pc' = [pc EXCEPT ![t] = "decided"]
  BY <1>0 DEF CommitDecision, Go, Typed
<1>2. apps[n] \in Application /\ w \in User
  <2>1. apps[n] \in Application
    BY <1>0, <1>1
  <2> QED BY <2>1 DEF Application
<1>3. DOMAIN apps' = DOMAIN apps /\ \A i \in DOMAIN apps : apps'[i].user = apps[i].user
  BY <1>0, <1>1, <1>2 DEF CommitDecision, Application
<1>4. restarts = 0 => w \notin staff
  BY <1>1 DEF RolesInv, SeparationInv
<1>5. \A u \in User : /\ "admin" \in roles'[u] <=> "admin" \in roles[u]
                      /\ "customer" \in roles'[u] <=> "customer" \in roles[u]
                      /\ "worker" \in roles'[u] => "worker" \in roles[u] \/ u = w
  <2>1. roles' = roles \/ roles' = [roles EXCEPT ![w] = @ \cup {"worker"}]
    BY DEF CommitDecision, Gains
  <2> QED BY <1>0, <1>2, <2>1 DEF Typed
<1> HIDE DEF n, w
<1>6. LoginInv'
  <2>1. \A s \in Task : pc[s] \in {"revoke", "session"} => req[s].by \in User
    BY <1>0 DEF Typed
  <2> QED BY <1>0, <1>1, <1>5, <2>1 DEF RolesInv, LoginInv, StaffAreNotCustomers, Typed
<1>7. SeparationInv'
  <2>1. restarts = 0 => \A i \in DOMAIN apps' : apps'[i].user \notin staff
    BY <1>3 DEF RolesInv, SeparationInv
  <2> QED BY <1>0, <1>1, <1>4, <1>5, <2>1 DEF RolesInv, SeparationInv, Typed
<1> QED BY <1>0, <1>6, <1>7 DEF RolesInv

LEMMA RolesNext ==
  ASSUME VerifyInv, RolesInv, [Next]_vars
  PROVE  RolesInv'
<1>0. Typed
  BY DEF VerifyInv
<1>1. ASSUME NEW t \in Task, NEW r \in Request, Begin(t, r)
      PROVE  RolesInv'
  <2>1. /\ UNCHANGED <<roles, members, apps, staff, restarts>>
        /\ pc' = [pc EXCEPT ![t] = Entry[r.kind]] /\ req' = [req EXCEPT ![t] = r]
    BY <1>1 DEF Begin, tables
  <2>2. /\ Entry[r.kind] \notin {"revoke", "session", "insert"}
        /\ Entry[r.kind] = "roles" => r.by \in members
    BY <1>1 DEF Begin, Entitled, Entry, Request
  <2>3. restarts = 0 => \A i \in DOMAIN apps' : apps'[i].user \notin staff
    BY <2>1 DEF RolesInv, SeparationInv
  <2> QED BY <1>0, <2>1, <2>2, <2>3, RolesKept DEF Typed
<1>2. ASSUME NEW t \in Task,
             LogApplied(t) \/ LockApplication(t) \/ GrantWorker(t) \/ LogDecided(t) \/ Fail(t)
      PROVE  RolesInv'
  <2>1. /\ UNCHANGED <<roles, members, apps, staff, restarts>>
        /\ pc'[t] \in {"idle", "role", "commit"}
        /\ \A s \in Task : s # t => pc'[s] = pc[s] /\ req'[s] = req[s]
    BY <1>0, <1>2 DEF LogApplied, LockApplication, GrantWorker, LogDecided, Fail, Go, Answer,
                      Typed, tables
  <2>2. restarts = 0 => \A i \in DOMAIN apps' : apps'[i].user \notin staff
    BY <2>1 DEF RolesInv, SeparationInv
  <2> QED BY <1>0, <2>1, <2>2, RolesKept
<1>3. CASE Restart
  <2>1. /\ restarts' = restarts + 1 /\ \A t \in Task : pc'[t] = "idle"
    BY <1>3 DEF Restart
  <2>2. restarts' # 0
    BY <2>1 DEF RolesInv
  <2> QED BY <2>1, <2>2 DEF RolesInv, LoginInv, StaffAreNotCustomers, SeparationInv
<1>4. CASE UNCHANGED vars
  BY <1>4 DEF vars, tables, RolesInv, LoginInv, StaffAreNotCustomers, SeparationInv
<1> QED BY <1>1, <1>2, <1>3, <1>4, LoginSteps, ApplySteps, DecideSteps DEF Next, Serve

LEMMA RolesInitially == Init => RolesInv
BY DEF Init, RolesInv, LoginInv, StaffAreNotCustomers, SeparationInv

\* A login of an admin phone ends with the admin role and without the
\* customer's, whatever logins of the phone run at the same time.
THEOREM StaffNeverCustomers == Spec => []StaffAreNotCustomers
<1>1. RolesInv => StaffAreNotCustomers
  BY DEF RolesInv, LoginInv
<1> QED BY <1>1, RolesInitially, RolesNext, VerifyInvariant, PTL DEF Spec

\* As long as ADMIN_PHONES stays as it is, no admin comes to be a worker.
THEOREM DutiesAreSeparate == Spec => []SeparationNeedsRestart
<1>1. RolesInv => SeparationNeedsRestart
  BY DEF RolesInv, SeparationInv, SeparationNeedsRestart
<1> QED BY <1>1, RolesInitially, RolesNext, VerifyInvariant, PTL DEF Spec

-----------------------------------------------------------------------------
(* The other types *)

Events == {"worker.applied", DecisionEvent(TRUE), DecisionEvent(FALSE)}

\* Who applies has a session, and a task logs about an application on file.
FiledInv ==
  /\ members \subseteq User /\ staff \in AdminPhones
  /\ failures \in 0..MaxFailures /\ restarts \in 0..MaxRestarts
  /\ audit \subseteq Events \X DOMAIN apps
  /\ \A i \in DOMAIN apps : apps[i].user \in members
  /\ \A t \in Task :
       /\ req[t] \in Request \cup {NoRequest} \cup [kind : {"applied"}, app : DOMAIN apps]
       /\ pc[t] \in {"roles", "insert"} => req[t].by \in members
       /\ pc[t] = "applied" => req[t].app \in DOMAIN apps

\* Room is left for the applications under way.
RoomInv == IsFiniteSet(Applying) /\ Len(apps) + Cardinality(Applying) <= MaxApps

LEMMA SameLength ==
  ASSUME NEW m \in Nat, NEW n \in Nat, 1..m = 1..n
  PROVE  m = n
<1>1. CASE m = 0 \/ n = 0
  BY <1>1
<1>2. CASE m # 0 /\ n # 0
  <2>1. m \in 1..m /\ n \in 1..n
    BY <1>2
  <2> QED BY <2>1
<1> QED BY <1>1, <1>2

\* The applications are those there were, of the same users, or one is added.
LEMMA AppsGrow ==
  ASSUME VerifyInv, [Next]_vars
  PROVE  \/ /\ Len(apps') = Len(apps)
            /\ \A i \in DOMAIN apps : apps'[i].user = apps[i].user
         \/ \E t \in Task :
              /\ InsertApplication(t) /\ pc[t] = "insert" /\ pc'[t] = "applied"
              /\ apps' = Append(apps, NewApplication(req[t].by))
<1>0. /\ apps \in Seq(Application) /\ apps' \in Seq(Application)
      /\ Len(apps) \in Nat /\ Len(apps') \in Nat
      /\ DOMAIN apps = 1..Len(apps) /\ DOMAIN apps' = 1..Len(apps')
  BY VerifyInductive DEF VerifyInv, Typed
<1>1. ASSUME NEW t \in Task, AttachKyc(t) \/ CommitDecision(t)
      PROVE  DOMAIN apps' = DOMAIN apps /\ \A i \in DOMAIN apps : apps'[i].user = apps[i].user
  <2>0. \A i \in DOMAIN apps : apps[i] \in Application
    BY <1>0
  <2>1. CASE AttachKyc(t)
    BY <2>0, <2>1 DEF AttachKyc, Application
  <2>2. CASE CommitDecision(t)
    BY <2>0, <2>2 DEF CommitDecision, Application
  <2> QED BY <1>1, <2>1, <2>2
<1>2. ASSUME NEW t \in Task, InsertApplication(t)
      PROVE  \/ apps' = apps
             \/ /\ pc[t] = "insert" /\ pc'[t] = "applied"
                /\ apps' = Append(apps, NewApplication(req[t].by))
  BY <1>2 DEF InsertApplication, VerifyInv, Typed
<1>3. ASSUME DOMAIN apps' = DOMAIN apps PROVE Len(apps') = Len(apps)
  BY <1>0, <1>3, SameLength
<1> QED BY <1>1, <1>2, <1>3 DEF Next, Serve, Begin, Fail, Restart, GrantAtLogin, RevokeCustomer,
          OpenSession, ReadRoles, LogApplied, LockApplication, GrantWorker, LogDecided, tables, vars

LEMMA FiledNext ==
  ASSUME VerifyInv, AuditInv, FiledInv, [Next]_vars
  PROVE  FiledInv'
<1>0. Typed /\ Typed' /\ DOMAIN apps = 1..Len(apps) /\ DOMAIN apps' = 1..Len(apps') /\ Len(apps) \in Nat
  BY VerifyInductive DEF VerifyInv, Typed
<1>1. DOMAIN apps \subseteq DOMAIN apps'
  <2>1. CASE Len(apps') = Len(apps)
    BY <1>0, <2>1
  <2>2. ASSUME NEW t \in Task, apps' = Append(apps, NewApplication(req[t].by))
        PROVE  DOMAIN apps \subseteq DOMAIN apps'
    BY <1>0, <2>2 DEF Typed
  <2> QED BY <2>1, <2>2, AppsGrow
<1>2. members \subseteq members' /\ members' \subseteq User
  <2>1. ASSUME NEW t \in Task, OpenSession(t)
        PROVE  members \subseteq members' /\ members' \subseteq User
    BY <1>0, <2>1 DEF OpenSession, Typed, FiledInv
  <2> QED BY <2>1 DEF FiledInv, Next, Serve, Begin, Fail, Restart, GrantAtLogin, RevokeCustomer,
          InsertApplication, AttachKyc, CommitDecision, ReadRoles, LogApplied, LockApplication, GrantWorker, LogDecided,
          tables, vars
<1>3. /\ staff' \in AdminPhones
      /\ failures' \in 0..MaxFailures /\ restarts' \in 0..MaxRestarts
  <2>1. ASSUME NEW t \in Task, (\E r \in Request : Begin(t, r)) \/ Serve(t)
        PROVE  UNCHANGED <<staff, failures, restarts>>
    BY <2>1 DEF Serve, Begin, GrantAtLogin, RevokeCustomer, OpenSession, InsertApplication,
          AttachKyc, CommitDecision, ReadRoles, LogApplied, LockApplication, GrantWorker, LogDecided
  <2>2. ASSUME NEW t \in Task, Fail(t)
        PROVE  UNCHANGED <<staff, restarts>> /\ failures' \in 0..MaxFailures
    BY <2>2 DEF Fail, FiledInv
  <2>3. CASE Restart
    BY <2>3 DEF Restart, FiledInv
  <2> QED BY <2>1, <2>2, <2>3 DEF FiledInv, Next, vars
<1>4. \A i \in DOMAIN apps' : apps'[i].user \in members'
  <2>1. CASE Len(apps') = Len(apps) /\ \A i \in DOMAIN apps : apps'[i].user = apps[i].user
    BY <1>0, <1>2, <2>1 DEF FiledInv
  <2>2. ASSUME NEW t \in Task, pc[t] = "insert", apps' = Append(apps, NewApplication(req[t].by))
        PROVE  \A i \in DOMAIN apps' : apps'[i].user \in members'
    <3>1. /\ \A i \in DOMAIN apps : apps'[i] = apps[i]
          /\ apps'[Len(apps) + 1] = NewApplication(req[t].by)
          /\ DOMAIN apps' = DOMAIN apps \cup {Len(apps) + 1}
      BY <1>0, <2>2 DEF Typed
    <3>2. req[t].by \in members
      BY <2>2 DEF FiledInv
    <3> QED BY <1>2, <3>1, <3>2 DEF FiledInv, NewApplication
  <2> QED BY <2>1, <2>2, AppsGrow
<1>5. audit' \subseteq Events \X DOMAIN apps'
  <2>1. ASSUME NEW t \in Task, LogApplied(t)
        PROVE  audit' \subseteq Events \X DOMAIN apps'
    <3>1. req[t].app \in DOMAIN apps /\ audit' = audit \cup {<<"worker.applied", req[t].app>>}
      BY <2>1 DEF LogApplied, FiledInv
    <3>2. "worker.applied" \in Events /\ audit \subseteq Events \X DOMAIN apps
      BY DEF FiledInv, Events
    <3> QED BY <1>1, <3>1, <3>2
  <2>2. ASSUME NEW t \in Task, LogDecided(t)
        PROVE  audit' \subseteq Events \X DOMAIN apps'
    <3>1. req[t].approve \in BOOLEAN /\ req[t].app \in DOMAIN apps
      BY <2>2 DEF LogDecided, AuditInv, Settled
    <3>2. DecisionEvent(req[t].approve) \in Events
      BY <3>1 DEF Events
    <3> QED BY <1>1, <2>2, <3>1, <3>2 DEF LogDecided, FiledInv
  <2>3. audit' = audit => audit' \subseteq Events \X DOMAIN apps'
    BY <1>1 DEF FiledInv
  <2> QED BY <2>1, <2>2, <2>3 DEF Next, Serve, Begin, Fail, Restart, GrantAtLogin, RevokeCustomer,
          InsertApplication, AttachKyc, CommitDecision, ReadRoles, LockApplication, GrantWorker,
          OpenSession, vars
<1>6. ASSUME NEW s \in Task
      PROVE  /\ req'[s] \in Request \cup {NoRequest} \cup [kind : {"applied"}, app : DOMAIN apps']
             /\ pc'[s] \in {"roles", "insert"} => req'[s].by \in members'
             /\ pc'[s] = "applied" => req'[s].app \in DOMAIN apps'
  <2>1. CASE pc'[s] = pc[s] /\ req'[s] = req[s]
    BY <1>1, <1>2, <2>1 DEF FiledInv
  <2>2. CASE pc'[s] = "idle" /\ req'[s] = NoRequest
    BY <2>2
  <2>3. ASSUME NEW r \in Request, Begin(s, r)
        PROVE  /\ req'[s] = r /\ pc'[s] # "insert" /\ pc'[s] # "applied"
               /\ pc'[s] = "roles" => r.by \in members'
    BY <1>0, <1>2, <2>3 DEF Begin, Entry, Entitled, Request, Typed
  <2>4. CASE req'[s] = req[s] /\ pc'[s] \notin {"roles", "insert", "applied"}
    BY <1>1, <2>4 DEF FiledInv
  <2>5. CASE ReadRoles(s)
    BY <1>0, <1>1, <1>2, <2>2, <2>5 DEF ReadRoles, Go, Answer, FiledInv, Typed
  <2>6. CASE InsertApplication(s) /\ pc'[s] # "idle"
    <3>1. /\ pc'[s] = "applied" /\ req'[s] = [kind |-> "applied", app |-> Len(apps) + 1]
          /\ apps' = Append(apps, NewApplication(req[s].by))
      BY <1>0, <2>6 DEF InsertApplication, Answer, Typed
    <3>2. Len(apps) + 1 \in DOMAIN apps'
      BY <1>0, <3>1 DEF Typed
    <3> QED BY <3>1, <3>2
  <2>7. ASSUME NEW t \in Task, t # s,
               (\E r \in Request : Begin(t, r)) \/ Serve(t) \/ Fail(t)
        PROVE  pc'[s] = pc[s] /\ req'[s] = req[s]
    BY <1>0, <2>7 DEF Serve, Begin, Fail, GrantAtLogin, RevokeCustomer,
          InsertApplication, AttachKyc, CommitDecision, ReadRoles, LogApplied, LockApplication, GrantWorker, LogDecided,
          OpenSession, Go, Answer, Typed
  <2>8. CASE Restart
    BY <2>8 DEF Restart
  <2>9. ASSUME Serve(s) \/ Fail(s), ~ReadRoles(s), ~(InsertApplication(s) /\ pc'[s] # "idle")
        PROVE  \/ pc'[s] = "idle" /\ req'[s] = NoRequest
               \/ req'[s] = req[s] /\ pc'[s] \notin {"roles", "insert", "applied"}
    BY <1>0, <2>9 DEF Serve, Fail, GrantAtLogin, RevokeCustomer,
          InsertApplication, AttachKyc, CommitDecision, LogApplied, LockApplication, GrantWorker, LogDecided,
          OpenSession, Go, Answer, Typed
  <2>10. CASE UNCHANGED vars
    BY <2>1, <2>10 DEF vars
  <2> QED BY <2>1, <2>2, <2>3, <2>4, <2>5, <2>6, <2>7, <2>8, <2>9, <2>10 DEF Next
<1> QED BY <1>2, <1>3, <1>4, <1>5, <1>6 DEF FiledInv

\* Tasks stop applying, but for one that begins to while there is room.
LEMMA RoomNext ==
  ASSUME VerifyInv, RoomInv, [Next]_vars
  PROVE  RoomInv'
<1>0. Typed /\ Len(apps) \in Nat /\ Cardinality(Applying) \in Nat
  BY FS_CardinalityType DEF VerifyInv, Typed, RoomInv
<1>1. ASSUME Applying' \subseteq Applying, Len(apps') = Len(apps)
      PROVE  RoomInv'
  BY <1>0, <1>1, FS_Subset, FS_CardinalityType DEF RoomInv
<1>2. ASSUME NEW t \in Task, NEW r \in Request, Begin(t, r)
      PROVE  RoomInv'
  <2>1. CASE r.kind = "apply"
    <3>1. Applying' = Applying \cup {t} /\ t \notin Applying
      BY <1>0, <1>2, <2>1 DEF Begin, Entry, Applying, Typed
    <3>2. IsFiniteSet(Applying') /\ Cardinality(Applying') = Cardinality(Applying) + 1
      BY <3>1, FS_AddElement DEF RoomInv
    <3>3. apps' = apps /\ Len(apps) + Cardinality(Applying) < MaxApps
      BY <1>2, <2>1 DEF Begin, tables
    <3> QED BY <1>0, <3>2, <3>3 DEF RoomInv
  <2>2. CASE r.kind # "apply"
    <3>1. Applying' \subseteq Applying /\ apps' = apps
      BY <1>0, <1>2, <2>2 DEF Begin, Entry, Applying, Typed, Request, tables
    <3> QED BY <1>1, <3>1
  <2> QED BY <2>1, <2>2
<1>3. ASSUME ~(\E t \in Task, r \in Request : Begin(t, r))
      PROVE  Applying' \subseteq Applying
  <2>1. ASSUME NEW t \in Task, Serve(t) \/ Fail(t)
        PROVE  Applying' \subseteq Applying
    <3>1. \A s \in Task : s # t => pc'[s] = pc[s]
      BY <1>0, <2>1 DEF Serve, Fail, GrantAtLogin, RevokeCustomer,
          InsertApplication, AttachKyc, CommitDecision, ReadRoles, LogApplied, LockApplication, GrantWorker, LogDecided,
          OpenSession, Go, Answer, Typed
    <3>2. pc'[t] \in {"roles", "insert"} => pc[t] \in {"roles", "insert"}
      BY <1>0, <2>1 DEF Serve, Fail, GrantAtLogin, RevokeCustomer,
          InsertApplication, AttachKyc, CommitDecision, ReadRoles, LogApplied, LockApplication, GrantWorker, LogDecided,
          OpenSession, Go, Answer, Typed
    <3> QED BY <3>1, <3>2 DEF Applying
  <2>2. CASE Restart
    BY <2>2 DEF Restart, Applying
  <2>3. CASE UNCHANGED vars
    BY <2>3 DEF vars, Applying
  <2> QED BY <1>3, <2>1, <2>2, <2>3 DEF Next
<1>4. ASSUME NEW t \in Task, pc[t] = "insert", pc'[t] = "applied",
             apps' = Append(apps, NewApplication(req[t].by)), Applying' \subseteq Applying
      PROVE  RoomInv'
  <2>1. Applying' \subseteq Applying \ {t} /\ t \in Applying
    BY <1>4 DEF Applying
  <2>2. /\ IsFiniteSet(Applying \ {t})
        /\ Cardinality(Applying \ {t}) = Cardinality(Applying) - 1
    BY <2>1, FS_RemoveElement DEF RoomInv
  <2>3. IsFiniteSet(Applying') /\ Cardinality(Applying') <= Cardinality(Applying) - 1
        /\ Cardinality(Applying') \in Nat
    BY <2>1, <2>2, FS_Subset, FS_CardinalityType
  <2>4. Len(apps') = Len(apps) + 1
    BY <1>0, <1>4 DEF Typed
  <2> QED BY <1>0, <2>3, <2>4 DEF RoomInv
<1> QED BY <1>1, <1>2, <1>3, <1>4, AppsGrow

LEMMA FiledInitially == Init => FiledInv /\ RoomInv
<1> SUFFICES ASSUME Init PROVE FiledInv /\ RoomInv
  OBVIOUS
<1>1. FiledInv
  BY DEF Init, FiledInv
<1>2. Applying = {}
  BY DEF Init, Applying
<1>3. IsFiniteSet(Applying) /\ Cardinality(Applying) = 0
  BY <1>2, FS_EmptySet
<1> QED BY <1>1, <1>3 DEF Init, RoomInv

\* Every variable holds a value of its type, and only members apply.
THEOREM VerificationTypes == Spec => []TypeOK
<1>1. ASSUME VerifyInv, FiledInv, RoomInv PROVE TypeOK
  <2>1. Cardinality(Applying) \in Nat /\ Len(apps) \in Nat
    BY <1>1, FS_CardinalityType DEF RoomInv, VerifyInv, Typed
  <2>2. Len(apps) <= MaxApps
    BY <1>1, <2>1 DEF RoomInv
  <2> QED BY <1>1, <2>2 DEF VerifyInv, Typed, FiledInv, TypeOK, Events
<1>2. Init => AuditInv
  BY DEF Init, AuditInv
<1> QED BY <1>1, <1>2, FiledInitially, FiledNext, RoomNext, AuditNext, VerifyInvariant, PTL
        DEF Spec
=============================================================================
