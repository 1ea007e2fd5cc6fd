------------------------------- MODULE Sessions -------------------------------
(***************************************************************************)
(* The sessions of one account on the server: login, refresh, logout, and  *)
(* an admin who blocks and unblocks the user (backend/src/api/auth.rs,     *)
(* api/admin.rs, infra/db/sessions.rs, infra/db/users.rs).  A handler is a *)
(* sequence of statements, each of them atomic; between two of them any    *)
(* other call runs, a token expires, or the call is lost.  A login starts  *)
(* here where its code was accepted (see LoginOtp); the roles it grants    *)
(* are in WorkerVerification.  The audit rows are left out: failing to     *)
(* write one is failing between the statements around it.                  *)
(***************************************************************************)
EXTENDS Naturals, FiniteSets

CONSTANTS
  Call,        \* calls that run at the same time
  MayAsk,      \* bound: MayAsk[c], the kinds of request call c is used for
  Session,     \* bound: the rows of the table sessions
  Token,       \* refresh tokens; the table stores their hashes
  Mint,        \* Mint[s]: the tokens session s can have
  None,
  MaxOthers,   \* bound: calls that block, unblock or log out everywhere
  MaxFailures  \* bound: calls and answers lost

ASSUME SessionAssumption ==
  /\ None \notin Session \cup Token
  /\ Mint \in [Session -> SUBSET Token]
  /\ IsFiniteSet(Session)
  /\ MaxOthers \in Nat /\ MaxFailures \in Nat

VARIABLES
  account,   \* the user's row
  hash,      \* hash[s]: the refresh token of session s, None before the row is there
  dead,      \* sessions revoked or expired
  valid,     \* sessions for which an access token that has not expired was issued
  pc,        \* pc[c]: the next statement of call c, "ok" or "failed" once answered
  req,       \* req[c]: what call c asks and what it has read
  swept,     \* history: the sessions were revoked since the account was blocked
  past,      \* history: the logins that were past the check when it was blocked
  slipped,   \* history: the sessions those logins opened
  others, failures

rows == <<account, hash, dead>>
calls == <<pc, req>>
history == <<swept, past, slipped>>
bounds == <<others, failures>>
serverVars == <<rows, valid, calls, history, bounds>>

-----------------------------------------------------------------------------
Request(kind, s, k) == [kind |-> kind, session |-> s, token |-> k]
NoRequest == Request("none", None, None)
LoginRequest == Request("login", None, None)
RefreshRequest(k) == Request("refresh", None, k)
LogoutRequest(s, all) == Request(IF all THEN "logout all" ELSE "logout", s, None)
BlockRequest(blocked) == Request(IF blocked THEN "block" ELSE "unblock", None, None)

Kinds == {"login", "refresh", "logout", "logout all", "block", "unblock"}
First(kind) == CASE kind = "login" -> "find"
                 [] kind = "refresh" -> "rotate"
                 [] kind \in {"logout", "logout all"} -> "authorize"
                 [] kind = "block" -> "mark"
                 [] kind = "unblock" -> "unmark"

Unused == {s \in Session : hash[s] = None}
Live == {s \in Session : hash[s] # None} \ dead

ServerInit ==
  /\ account = "absent"
  /\ hash = [s \in Session |-> None]
  /\ dead = {} /\ valid = {}
  /\ pc = [c \in Call |-> "idle"]
  /\ req = [c \in Call |-> NoRequest]
  /\ swept = FALSE /\ past = {} /\ slipped = {}
  /\ others = 0 /\ failures = 0

Go(c, step) == pc' = [pc EXCEPT ![c] = step] /\ UNCHANGED req

Rare == {"logout all", "block", "unblock"}

\* A login arrives only while a row is left for it.
Begin(c, r) ==
  /\ pc[c] = "idle"
  /\ r.kind = "login" =>
       Cardinality(Unused) > Cardinality({d \in Call : pc[d] \in {"find", "create", "open"}})
  /\ r.kind \in Rare => others < MaxOthers
  /\ others' = IF r.kind \in Rare THEN others + 1 ELSE others
  /\ pc' = [pc EXCEPT ![c] = First(r.kind)]
  /\ req' = [req EXCEPT ![c] = r]
  /\ UNCHANGED <<rows, valid, history, failures>>

-----------------------------------------------------------------------------
(* Login *)

\* Operators with a capitalised suffix are faulty variants of the definition
\* that follows them.  No action uses them: they stand in for it to show that
\* the properties notice the fault.

Find_Unchecked(c) ==
  /\ pc[c] = "find"
  /\ Go(c, IF account = "absent" THEN "create" ELSE "open")
  /\ UNCHANGED <<rows, valid, history, bounds>>

\* SELECT by phone; a blocked user gets no further.
Find(c) ==
  /\ pc[c] = "find"
  /\ Go(c, CASE account = "absent" -> "create"
             [] account = "open" -> "open"
             [] account = "blocked" -> "failed")
  /\ UNCHANGED <<rows, valid, history, bounds>>

\* INSERT of the user: an error when another first login was faster.
Create(c) ==
  /\ pc[c] = "create"
  /\ account' = IF account = "absent" THEN "open" ELSE account
  /\ Go(c, IF account = "absent" THEN "open" ELSE "failed")
  /\ UNCHANGED <<hash, dead, valid, history, bounds>>

\* sessions::create, with a random id and a random token.
Open(c, K) ==
  LET s == CHOOSE r \in Unused : TRUE IN
  /\ pc[c] = "open" /\ Unused # {}
  /\ \E k \in K[s] : /\ hash' = [hash EXCEPT ![s] = k]
                    /\ pc' = [pc EXCEPT ![c] = "issue"]
                    /\ req' = [req EXCEPT ![c].session = s, ![c].token = k]
  /\ slipped' = IF c \in past THEN slipped \cup {s} ELSE slipped
  /\ past' = past \ {c}
  /\ UNCHANGED <<account, dead, valid, swept, bounds>>

\* issue_tokens: the answer carries an access token for the session.
Issue(c) ==
  /\ pc[c] = "issue"
  /\ valid' = valid \cup {req[c].session}
  /\ Go(c, "ok")
  /\ UNCHANGED <<rows, history, bounds>>

-----------------------------------------------------------------------------
(* Refresh and logout *)

\* rotate: one UPDATE finds the session by its token and replaces the token.
Rotate(c, K) ==
  LET Found == {s \in Live : hash[s] = req[c].token} IN
  /\ pc[c] = "rotate"
  /\ \/ Found = {} /\ Go(c, "failed") /\ UNCHANGED hash
     \/ \E s \in Found : \E k \in K[s] :
          /\ hash' = [hash EXCEPT ![s] = k]
          /\ pc' = [pc EXCEPT ![c] = "user"]
          /\ req' = [req EXCEPT ![c].session = s, ![c].token = k]
  /\ UNCHANGED <<account, dead, valid, history, bounds>>

User_Unchecked(c) ==
  /\ pc[c] = "user"
  /\ Go(c, "issue")
  /\ UNCHANGED <<rows, valid, history, bounds>>

\* A session opened behind the block's back ends here.
User(c) ==
  /\ pc[c] = "user"
  /\ Go(c, IF account = "blocked" THEN "failed" ELSE "issue")
  /\ UNCHANGED <<rows, valid, history, bounds>>

\* CurrentUser reads the access token alone, never the session.  The token
\* may have expired though a later one of its session has not.
Authorize(c) ==
  /\ pc[c] = "authorize"
  /\ \/ req[c].session \in valid /\ Go(c, "revoke")
     \/ Go(c, "failed")
  /\ UNCHANGED <<rows, valid, history, bounds>>

\* revoke, revoke_all
Revoke(c) ==
  /\ pc[c] = "revoke"
  /\ dead' = dead \cup (IF req[c].kind = "logout" THEN {req[c].session} ELSE Live)
  /\ Go(c, "ok")
  /\ UNCHANGED <<account, hash, valid, history, bounds>>

-----------------------------------------------------------------------------
(* Blocking: two statements, no transaction *)

Mark(c) ==
  /\ pc[c] = "mark"
  /\ \/ account = "absent" /\ Go(c, "failed") /\ UNCHANGED <<account, swept, past>>
     \/ /\ account # "absent"
        /\ account' = "blocked"
        /\ Go(c, "sweep")
        /\ swept' = (account = "blocked" /\ swept)
        /\ past' = IF account = "open" THEN {d \in Call : pc[d] = "open"} ELSE past
  /\ UNCHANGED <<hash, dead, valid, slipped, bounds>>

Sweep_Expired(c) ==
  /\ pc[c] = "sweep"
  /\ dead' = dead \cup (Live \ valid)
  /\ swept' = (account = "blocked")
  /\ Go(c, "ok")
  /\ UNCHANGED <<account, hash, valid, past, slipped, bounds>>

\* "Blocking also kills every session": those there are when this runs.
Sweep(c) ==
  /\ pc[c] = "sweep"
  /\ dead' = dead \cup Live
  /\ swept' = (account = "blocked")
  /\ Go(c, "ok")
  /\ UNCHANGED <<account, hash, valid, past, slipped, bounds>>

Unmark(c) ==
  /\ pc[c] = "unmark"
  /\ \/ account = "absent" /\ Go(c, "failed") /\ UNCHANGED <<account, swept>>
     \/ account # "absent" /\ account' = "open" /\ swept' = FALSE /\ Go(c, "ok")
  /\ UNCHANGED <<hash, dead, valid, past, slipped, bounds>>

\* A new token of session s is one of K[s].
Serve(c, K) ==
  \/ Find(c) \/ Create(c) \/ Open(c, K) \/ Issue(c) \/ Rotate(c, K)
  \/ User(c) \/ Authorize(c) \/ Revoke(c)
  \/ Mark(c) \/ Sweep(c) \/ Unmark(c)

-----------------------------------------------------------------------------
(* Around the handlers *)

\* The caller has its answer, or has given up on it.
Leave(c) ==
  /\ pc' = [pc EXCEPT ![c] = "idle"]
  /\ req' = [req EXCEPT ![c] = NoRequest]
  /\ past' = past \ {c}
  /\ UNCHANGED <<rows, valid, swept, slipped, bounds>>

\* The server is killed, the database fails or the answer is lost: the
\* caller sees an error, whatever was stored by then.
Fail(c) ==
  /\ pc[c] \notin {"idle", "failed"}
  /\ failures < MaxFailures
  /\ failures' = failures + 1
  /\ Go(c, "failed")
  /\ past' = past \ {c}
  /\ UNCHANGED <<rows, valid, swept, slipped, others>>

\* The access tokens of session s expire.
Lapse(s) ==
  /\ s \in valid
  /\ valid' = valid \ {s}
  /\ UNCHANGED <<rows, calls, history, bounds>>

\* expires_at of session s passes.
Expire(s) ==
  /\ s \in Live
  /\ dead' = dead \cup {s}
  /\ UNCHANGED <<account, hash, valid, calls, history, bounds>>

-----------------------------------------------------------------------------
(* The server alone, called by anybody with any token *)

\* A random token is none of those in use; which one it is does not matter.
Fresh(inUse) ==
  LET free == [s \in Session |-> Mint[s] \ inUse] IN
  [s \in Session |-> IF free[s] = {} THEN {} ELSE {CHOOSE k \in free[s] : TRUE}]

InUse == {hash[s] : s \in Session} \cup {req[c].token : c \in Call}

AnyRequest ==
  {LoginRequest} \cup {RefreshRequest(k) : k \in Token}
    \cup {LogoutRequest(s, all) : s \in Session, all \in BOOLEAN}
    \cup {BlockRequest(b) : b \in BOOLEAN}

ServerNext ==
  \/ \E c \in Call :
       \/ \E r \in AnyRequest : r.kind \in MayAsk[c] /\ Begin(c, r)
       \/ Serve(c, Fresh(InUse)) \/ Leave(c) \/ Fail(c)
  \/ \E s \in Session : Lapse(s) \/ Expire(s)

ServerSpec == ServerInit /\ [][ServerNext]_serverVars

\* Calls are answered and access tokens expire.
FairServerSpec ==
  /\ ServerSpec
  /\ \A c \in Call : WF_serverVars(Serve(c, Fresh(InUse)))
  /\ \A s \in Session : WF_serverVars(Lapse(s))

-----------------------------------------------------------------------------
(* Properties *)

Steps == {"idle", "find", "create", "open", "issue", "rotate", "user",
          "authorize", "revoke", "mark", "sweep", "unmark", "ok", "failed"}

\* Every variable of the server holds a value of its type.
ServerTypeOK ==
  /\ account \in {"absent", "open", "blocked"}
  /\ hash \in [Session -> Token \cup {None}]
  /\ dead \subseteq Session /\ valid \subseteq Session
  /\ pc \in [Call -> Steps]
  /\ req \in [Call -> [kind : Kinds \cup {"none"}, session : Session \cup {None}, token : Token \cup {None}]]
  /\ swept \in BOOLEAN /\ past \subseteq Call /\ slipped \subseteq Session
  /\ others \in 0..MaxOthers /\ failures \in 0..MaxFailures

\* "Blocking also kills every session": marking the user and revoking the
\* sessions are two statements, and a login is several, and yet a session that
\* lives on once both ran was opened by a login that was past the check
\* already when the user was marked.
BlockedSessionsSlippedIn == account = "blocked" /\ swept => Live \subseteq slipped

\* "... so access tokens die at refresh": while the user stays blocked, the
\* access tokens run out for good, those of the sessions that slipped in too.
BlockedDieOut == <>[](account = "blocked") => <>[](valid = {})
=============================================================================
