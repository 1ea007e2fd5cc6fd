--------------------------- MODULE MobileAuthProofs ---------------------------
(***************************************************************************)
(* First the sessions of the server alone, called by anybody: the types,   *)
(* and that a session which outlives the blocking of its user was opened   *)
(* by a login that was past the check already.  Then the devices composed  *)
(* with them: a device is left behind the server only where the app was    *)
(* killed, for any number of devices, sessions, calls and kills.           *)
(***************************************************************************)
EXTENDS MobileAuth, FiniteSetTheorems, TLAPS

(***************************************************************************)
(* The server alone.  Its theorems hold for any set of calls and whatever  *)
(* each of them may ask: up to "The devices" only the assumption of        *)
(* Sessions is used, and MobileAssumption is not.                          *)
(***************************************************************************)

USE SessionAssumption

\* Once the user is blocked, who is about to open a session was past the check
\* when that happened: Find lets nobody follow, and Create needs an absent user.
OnlyPastOpen == account = "blocked" => \A c \in Call : pc[c] = "open" => c \in past

\* A call that works on a session knows which: it found or opened it, or its
\* access token names it.
KnownSession == \A c \in Call : pc[c] \in {"user", "issue", "revoke"} => req[c].session \in Session

Typed == ServerTypeOK /\ KnownSession

SessionInv == Typed /\ OnlyPastOpen /\ BlockedSessionsSlippedIn

\* What req holds.
Requested == [kind : Kinds \cup {"none"}, session : Session \cup {None}, token : Token \cup {None}]

-----------------------------------------------------------------------------
LEMMA FreshTyped ==
  ASSUME NEW inUse, NEW s \in Session, NEW k \in Fresh(inUse)[s]
  PROVE  k \in Token /\ k # None
<1> DEFINE free == [r \in Session |-> Mint[r] \ inUse]
<1>1. free[s] # {} /\ k = CHOOSE t \in free[s] : TRUE
  BY DEF Fresh
<1>2. k \in free[s]
  BY <1>1
<1>3. Mint[s] \subseteq Token
  OBVIOUS
<1> QED BY <1>2, <1>3

LEMMA RequestsTyped ==
  ASSUME NEW r \in AnyRequest
  PROVE  /\ r \in [kind : Kinds, session : Session \cup {None}, token : Token \cup {None}]
         /\ First(r.kind) \in {"find", "rotate", "authorize", "mark", "unmark"}
<1>1. CASE r = LoginRequest
  BY <1>1 DEF LoginRequest, Request, Kinds, First
<1>2. CASE \E k \in Token : r = RefreshRequest(k)
  BY <1>2 DEF RefreshRequest, Request, Kinds, First
<1>3. CASE \E s \in Session, all \in BOOLEAN : r = LogoutRequest(s, all)
  <2>1. PICK s \in Session, all \in BOOLEAN : r = LogoutRequest(s, all)
    BY <1>3
  <2>2. CASE all
    BY <2>1, <2>2 DEF LogoutRequest, Request, Kinds, First
  <2>3. CASE ~all
    BY <2>1, <2>3 DEF LogoutRequest, Request, Kinds, First
  <2> QED BY <2>2, <2>3
<1>4. CASE \E b \in BOOLEAN : r = BlockRequest(b)
  BY <1>4 DEF BlockRequest, Request, Kinds, First
<1> QED BY <1>1, <1>2, <1>3, <1>4 DEF AnyRequest

\* The live sessions are those of the rows.
LEMMA LiveSessions ==
  Live = {s \in Session : hash[s] # None /\ s \notin dead}
BY DEF Live

\* A step after which no session lives that did not, and no call is about to
\* open one that was not, keeps what the block promises.
LEMMA NothingOpens ==
  ASSUME SessionInv, Typed',
         account' = account \/ account' = "open",
         account' = "blocked" /\ swept' => swept,
         Live' \subseteq Live, slipped' = slipped,
         \A c \in Call : pc'[c] = "open" /\ account' = "blocked" =>
                           pc[c] = "open" /\ (c \in past => c \in past')
  PROVE  SessionInv'
BY DEF SessionInv, OnlyPastOpen, BlockedSessionsSlippedIn

-----------------------------------------------------------------------------
(* The steps of a call *)

LEMMA BeginStep ==
  ASSUME SessionInv, NEW c \in Call, NEW r \in AnyRequest, Begin(c, r)
  PROVE  SessionInv'
<1>1. Typed'
  <2>1. r \in Requested /\ First(r.kind) \in Steps
    BY RequestsTyped DEF Steps, Requested
  <2>2. others' \in 0..MaxOthers
    BY DEF Begin, SessionInv, Typed, ServerTypeOK, KnownSession
  <2>3. pc' \in [Call -> Steps] /\ req' \in [Call -> Requested]
    BY <2>1 DEF Begin, SessionInv, Typed, ServerTypeOK, Requested
  <2>4. KnownSession'
    BY RequestsTyped DEF Begin, SessionInv, Typed, ServerTypeOK, KnownSession
  <2> QED BY <2>2, <2>3, <2>4
          DEF Begin, SessionInv, Typed, ServerTypeOK, Requested, rows, history
<1>2. Live' = Live
  BY LiveSessions DEF Begin, rows, Live
<1>3. First(r.kind) # "open"
  BY RequestsTyped
<1> QED BY <1>1, <1>2, <1>3, NothingOpens DEF Begin, rows, history, SessionInv, Typed, ServerTypeOK, KnownSession

\* A login goes on to its session only while the user is not blocked.
LEMMA FindStep ==
  ASSUME SessionInv, NEW c \in Call, Find(c) \/ Create(c)
  PROVE  SessionInv'
<1>1. Typed'
  <2>1. CASE Find(c)
    BY <2>1 DEF Find, Go, SessionInv, Typed, ServerTypeOK, KnownSession, Steps, rows, history, bounds
  <2>2. CASE Create(c)
    BY <2>2 DEF Create, Go, SessionInv, Typed, ServerTypeOK, KnownSession, Steps, history, bounds
  <2> QED BY <2>1, <2>2
<1>2. Live' = Live /\ UNCHANGED history
  BY DEF Find, Create, rows, history, Live
<1>3. account' = account \/ account' = "open"
  BY DEF Find, Create, rows
<1>4. account' = "blocked" => pc'[c] = "failed"
  BY DEF Find, Create, Go, rows, SessionInv, Typed, ServerTypeOK, KnownSession
<1>5. \A d \in Call : d # c => pc'[d] = pc[d]
  BY DEF Find, Create, Go, SessionInv, Typed, ServerTypeOK, KnownSession
<1> QED BY <1>1, <1>2, <1>3, <1>4, <1>5, NothingOpens DEF history

\* The session a login opens behind the block's back is noted.
LEMMA OpenStep ==
  ASSUME SessionInv, NEW c \in Call, NEW inUse, Open(c, Fresh(inUse))
  PROVE  SessionInv'
<1>1. PICK s : s = CHOOSE r \in Unused : TRUE
  OBVIOUS
<1>2. s \in Unused
  BY <1>1 DEF Open
<1>3. PICK k \in Fresh(inUse)[s] :
        /\ hash' = [hash EXCEPT ![s] = k]
        /\ pc' = [pc EXCEPT ![c] = "issue"]
        /\ req' = [req EXCEPT ![c].session = s, ![c].token = k]
        /\ slipped' = IF c \in past THEN slipped \cup {s} ELSE slipped
  BY <1>1 DEF Open
<1>4. /\ s \in Session /\ hash[s] = None /\ k \in Token /\ k # None
      /\ past' = past \ {c} /\ pc[c] = "open"
      /\ UNCHANGED <<account, dead, valid, swept, others, failures>>
  BY <1>2, FreshTyped DEF Unused, Open, bounds
<1>5. Typed'
  <2>1. req[c] \in Requested
    BY DEF SessionInv, Typed, ServerTypeOK, Requested
  <2>2. req' = [req EXCEPT ![c] = [req[c] EXCEPT !.session = s, !.token = k]]
    BY <1>3 DEF SessionInv, Typed, ServerTypeOK
  <2>3. req' \in [Call -> Requested]
    BY <1>4, <2>1, <2>2 DEF SessionInv, Typed, ServerTypeOK, Requested
  <2>4. KnownSession'
    BY <1>3, <1>4, <2>1, <2>2 DEF SessionInv, Typed, ServerTypeOK, KnownSession, Requested
  <2>5. pc' \in [Call -> Steps]
    BY <1>3 DEF SessionInv, Typed, ServerTypeOK, Steps
  <2> QED BY <1>3, <1>4, <2>3, <2>4, <2>5 DEF SessionInv, Typed, ServerTypeOK, Requested
<1>6. OnlyPastOpen'
  BY <1>3, <1>4 DEF SessionInv, Typed, ServerTypeOK, KnownSession, OnlyPastOpen
<1>7. Live' \subseteq Live \cup {s}
  BY <1>3, <1>4 DEF Live, SessionInv, Typed, ServerTypeOK, KnownSession
<1>8. account = "blocked" => c \in past
  BY <1>4 DEF SessionInv, OnlyPastOpen
<1>9. BlockedSessionsSlippedIn'
  BY <1>3, <1>4, <1>7, <1>8 DEF SessionInv, BlockedSessionsSlippedIn
<1> QED BY <1>5, <1>6, <1>9 DEF SessionInv

\* A refresh gives a live session another token.
LEMMA RotateStep ==
  ASSUME SessionInv, NEW c \in Call, NEW inUse, Rotate(c, Fresh(inUse))
  PROVE  SessionInv'
<1>1. CASE Go(c, "failed") /\ UNCHANGED hash
  <2>1. Typed'
    BY <1>1 DEF Rotate, Go, SessionInv, Typed, ServerTypeOK, KnownSession, Steps, history, bounds
  <2>2. Live' = Live
    BY <1>1 DEF Rotate, Live
  <2> QED BY <1>1, <2>1, <2>2, NothingOpens
          DEF Rotate, Go, SessionInv, Typed, ServerTypeOK, KnownSession, history
<1>2. CASE \E s \in Live : \E k \in Fresh(inUse)[s] :
             /\ hash' = [hash EXCEPT ![s] = k]
             /\ pc' = [pc EXCEPT ![c] = "user"]
             /\ req' = [req EXCEPT ![c].session = s, ![c].token = k]
  <2>0. PICK s \in Live : \E k \in Fresh(inUse)[s] :
             /\ hash' = [hash EXCEPT ![s] = k]
             /\ pc' = [pc EXCEPT ![c] = "user"]
             /\ req' = [req EXCEPT ![c].session = s, ![c].token = k]
    BY <1>2
  <2>1. PICK k \in Fresh(inUse)[s] :
             /\ hash' = [hash EXCEPT ![s] = k]
             /\ pc' = [pc EXCEPT ![c] = "user"]
             /\ req' = [req EXCEPT ![c].session = s, ![c].token = k]
    BY <2>0
  <2>2. s \in Session /\ s \in Live
    BY DEF Live
  <2>3. k \in Token /\ k # None
    BY <2>2, FreshTyped
  <2>4. UNCHANGED <<account, dead, valid, swept, past, slipped, others, failures>>
    BY DEF Rotate, history, bounds
  <2>5. Typed'
    <3>1. req[c] \in Requested
      BY DEF SessionInv, Typed, ServerTypeOK, Requested
    <3>2. req' = [req EXCEPT ![c] = [req[c] EXCEPT !.session = s, !.token = k]]
      BY <2>1 DEF SessionInv, Typed, ServerTypeOK
    <3>3. req' \in [Call -> Requested]
      BY <2>2, <2>3, <3>1, <3>2 DEF SessionInv, Typed, ServerTypeOK, Requested
    <3>4. KnownSession'
      BY <2>1, <2>2, <3>1, <3>2 DEF SessionInv, Typed, ServerTypeOK, KnownSession, Requested
    <3>5. pc' \in [Call -> Steps]
      BY <2>1 DEF SessionInv, Typed, ServerTypeOK, Steps
    <3> QED BY <2>1, <2>2, <2>3, <2>4, <3>3, <3>4, <3>5
            DEF SessionInv, Typed, ServerTypeOK, Requested
  <2>6. Live' \subseteq Live
    BY <2>1, <2>2, <2>4 DEF Live, SessionInv, Typed, ServerTypeOK, KnownSession
  <2> QED BY <2>1, <2>4, <2>5, <2>6, NothingOpens DEF SessionInv, Typed, ServerTypeOK, KnownSession
<1> QED BY <1>1, <1>2 DEF Rotate

\* The steps that only read, or only end sessions.
LEMMA OtherStep ==
  ASSUME SessionInv, NEW c \in Call,
         Issue(c) \/ User(c) \/ Authorize(c) \/ Revoke(c)
  PROVE  SessionInv'
<1>1. Typed'
  <2> USE DEF Go, SessionInv, Typed, ServerTypeOK, KnownSession, Steps
  <2>1. CASE Issue(c)
    BY <2>1 DEF Issue, rows, history, bounds
  <2>2. CASE User(c)
    BY <2>2 DEF User, rows, history, bounds
  <2>3. CASE Authorize(c)
    BY <2>3 DEF Authorize, rows, history, bounds
  <2>4. CASE Revoke(c)
    BY <2>4 DEF Revoke, Live, history, bounds
  <2> QED BY <2>1, <2>2, <2>3, <2>4
<1>2. Live' \subseteq Live /\ account' = account /\ UNCHANGED history
  BY DEF Issue, User, Authorize, Revoke, rows, Live, history
<1>3. pc'[c] # "open" /\ \A d \in Call : d # c => pc'[d] = pc[d]
  BY DEF Issue, User, Authorize, Revoke, Go, SessionInv, Typed, ServerTypeOK
<1> QED BY <1>1, <1>2, <1>3, NothingOpens DEF history

-----------------------------------------------------------------------------
(* Blocking *)

LEMMA MarkStep ==
  ASSUME SessionInv, NEW c \in Call, Mark(c)
  PROVE  SessionInv'
<1>1. Typed'
  BY DEF Mark, Go, SessionInv, Typed, ServerTypeOK, KnownSession, Steps, bounds
<1>2. Live' = Live /\ slipped' = slipped
  BY DEF Mark, Live
<1>3. \A d \in Call : pc'[d] = "open" => pc[d] = "open"
  BY DEF Mark, Go, SessionInv, Typed, ServerTypeOK, KnownSession
<1>4. OnlyPastOpen'
  BY <1>3 DEF Mark, SessionInv, Typed, ServerTypeOK, KnownSession, OnlyPastOpen
<1>5. BlockedSessionsSlippedIn'
  BY <1>2 DEF Mark, SessionInv, BlockedSessionsSlippedIn
<1> QED BY <1>1, <1>4, <1>5 DEF SessionInv

LEMMA SweepStep ==
  ASSUME SessionInv, NEW c \in Call, Sweep(c)
  PROVE  SessionInv'
<1>1. Typed'
  BY DEF Sweep, Go, SessionInv, Typed, ServerTypeOK, KnownSession, Steps, bounds, Live
<1>2. Live' = {}
  BY DEF Sweep, Live
<1>3. OnlyPastOpen'
  BY DEF Sweep, Go, SessionInv, Typed, ServerTypeOK, KnownSession, OnlyPastOpen
<1> QED BY <1>1, <1>2, <1>3 DEF SessionInv, BlockedSessionsSlippedIn

LEMMA UnmarkStep ==
  ASSUME SessionInv, NEW c \in Call, Unmark(c)
  PROVE  SessionInv'
<1>1. Typed'
  BY DEF Unmark, Go, SessionInv, Typed, ServerTypeOK, KnownSession, Steps, bounds
<1>2. account' # "blocked"
  BY DEF Unmark
<1> QED BY <1>1, <1>2 DEF SessionInv, OnlyPastOpen, BlockedSessionsSlippedIn

LEMMA AroundStep ==
  ASSUME SessionInv,
         \/ \E c \in Call : Leave(c) \/ Fail(c)
         \/ \E s \in Session : Lapse(s) \/ Expire(s)
         \/ UNCHANGED serverVars
  PROVE  SessionInv'
<1>1. ASSUME NEW c \in Call, Leave(c) \/ Fail(c)
      PROVE  SessionInv'
  <2>1. Typed'
    <3>1. CASE Leave(c)
      BY <3>1 DEF Leave, NoRequest, Request, SessionInv, Typed, ServerTypeOK, KnownSession, Steps, rows, bounds
    <3>2. CASE Fail(c)
      BY <3>2 DEF Fail, Go, SessionInv, Typed, ServerTypeOK, KnownSession, Steps, rows
    <3> QED BY <1>1, <3>1, <3>2
  <2>2. Live' = Live
    BY <1>1 DEF Leave, Fail, rows, Live
  <2>3. /\ pc'[c] # "open"
        /\ \A d \in Call : d # c => pc'[d] = pc[d] /\ (d \in past => d \in past')
    BY <1>1 DEF Leave, Fail, Go, SessionInv, Typed, ServerTypeOK, KnownSession
  <2> QED BY <1>1, <2>1, <2>2, <2>3, NothingOpens DEF Leave, Fail, rows
<1>2. ASSUME NEW s \in Session, Lapse(s) \/ Expire(s)
      PROVE  SessionInv'
  <2>1. Typed'
    BY <1>2 DEF Lapse, Expire, rows, calls, history, bounds, SessionInv, Typed, ServerTypeOK, KnownSession
  <2>2. Live' \subseteq Live
    BY <1>2 DEF Lapse, Expire, rows, Live
  <2> QED BY <1>2, <2>1, <2>2, NothingOpens DEF Lapse, Expire, rows, calls, history
<1>3. CASE UNCHANGED serverVars
  BY <1>3 DEF serverVars, rows, calls, history, bounds, SessionInv, Typed, ServerTypeOK, KnownSession,
              OnlyPastOpen, BlockedSessionsSlippedIn, Live
<1> QED BY <1>1, <1>2, <1>3

-----------------------------------------------------------------------------
LEMMA SessionInvInit == ServerInit => SessionInv
<1> SUFFICES ASSUME ServerInit PROVE SessionInv
  OBVIOUS
<1>1. Typed
  <2>1. NoRequest \in Requested /\ NoRequest.kind = "none"
    BY DEF NoRequest, Request, Requested
  <2>2. pc \in [Call -> Steps] /\ req \in [Call -> Requested]
    BY <2>1 DEF ServerInit, Steps
  <2>3. hash \in [Session -> Token \cup {None}]
    BY DEF ServerInit
  <2>4. KnownSession
    BY DEF ServerInit, KnownSession
  <2>5. others \in 0..MaxOthers /\ failures \in 0..MaxFailures
    BY DEF ServerInit
  <2>6. /\ account \in {"absent", "open", "blocked"} /\ dead \subseteq Session
        /\ valid \subseteq Session /\ swept \in BOOLEAN
        /\ past \subseteq Call /\ slipped \subseteq Session
    BY DEF ServerInit
  <2> QED BY <2>2, <2>3, <2>4, <2>5, <2>6 DEF Typed, ServerTypeOK, Requested
<1>2. OnlyPastOpen /\ BlockedSessionsSlippedIn
  BY DEF ServerInit, OnlyPastOpen, BlockedSessionsSlippedIn
<1> QED BY <1>1, <1>2 DEF SessionInv

LEMMA SessionInvNext == SessionInv /\ [ServerNext]_serverVars => SessionInv'
<1> SUFFICES ASSUME SessionInv, [ServerNext]_serverVars PROVE SessionInv'
  OBVIOUS
<1>1. ASSUME NEW c \in Call, Serve(c, Fresh(InUse))
      PROVE  SessionInv'
  BY <1>1, FindStep, OpenStep, RotateStep, OtherStep, MarkStep, SweepStep, UnmarkStep DEF Serve
<1>2. ASSUME NEW c \in Call, NEW r \in AnyRequest, Begin(c, r)
      PROVE  SessionInv'
  BY <1>2, BeginStep
<1> QED BY <1>1, <1>2, AroundStep DEF ServerNext

\* Every variable of the session handlers keeps its type.
THEOREM SessionTypes == ServerSpec => []ServerTypeOK
<1>1. SessionInv => ServerTypeOK
  BY DEF SessionInv, Typed
<1> QED BY SessionInvInit, SessionInvNext, <1>1, PTL DEF ServerSpec

\* Once the user is marked and the sessions are swept, a session that lives on
\* was opened by a login that was past its check before (set_blocked).
THEOREM BlockHolds == ServerSpec => []BlockedSessionsSlippedIn
<1>1. SessionInv => BlockedSessionsSlippedIn
  BY DEF SessionInv
<1> QED BY SessionInvInit, SessionInvNext, <1>1, PTL DEF ServerSpec

-----------------------------------------------------------------------------
(* The devices *)

Front(d) == <<d, "front">>
Refresher(d) == <<d, "refresh">>

\* What the call of a flow may ask, and how far it can be: there is none
\* unless the flow waits for it.
FlowCall(c) ==
  /\ step[c] # "call" => pc[c] = "idle" /\ req[c] = NoRequest
  /\ c[2] = "refresh" =>
       /\ pc[c] \in {"idle", "rotate", "user", "issue", "ok", "failed"}
       /\ pc[c] # "idle" => req[c].kind = "refresh"
  /\ c[2] = "front" =>
       /\ pc[c] \in {"idle", "find", "create", "open", "issue", "authorize", "revoke", "ok", "failed"}
       /\ pc[c] # "idle" => req[c].kind \in {"login", "logout"}
       /\ pc[c] \in {"authorize", "revoke"} => req[c].kind = "logout"

\* The server has given call c tokens that c has not handed over yet.
Given(c) == pc[c] \in {"user", "issue"} \/ (pc[c] = "ok" /\ req[c].kind # "logout")
Storing(c) == step[c] \in {"access", "refresh", "state"}

\* Tokens on their way to a device are on file at the server.
OnTheirWay(c) ==
  /\ Given(c) => None \notin {req[c].session, req[c].token} /\ req[c].token \in Current
  /\ Storing(c) => None \notin {got[c].access, got[c].refresh} /\ got[c].refresh \in Current
  /\ ~Storing(c) => got[c] = NoTokens

\* A device has both tokens or neither.
Whole(d) == mem[d] = NoTokens \/ None \notin {mem[d].access, mem[d].refresh}

\* The refresh tokens flow c works with, and those device d has anywhere.
With(c) == {got[c].refresh, req[c].token}
Kept(d) == {mem[d].refresh, disk[d].refresh} \cup With(Front(d)) \cup With(Refresher(d))

\* No two devices have the same token, and the tokens of a login under way are
\* not those the device works or refreshes with.
DevicesApart == \A d, e \in Device : d # e => Kept(d) \cap Kept(e) \subseteq {None}
LoginApart(d) ==
  With(Front(d)) \cap ({mem[d].refresh} \cup With(Refresher(d))) \subseteq {None}

\* The devices that are not refreshing and have a token the server has replaced.
Behind == {d \in Device : /\ step[Refresher(d)] = "idle" /\ LoggedIn(d)
                          /\ mem[d].refresh \notin Current}

Pair == [access : Session \cup {None}, refresh : Token \cup {None}]

DeviceTyped ==
  /\ mem \in [Device -> Pair] /\ disk \in [Device -> Pair] /\ got \in [Call -> Pair]
  /\ step \in [Call -> {"idle", "call", "access", "refresh", "state", "wipe", "forget"}]
  /\ kills \in 0..MaxKills

MobileInv ==
  /\ SessionInv /\ DeviceTyped
  /\ \A c \in Call : FlowCall(c) /\ OnTheirWay(c)
  /\ \A d \in Device : Whole(d) /\ LoginApart(d)
  /\ DevicesApart

\* The counterpart of StepBehindCostsKill.
KillsInv == IsFiniteSet(Behind) /\ Cardinality(Behind) <= kills

-----------------------------------------------------------------------------
(* Types *)

LEMMA CallsOfDevices ==
  /\ \A d \in Device, f \in Flow : <<d, f>> \in Call
  /\ \A d \in Device : Front(d) \in Call /\ Refresher(d) \in Call
  /\ \A c \in Call : c[1] \in Device /\ c[2] \in Flow /\ c = <<c[1], c[2]>>
BY MobileAssumption DEF Flow, Front, Refresher

LEMMA Types ==
  ASSUME SessionInv, DeviceTyped
  PROVE  /\ pc \in [Call -> Steps] /\ req \in [Call -> Requested]
         /\ hash \in [Session -> Token \cup {None}]
         /\ mem \in [Device -> Pair] /\ disk \in [Device -> Pair] /\ got \in [Call -> Pair]
         /\ step \in [Call -> {"idle", "call", "access", "refresh", "state", "wipe", "forget"}]
         /\ kills \in Nat
BY MobileAssumption DEF SessionInv, Typed, ServerTypeOK, Requested, DeviceTyped

\* What a device asks is a request the server knows.
LEMMA DevicesAsk ==
  ASSUME SessionInv, DeviceTyped, NEW d \in Device, Whole(d), LoggedIn(d)
  PROVE  LogoutRequest(mem[d].access, FALSE) \in AnyRequest /\ RefreshRequest(mem[d].refresh) \in AnyRequest
<1>1. mem[d] \in Pair /\ None \notin {mem[d].access, mem[d].refresh}
  BY DEF DeviceTyped, Whole, LoggedIn
<1>2. mem[d].access \in Session /\ mem[d].refresh \in Token
  BY <1>1 DEF Pair
<1>3. RefreshRequest(mem[d].refresh) \in AnyRequest
  BY <1>2 DEF AnyRequest
<1>4. \A all \in BOOLEAN : LogoutRequest(mem[d].access, all) \in AnyRequest
  BY <1>2 DEF AnyRequest
<1> QED BY <1>3, <1>4

LEMMA RestartSession ==
  ASSUME SessionInv, NEW d \in Device, Restart(d)
  PROVE  SessionInv'
<1>1. Typed'
  <2>1. NoRequest \in Requested
    BY DEF NoRequest, Request, Requested
  <2>2. pc' \in [Call -> Steps] /\ req' \in [Call -> Requested]
    BY <2>1 DEF Restart, SessionInv, Typed, ServerTypeOK, Steps, Requested
  <2>3. KnownSession'
    BY DEF Restart, SessionInv, Typed, KnownSession
  <2> QED BY <2>2, <2>3 DEF Restart, SessionInv, Typed, ServerTypeOK, Requested, rows, bounds
<1>2. Live' = Live
  BY DEF Restart, rows, Live
<1>3. \A c \in Call : pc'[c] = "open" => pc[c] = "open" /\ (c \in past => c \in past')
  BY DEF Restart
<1> QED BY <1>1, <1>2, <1>3, NothingOpens DEF Restart, rows

LEMMA SessionKept ==
  ASSUME MobileInv, [Next]_vars
  PROVE  SessionInv'
<1>0. SessionInv /\ DeviceTyped /\ \A d \in Device : Whole(d)
  BY DEF MobileInv
<1>1. ASSUME NEW d \in Device, LogIn(d) \/ LogOut(d) \/ TryRefresh(d)
      PROVE  SessionInv'
  <2>1. \A c \in Call, r \in AnyRequest : Ask(c, r) => SessionInv'
    BY <1>0, BeginStep DEF Ask
  <2>2. LoginRequest \in AnyRequest
    BY DEF AnyRequest
  <2>3. <<d, "front">> \in Call /\ <<d, "refresh">> \in Call
    BY CallsOfDevices DEF Flow
  <2> QED BY <1>0, <1>1, <2>1, <2>2, <2>3, DevicesAsk DEF LogIn, LogOut, TryRefresh
<1>2. ASSUME NEW d \in Device, NEW f \in Flow, Flows(d, f)
      PROVE  SessionInv'
  <2>1. Leave(<<d, f>>) \/ UNCHANGED serverVars
    BY <1>2 DEF Flows, Hear, WriteAccess, WriteRefresh, SetState, Wipe, Forget
  <2> QED BY <1>0, <2>1, CallsOfDevices, AroundStep
<1>3. ASSUME NEW c \in Call, Server(c)
      PROVE  SessionInv'
  BY <1>0, <1>3, FindStep, OpenStep, RotateStep, OtherStep, MarkStep, SweepStep, UnmarkStep
     DEF Server, Serve
<1>4. CASE UNCHANGED vars
  BY <1>0, <1>4, AroundStep DEF vars
<1> QED BY <1>0, <1>1, <1>2, <1>3, <1>4, RestartSession, AroundStep DEF Next

LEMMA DevicesTyped ==
  ASSUME MobileInv, [Next]_vars
  PROVE  DeviceTyped'
<1>0. /\ SessionInv /\ DeviceTyped /\ NoTokens \in Pair
      /\ pc \in [Call -> Steps] /\ req \in [Call -> Requested]
      /\ mem \in [Device -> Pair] /\ disk \in [Device -> Pair] /\ got \in [Call -> Pair]
  BY Types DEF MobileInv, NoTokens, Tokens, Pair
<1> DEFINE Way == {"idle", "call", "access", "refresh", "state", "wipe", "forget"}
<1>1. ASSUME NEW c \in Call, NEW r, Ask(c, r)
      PROVE  DeviceTyped'
  BY <1>0, <1>1 DEF Ask, GoOn, DeviceTyped
<1>2. ASSUME NEW c \in Call, Hear(c)
      PROVE  DeviceTyped'
  <2>1. Tokens(req[c].session, req[c].token) \in Pair
    BY <1>0 DEF Tokens, Pair, Requested
  <2>2. got' \in [Call -> Pair]
    BY <1>0, <1>2, <2>1 DEF Hear
  <2>3. AfterFailure(req[c].kind) \in {"idle", "wipe"}
    BY DEF AfterFailure
  <2>4. step' \in [Call -> Way]
    BY <1>0, <1>2, <2>3 DEF Hear, GoOn, DeviceTyped
  <2> QED BY <1>2, <2>2, <2>4 DEF Hear, MobileInv, DeviceTyped
<1>3. ASSUME NEW d \in Device, NEW f \in Flow,
             \/ WriteAccess(d, f) \/ WriteRefresh(d, f) \/ SetState(d, f) \/ Wipe(d, f) \/ Forget(d, f)
      PROVE  DeviceTyped'
  <2>0. <<d, f>> \in Call /\ got[<<d, f>>] \in Pair /\ disk[d] \in Pair
    BY <1>0, CallsOfDevices
  <2>1. step' \in [Call -> Way]
    BY <1>0, <1>3, <2>0 DEF WriteAccess, WriteRefresh, SetState, Wipe, Forget, GoOn, DeviceTyped
  <2>2. disk' \in [Device -> Pair]
    BY <1>0, <1>3, <2>0 DEF WriteAccess, WriteRefresh, SetState, Wipe, Forget, Pair
  <2>3. mem' \in [Device -> Pair] /\ got' \in [Call -> Pair]
    BY <1>0, <1>3, <2>0 DEF WriteAccess, WriteRefresh, SetState, Wipe, Forget
  <2> QED BY <1>0, <1>3, <2>1, <2>2, <2>3
          DEF WriteAccess, WriteRefresh, SetState, Wipe, Forget, DeviceTyped
<1>4. ASSUME NEW d \in Device, Restart(d)
      PROVE  DeviceTyped'
  <2>1. kills' \in 0..MaxKills
    BY <1>0, <1>4, MobileAssumption DEF Restart, DeviceTyped
  <2>2. mem' \in [Device -> Pair] /\ got' \in [Call -> Pair] /\ step' \in [Call -> Way]
    BY <1>0, <1>4 DEF Restart, DeviceTyped
  <2> QED BY <1>0, <1>4, <2>1, <2>2 DEF Restart, DeviceTyped
<1>5. CASE UNCHANGED deviceVars
  BY <1>0, <1>5 DEF deviceVars, flows, DeviceTyped
<1> QED
  BY <1>1, <1>2, <1>3, <1>4, <1>5, CallsOfDevices
     DEF Next, Flows, LogIn, LogOut, TryRefresh, Server, Flow, vars

-----------------------------------------------------------------------------
(* Calls *)

\* A step of one flow or of its call leaves the other flows alone.
LEMMA OthersStay ==
  ASSUME MobileInv, NEW c \in Call,
         \/ \E r : Ask(c, r)
         \/ Hear(c) \/ Server(c) \/ (Fail(c) /\ UNCHANGED deviceVars)
         \/ \E d \in Device, f \in Flow : c = <<d, f>> /\ Flows(d, f)
  PROVE  \A b \in Call : b # c => /\ pc'[b] = pc[b] /\ req'[b] = req[b]
                                  /\ step'[b] = step[b] /\ got'[b] = got[b]
<1>0. /\ pc \in [Call -> Steps] /\ req \in [Call -> Requested]
      /\ got \in [Call -> Pair]
      /\ step \in [Call -> {"idle", "call", "access", "refresh", "state", "wipe", "forget"}]
  BY Types DEF MobileInv
<1>1. ASSUME NEW r, Ask(c, r)
      PROVE  \A b \in Call : b # c => /\ pc'[b] = pc[b] /\ req'[b] = req[b]
                                      /\ step'[b] = step[b] /\ got'[b] = got[b]
  BY <1>0, <1>1 DEF Ask, Begin, GoOn
<1>2. CASE Hear(c)
  BY <1>0, <1>2 DEF Hear, Leave, GoOn
<1>3. CASE Server(c)
  BY <1>0, <1>3 DEF Server, Serve, Find, Create, Open, Issue, Rotate, User, Authorize, Revoke,
                    Mark, Sweep, Unmark, Go, deviceVars, flows
<1>4. CASE Fail(c) /\ UNCHANGED deviceVars
  BY <1>0, <1>4 DEF Fail, Go, deviceVars, flows
<1>5. ASSUME NEW d \in Device, NEW f \in Flow, c = <<d, f>>, Flows(d, f), ~Hear(<<d, f>>)
      PROVE  \A b \in Call : b # c => /\ pc'[b] = pc[b] /\ req'[b] = req[b]
                                      /\ step'[b] = step[b] /\ got'[b] = got[b]
  BY <1>0, <1>5 DEF Flows, WriteAccess, WriteRefresh, SetState, Wipe, Forget, GoOn,
                    serverVars, calls
<1> QED BY <1>1, <1>2, <1>3, <1>4, <1>5

\* What the server hands out: a token nobody has, for a session without one or
\* for the session of the token it was asked to replace.
Hands(c) ==
  \E s \in Session, k \in Token \ (Held \cup {None}) :
     /\ hash' = [hash EXCEPT ![s] = k]
     /\ req' = [req EXCEPT ![c] = [req[c] EXCEPT !.session = s, !.token = k]]
     /\ \/ hash[s] = None
        \/ c[2] = "refresh" /\ pc[c] = "rotate" /\ hash[s] = req[c].token

LEMMA FreshUnheld ==
  ASSUME NEW s \in Session, NEW k \in Fresh(Held)[s]
  PROVE  k \in Token \ (Held \cup {None})
<1> DEFINE free == [r \in Session |-> Mint[r] \ Held]
<1>1. free[s] # {} /\ k = CHOOSE t \in free[s] : TRUE
  BY DEF Fresh
<1>2. k \in free[s]
  BY <1>1
<1> QED BY <1>2, FreshTyped

LEMMA ServerStep ==
  ASSUME MobileInv, NEW c \in Call, Server(c)
  PROVE  /\ step[c] = "call" /\ pc'[c] # "idle"
         /\ UNCHANGED <<mem, disk, step, got, kills>>
         /\ \/ UNCHANGED <<hash, req>> /\ (Given(c)' => Given(c))
            \/ Hands(c)
<1>0. /\ FlowCall(c) /\ pc \in [Call -> Steps] /\ req \in [Call -> Requested] /\ c[2] \in Flow
  BY Types, CallsOfDevices DEF MobileInv
<1>1. step[c] = "call" /\ pc'[c] # "idle"
  <2>1. account \in {"absent", "open", "blocked"}
    BY DEF MobileInv, SessionInv, Typed, ServerTypeOK
  <2>2. CASE Find(c) \/ Create(c) \/ Issue(c) \/ User(c) \/ Authorize(c) \/ Revoke(c)
    BY <1>0, <2>1, <2>2 DEF FlowCall, Find, Create, Issue, User, Authorize, Revoke, Go
  <2>3. CASE Open(c, Fresh(Held))
    BY <1>0, <2>3 DEF FlowCall, Open
  <2>4. CASE Rotate(c, Fresh(Held))
    BY <1>0, <2>4 DEF FlowCall, Rotate, Go
  <2>5. CASE Mark(c) \/ Sweep(c) \/ Unmark(c)
    BY <1>0, <2>5 DEF FlowCall, Mark, Sweep, Unmark, Go
  <2> QED BY <2>2, <2>3, <2>4, <2>5 DEF Server, Serve
<1>2. CASE Open(c, Fresh(Held))
  <2>1. PICK s : s = CHOOSE r \in Unused : TRUE
    OBVIOUS
  <2>2. s \in Session /\ hash[s] = None
    BY <1>2, <2>1 DEF Open, Unused
  <2>3. PICK k \in Fresh(Held)[s] :
          /\ hash' = [hash EXCEPT ![s] = k]
          /\ req' = [req EXCEPT ![c].session = s, ![c].token = k]
    BY <1>2, <2>1 DEF Open
  <2>4. req' = [req EXCEPT ![c] = [req[c] EXCEPT !.session = s, !.token = k]]
    BY <1>0, <2>3
  <2>5. Hands(c)
    BY <2>2, <2>3, <2>4, FreshUnheld DEF Hands
  <2> QED BY <1>1, <2>5 DEF Server, deviceVars, flows
<1>3. ASSUME NEW s \in Session, NEW k \in Fresh(Held)[s], Rotate(c, Fresh(Held)),
             hash[s] = req[c].token,
             hash' = [hash EXCEPT ![s] = k],
             req' = [req EXCEPT ![c].session = s, ![c].token = k]
      PROVE  Hands(c)
  <2>1. req' = [req EXCEPT ![c] = [req[c] EXCEPT !.session = s, !.token = k]]
    BY <1>0, <1>3
  <2>2. c[2] = "refresh" /\ pc[c] = "rotate"
    BY <1>0, <1>3 DEF FlowCall, Rotate, Flow
  <2> QED BY <1>3, <2>1, <2>2, FreshUnheld DEF Hands
<1>4. CASE Rotate(c, Fresh(Held))
  <2>1. \/ UNCHANGED <<hash, req>> /\ pc' = [pc EXCEPT ![c] = "failed"]
        \/ Hands(c)
    BY <1>3, <1>4 DEF Rotate, Go, Live
  <2>2. pc' = [pc EXCEPT ![c] = "failed"] => ~Given(c)'
    BY <1>0 DEF Given
  <2> QED BY <1>1, <2>1, <2>2 DEF Server, deviceVars, flows
<1>5. CASE Find(c) \/ Create(c) \/ Issue(c) \/ User(c) \/ Authorize(c) \/ Revoke(c)
  <2>1. UNCHANGED <<hash, req>>
    BY <1>5 DEF Find, Create, Issue, User, Authorize, Revoke, Go, rows
  <2>2. account \in {"absent", "open", "blocked"}
    BY DEF MobileInv, SessionInv, Typed, ServerTypeOK
  <2>3. Given(c)' => Given(c)
    BY <1>0, <1>5, <2>1, <2>2 DEF Given, FlowCall, Flow, Find, Create, Issue, User, Authorize, Revoke, Go
  <2> QED BY <1>1, <2>1, <2>3 DEF Server, deviceVars, flows
<1>6. CASE Mark(c) \/ Sweep(c) \/ Unmark(c)
  BY <1>0, <1>6 DEF Mark, Sweep, Unmark, FlowCall, Flow
<1> QED BY <1>2, <1>4, <1>5, <1>6 DEF Server, Serve

LEMMA FlowCallKept ==
  ASSUME MobileInv, [Next]_vars, NEW b \in Call
  PROVE  FlowCall(b)'
<1>0. /\ FlowCall(b) /\ pc \in [Call -> Steps] /\ req \in [Call -> Requested]
      /\ got \in [Call -> Pair] /\ b[2] \in Flow
      /\ step \in [Call -> {"idle", "call", "access", "refresh", "state", "wipe", "forget"}]
  BY Types, CallsOfDevices DEF MobileInv
<1>1. CASE /\ pc'[b] = pc[b] /\ req'[b] = req[b] /\ step'[b] = step[b]
  BY <1>0, <1>1 DEF FlowCall
<1>2. ASSUME NEW d \in Device, LogIn(d) \/ LogOut(d) \/ TryRefresh(d), b \in {Front(d), Refresher(d)}
      PROVE  FlowCall(b)'
  <2>1. CASE LogIn(d)
    BY <1>0, <1>1, <1>2, <2>1 DEF LogIn, Ask, Begin, GoOn, LoginRequest, Request, First, FlowCall, Front, Refresher
  <2>2. CASE LogOut(d)
    BY <1>0, <1>1, <1>2, <2>2 DEF LogOut, Ask, Begin, GoOn, LogoutRequest, Request, First, FlowCall, Front, Refresher
  <2>3. CASE TryRefresh(d)
    BY <1>0, <1>1, <1>2, <2>3 DEF TryRefresh, Ask, Begin, GoOn, RefreshRequest, Request, First, FlowCall, Front, Refresher
  <2> QED BY <1>2, <2>1, <2>2, <2>3
<1>3. CASE Hear(b)
  <2>1. pc'[b] = "idle" /\ req'[b] = NoRequest
    BY <1>0, <1>3 DEF Hear, Leave
  <2> QED BY <2>1 DEF FlowCall
<1>4. ASSUME NEW d \in Device, NEW f \in Flow, b = <<d, f>>, Flows(d, f), ~Hear(b)
      PROVE  FlowCall(b)'
  <2>1. pc' = pc /\ req' = req /\ step[b] # "call"
    BY <1>4 DEF Flows, WriteAccess, WriteRefresh, SetState, Wipe, Forget, serverVars, calls
  <2> QED BY <1>0, <2>1 DEF FlowCall
<1>5. CASE Server(b)
  <2>1. step' = step /\ step[b] = "call"
    BY <1>0, <1>5 DEF Server, deviceVars, flows, FlowCall, Serve, Find, Create, Open, Issue,
                      Rotate, User, Authorize, Revoke, Mark, Sweep, Unmark
  <2>2. req'[b].kind = req[b].kind
    <3>1. CASE req' = req
      BY <3>1
    <3>2. ASSUME NEW s, NEW k, req' = [req EXCEPT ![b] = [req[b] EXCEPT !.session = s, !.token = k]]
          PROVE  req'[b].kind = req[b].kind
      <4>1. req[b] \in Requested /\ req'[b] = [req[b] EXCEPT !.session = s, !.token = k]
        BY <1>0, <3>2
      <4> QED BY <4>1 DEF Requested
    <3>3. req' = req \/ Hands(b)
      BY <1>5, ServerStep
    <3>4. CASE Hands(b)
      BY <3>2, <3>4 DEF Hands
    <3> QED BY <3>1, <3>3, <3>4
  <2>3. CASE Rotate(b, Fresh(Held)) \/ User(b)
    BY <1>0, <2>1, <2>2, <2>3 DEF Rotate, User, Go, FlowCall, Flow
  <2>4. CASE Find(b) \/ Create(b) \/ Open(b, Fresh(Held))
    <3>1. account \in {"absent", "open", "blocked"}
      BY DEF MobileInv, SessionInv, Typed, ServerTypeOK
    <3>2. pc[b] \in {"find", "create", "open"} /\ pc'[b] \in {"create", "open", "issue", "failed"}
      BY <1>0, <2>4, <3>1 DEF Find, Create, Open, Go
    <3> QED BY <1>0, <2>1, <2>2, <3>2 DEF FlowCall, Flow
  <2>5. CASE Issue(b)
    BY <1>0, <2>1, <2>2, <2>5 DEF Issue, Go, FlowCall, Flow
  <2>6. CASE Authorize(b) \/ Revoke(b)
    BY <1>0, <2>1, <2>2, <2>6 DEF Authorize, Revoke, Go, FlowCall, Flow
  <2>7. CASE Mark(b) \/ Sweep(b) \/ Unmark(b)
    BY <1>0, <2>7 DEF Mark, Sweep, Unmark, FlowCall, Flow
  <2> QED BY <1>5, <2>3, <2>4, <2>5, <2>6, <2>7 DEF Server, Serve
<1>6. CASE Fail(b) /\ UNCHANGED deviceVars
  BY <1>0, <1>6 DEF Fail, Go, deviceVars, flows, FlowCall, Flow
<1>7. ASSUME NEW d \in Device, Restart(d)
      PROVE  FlowCall(b)'
  <2>1. \/ pc'[b] = "idle" /\ req'[b] = NoRequest
        \/ pc'[b] = pc[b] /\ req'[b] = req[b] /\ step'[b] = step[b]
    BY <1>0, <1>7 DEF Restart
  <2> QED BY <1>1, <2>1 DEF FlowCall
<1>8. CASE UNCHANGED vars \/ (\E s \in Session : (Lapse(s) \/ Expire(s)) /\ UNCHANGED deviceVars)
  BY <1>1, <1>8 DEF vars, serverVars, deviceVars, flows, calls, Lapse, Expire
<1>9. ASSUME NEW d \in Device, LogIn(d) \/ LogOut(d) \/ TryRefresh(d), b \notin {Front(d), Refresher(d)}
      PROVE  FlowCall(b)'
  <2>1. \E f \in Flow : \E r : Ask(<<d, f>>, r) /\ b # <<d, f>>
    BY <1>9 DEF LogIn, LogOut, TryRefresh, Front, Refresher, Flow
  <2> QED BY <1>1, <2>1, CallsOfDevices, OthersStay
<1> QED BY <1>1, <1>2, <1>3, <1>4, <1>5, <1>6, <1>7, <1>8, <1>9, CallsOfDevices, OthersStay DEF Next

-----------------------------------------------------------------------------
(* Tokens on their way *)

\* The tokens a device keeps are held, and the steps of one device give it
\* nothing but tokens nobody held.
LEMMA KeptIsHeld ==
  ASSUME NEW d \in Device
  PROVE  Kept(d) \subseteq Held
BY CallsOfDevices DEF Kept, With, Held, InUse

LEMMA StillApart ==
  ASSUME DevicesApart, NEW d \in Device, NEW k, k = None \/ k \notin Held,
         Kept(d)' \subseteq Kept(d) \cup {None, k},
         \A e \in Device : e # d => Kept(e)' = Kept(e)
  PROVE  DevicesApart'
BY KeptIsHeld DEF DevicesApart

\* The server replaces a token on file only for the refresh that sent it.
LEMMA CurrentStays ==
  ASSUME MobileInv, [Next]_vars, NEW k \in Current, k # None
  PROVE  \/ k \in Current'
         \/ \E d \in Device : /\ pc[Refresher(d)] = "rotate" /\ step[Refresher(d)] = "call"
                              /\ req[Refresher(d)].token = k
<1>0. hash \in [Session -> Token \cup {None}]
  BY Types DEF MobileInv
<1>1. PICK t \in Session : hash[t] = k
  BY DEF Current
<1>2. CASE hash' = hash
  BY <1>2 DEF Current
<1>3. ASSUME NEW c \in Call, Server(c), Hands(c)
      PROVE  \/ k \in Current'
             \/ /\ pc[c] = "rotate" /\ step[c] = "call" /\ req[c].token = k /\ c[2] = "refresh"
  <2>1. PICK s \in Session, l \in Token \ (Held \cup {None}) :
           /\ hash' = [hash EXCEPT ![s] = l]
           /\ \/ hash[s] = None
              \/ c[2] = "refresh" /\ pc[c] = "rotate" /\ hash[s] = req[c].token
    BY <1>3 DEF Hands
  <2>2. step[c] = "call"
    BY <1>3, ServerStep
  <2>3. CASE t = s
    BY <1>1, <2>1, <2>2, <2>3
  <2>4. CASE t # s
    <3>1. hash'[t] = k
      BY <1>0, <1>1, <2>1, <2>4
    <3> QED BY <3>1 DEF Current
  <2> QED BY <2>3, <2>4
<1>4. (\E c \in Call : Server(c) /\ Hands(c)) \/ hash' = hash
  <2>1. ASSUME NEW c \in Call, Server(c)
        PROVE  Hands(c) \/ hash' = hash
    BY <2>1, ServerStep
  <2>2. ASSUME NEW d \in Device, LogIn(d) \/ LogOut(d) \/ TryRefresh(d) \/ Restart(d)
        PROVE  hash' = hash
    BY <2>2 DEF LogIn, LogOut, TryRefresh, Ask, Begin, Restart, rows
  <2>3. ASSUME NEW d \in Device, NEW f \in Flow, Flows(d, f)
        PROVE  hash' = hash
    BY <2>3 DEF Flows, Hear, Leave, WriteAccess, WriteRefresh, SetState, Wipe, Forget, serverVars, rows
  <2>4. ASSUME NEW c \in Call, Fail(c)
        PROVE  hash' = hash
    BY <2>4 DEF Fail, rows
  <2>5. ASSUME NEW s \in Session, Lapse(s) \/ Expire(s)
        PROVE  hash' = hash
    BY <2>5 DEF Lapse, Expire, rows
  <2>6. CASE UNCHANGED vars
    BY <2>6 DEF vars, serverVars, rows
  <2> QED BY <2>1, <2>2, <2>3, <2>4, <2>5, <2>6 DEF Next
<1>5. \A c \in Call : c[2] = "refresh" => \E d \in Device : c = Refresher(d)
  BY CallsOfDevices DEF Refresher
<1> QED BY <1>2, <1>3, <1>4, <1>5

\* So the tokens on their way to a device stay on file.
LEMMA NotReplaced ==
  ASSUME MobileInv, [Next]_vars, NEW b \in Call, NEW k \in Current, k # None,
         \/ Given(b) /\ k = req[b].token
         \/ Storing(b) /\ k = got[b].refresh
  PROVE  k \in Current'
<1> SUFFICES ASSUME NEW d \in Device, pc[Refresher(d)] = "rotate", step[Refresher(d)] = "call",
                    req[Refresher(d)].token = k
             PROVE  FALSE
  BY CurrentStays
<1>1. b # Refresher(d)
  BY DEF Given, Storing
<1>2. PICK e \in Device : b \in {Front(e), Refresher(e)}
  BY CallsOfDevices DEF Flow, Front, Refresher
<1>3. k \in Kept(e) /\ k \in Kept(d)
  BY <1>2 DEF Kept, With
<1>4. e = d
  BY <1>3 DEF MobileInv, DevicesApart
<1>5. b = Front(d)
  BY <1>1, <1>2, <1>4
<1>6. k \in With(Front(d)) \cap With(Refresher(d))
  BY <1>5 DEF With
<1> QED BY <1>6 DEF MobileInv, LoginApart

LEMMA SameOnTheWay ==
  ASSUME MobileInv, [Next]_vars, NEW b \in Call,
         pc'[b] = pc[b], req'[b] = req[b], step'[b] = step[b], got'[b] = got[b]
  PROVE  OnTheirWay(b)'
<1>1. OnTheirWay(b)
  BY DEF MobileInv
<1>2. Given(b)' = Given(b) /\ Storing(b)' = Storing(b)
  BY DEF Given, Storing
<1>3. Given(b) => req[b].token \in Current'
  BY <1>1, NotReplaced DEF OnTheirWay
<1>4. Storing(b) => got[b].refresh \in Current'
  BY <1>1, NotReplaced DEF OnTheirWay
<1> QED BY <1>1, <1>2, <1>3, <1>4 DEF OnTheirWay

LEMMA OnTheirWayKept ==
  ASSUME MobileInv, [Next]_vars, NEW b \in Call
  PROVE  OnTheirWay(b)'
<1>0. /\ FlowCall(b) /\ OnTheirWay(b)
      /\ pc \in [Call -> Steps] /\ req \in [Call -> Requested] /\ got \in [Call -> Pair]
      /\ hash \in [Session -> Token \cup {None}]
      /\ step \in [Call -> {"idle", "call", "access", "refresh", "state", "wipe", "forget"}]
  BY Types DEF MobileInv
<1>1. ASSUME NEW d \in Device, LogIn(d) \/ LogOut(d) \/ TryRefresh(d)
      PROVE  OnTheirWay(b)'
  <2>1. PICK c \in {Front(d), Refresher(d)},
             r \in {LoginRequest, LogoutRequest(mem[d].access, FALSE), RefreshRequest(mem[d].refresh)} :
          Ask(c, r)
    BY <1>1 DEF LogIn, LogOut, TryRefresh, Front, Refresher
  <2>2. c \in Call /\ First(r.kind) \in {"find", "authorize", "rotate"}
    <3>1. r.kind \in {"login", "logout", "refresh"}
      BY DEF LoginRequest, LogoutRequest, RefreshRequest, Request
    <3>2. c \in Call
      BY CallsOfDevices
    <3> QED BY <3>1, <3>2 DEF First
  <2>3. CASE b = c
    <3>1. pc'[b] = First(r.kind) /\ step'[b] = "call" /\ got' = got /\ step[b] = "idle"
      BY <1>0, <2>1, <2>3 DEF Ask, Begin, GoOn
    <3> QED BY <1>0, <2>2, <3>1 DEF OnTheirWay, Given, Storing
  <2>4. CASE b # c
    BY <2>1, <2>2, <2>4, OthersStay, SameOnTheWay
  <2> QED BY <2>3, <2>4
<1>2. CASE Hear(b)
  <2>1. pc'[b] = "idle" /\ Current' = Current /\ step[b] = "call"
    BY <1>0, <1>2 DEF Hear, Leave, rows, Current
  <2>2. CASE pc[b] = "ok" /\ req[b].kind # "logout"
    <3>1. step'[b] = "access" /\ got'[b] = Tokens(req[b].session, req[b].token)
      BY <1>0, <1>2, <2>2 DEF Hear, GoOn
    <3>2. Given(b)
      BY <2>2 DEF Given
    <3> QED BY <1>0, <2>1, <3>1, <3>2 DEF OnTheirWay, Given, Storing, Tokens
  <2>3. CASE ~(pc[b] = "ok" /\ req[b].kind # "logout")
    <3>1. step'[b] \in {"wipe", "idle"} /\ got' = got
      BY <1>0, <1>2, <2>3 DEF Hear, GoOn, AfterFailure
    <3> QED BY <1>0, <2>1, <3>1 DEF OnTheirWay, Given, Storing
  <2> QED BY <2>2, <2>3
<1>3. ASSUME NEW d \in Device, NEW f \in Flow, b = <<d, f>>, Flows(d, f), ~Hear(b)
      PROVE  OnTheirWay(b)'
  <2>1. pc' = pc /\ req' = req /\ step[b] # "call" /\ Current' = Current
    BY <1>3 DEF Flows, WriteAccess, WriteRefresh, SetState, Wipe, Forget, serverVars, calls, rows, Current
  <2>2. ~Given(b)'
    BY <1>0, <2>1 DEF Given, FlowCall
  <2>3. CASE WriteAccess(d, f) \/ WriteRefresh(d, f)
    <3>1. got' = got /\ Storing(b) /\ Storing(b)'
      BY <1>0, <1>3, <2>3 DEF WriteAccess, WriteRefresh, GoOn, Storing
    <3> QED BY <1>0, <2>1, <2>2, <3>1 DEF OnTheirWay
  <2>4. CASE SetState(d, f)
    <3>1. got'[b] = NoTokens /\ step'[b] = "idle"
      BY <1>0, <1>3, <2>4 DEF SetState, GoOn
    <3> QED BY <2>2, <3>1 DEF OnTheirWay, Storing
  <2>5. CASE Wipe(d, f) \/ Forget(d, f)
    <3>1. got' = got /\ ~Storing(b) /\ ~Storing(b)'
      BY <1>0, <1>3, <2>5 DEF Wipe, Forget, GoOn, Storing
    <3> QED BY <1>0, <2>2, <3>1 DEF OnTheirWay
  <2> QED BY <1>3, <2>3, <2>4, <2>5 DEF Flows
<1>4. CASE Server(b)
  <2>1. ~Storing(b)' /\ got' = got /\ ~Storing(b)
    BY <1>4, ServerStep DEF Storing
  <2>2. CASE UNCHANGED <<hash, req>> /\ (Given(b)' => Given(b))
    <3>1. Current' = Current
      BY <2>2 DEF Current
    <3> QED BY <1>0, <2>1, <2>2, <3>1 DEF OnTheirWay
  <2>3. CASE Hands(b)
    <3>1. PICK s \in Session, k \in Token \ (Held \cup {None}) :
            /\ hash' = [hash EXCEPT ![s] = k]
            /\ req' = [req EXCEPT ![b] = [req[b] EXCEPT !.session = s, !.token = k]]
      BY <2>3 DEF Hands
    <3>2. req[b] \in Requested /\ req'[b] = [req[b] EXCEPT !.session = s, !.token = k]
      BY <1>0, <3>1
    <3>3. req'[b].session = s /\ req'[b].token = k
      BY <3>2 DEF Requested
    <3>4. hash'[s] = k
      BY <1>0, <3>1
    <3>5. None \notin {req'[b].session, req'[b].token} /\ req'[b].token \in Current'
      BY <3>3, <3>4 DEF Current
    <3> QED BY <1>0, <2>1, <3>5 DEF OnTheirWay
  <2> QED BY <1>4, <2>2, <2>3, ServerStep
<1>5. CASE Fail(b) /\ UNCHANGED deviceVars
  <2>1. pc'[b] = "failed" /\ got' = got /\ step' = step /\ Current' = Current
    BY <1>0, <1>5 DEF Fail, Go, deviceVars, flows, rows, Current
  <2> QED BY <1>0, <2>1 DEF OnTheirWay, Given, Storing
<1>6. ASSUME NEW d \in Device, Restart(d)
      PROVE  OnTheirWay(b)'
  <2>1. CASE b \in {d} \X Flow
    <3>1. pc'[b] = "idle" /\ step'[b] = "idle" /\ got'[b] = NoTokens
      BY <1>6, <2>1 DEF Restart
    <3> QED BY <3>1 DEF OnTheirWay, Given, Storing
  <2>2. CASE b \notin {d} \X Flow
    <3>1. pc'[b] = pc[b] /\ req'[b] = req[b] /\ step'[b] = step[b] /\ got'[b] = got[b]
      BY <1>6, <2>2 DEF Restart
    <3> QED BY <3>1, SameOnTheWay
  <2> QED BY <2>1, <2>2
<1>7. CASE UNCHANGED vars \/ (\E s \in Session : (Lapse(s) \/ Expire(s)) /\ UNCHANGED deviceVars)
  <2>1. pc'[b] = pc[b] /\ req'[b] = req[b] /\ step'[b] = step[b] /\ got'[b] = got[b]
    BY <1>7 DEF vars, serverVars, deviceVars, flows, calls, Lapse, Expire
  <2> QED BY <2>1, SameOnTheWay
<1>8. ASSUME NEW c \in Call, b # c,
             \/ Server(c) \/ (Fail(c) /\ UNCHANGED deviceVars)
             \/ \E d \in Device, f \in Flow : c = <<d, f>> /\ Flows(d, f)
      PROVE  OnTheirWay(b)'
  BY <1>8, OthersStay, SameOnTheWay
<1>9. ASSUME NEW d \in Device, NEW f \in Flow, Flows(d, f)
      PROVE  OnTheirWay(b)'
  <2>1. <<d, f>> \in Call
    BY CallsOfDevices
  <2>2. CASE b # <<d, f>>
    BY <1>8, <1>9, <2>1, <2>2
  <2> QED BY <1>2, <1>3, <1>9, <2>2
<1> QED BY <1>1, <1>4, <1>5, <1>6, <1>7, <1>8, <1>9 DEF Next

\* A device holds both tokens or none.
LEMMA WholeKept ==
  ASSUME MobileInv, [Next]_vars, NEW e \in Device
  PROVE  Whole(e)'
<1>0. Whole(e) /\ mem \in [Device -> Pair]
  BY Types DEF MobileInv
<1>1. CASE mem'[e] = mem[e]
  BY <1>0, <1>1 DEF Whole
<1>2. ASSUME NEW f \in Flow, SetState(e, f)
      PROVE  Whole(e)'
  <2>1. <<e, f>> \in Call /\ Storing(<<e, f>>) /\ mem'[e] = got[<<e, f>>]
    BY <1>0, <1>2, CallsOfDevices DEF SetState, Storing
  <2> QED BY <2>1 DEF MobileInv, OnTheirWay, Whole
<1>3. ASSUME NEW f \in Flow, Forget(e, f)
      PROVE  Whole(e)'
  BY <1>0, <1>3 DEF Forget, Whole
<1>4. CASE Restart(e)
  BY <1>0, <1>4 DEF Restart, Whole
<1>5. ASSUME NEW d \in Device, d # e,
             Restart(d) \/ \E f \in Flow : SetState(d, f) \/ Forget(d, f)
      PROVE  mem'[e] = mem[e]
  BY <1>0, <1>5 DEF Restart, SetState, Forget
<1>6. ASSUME NEW d \in Device, NEW f \in Flow, Flows(d, f), ~SetState(d, f), ~Forget(d, f)
      PROVE  mem' = mem
  BY <1>6 DEF Flows, Hear, WriteAccess, WriteRefresh, Wipe
<1>7. ASSUME NEW d \in Device, LogIn(d) \/ LogOut(d) \/ TryRefresh(d)
      PROVE  mem' = mem
  BY <1>7 DEF LogIn, LogOut, TryRefresh, Ask
<1>8. (\E c \in Call : Server(c)) \/ UNCHANGED deviceVars => mem' = mem
  BY DEF Server, deviceVars
<1>9. ASSUME NEW d \in Device, NEW f \in Flow, Flows(d, f)
      PROVE  Whole(e)'
  BY <1>1, <1>2, <1>3, <1>5, <1>6, <1>9
<1>10. ASSUME NEW d \in Device, Restart(d)
       PROVE  Whole(e)'
  BY <1>1, <1>4, <1>5, <1>10
<1>11. mem' = mem => Whole(e)'
  BY <1>1
<1> QED BY <1>7, <1>8, <1>9, <1>10, <1>11 DEF Next, vars

-----------------------------------------------------------------------------
(* Whose tokens they are *)

Untouched(e) == Kept(e)' = Kept(e) /\ LoginApart(e)'

\* What a step may give a device: nothing but tokens the device has, or one
\* nobody has.
Gains(d) ==
  /\ \A e \in Device : e # d => Untouched(e)
  /\ LoginApart(d)'
  /\ \E k : (k = None \/ k \notin Held) /\ Kept(d)' \subseteq Kept(d) \cup {None, k}

\* A step that changes nothing of the other devices leaves their tokens theirs.
LEMMA OthersKeep ==
  ASSUME MobileInv, NEW d \in Device,
         \A e \in Device : e # d => mem'[e] = mem[e] /\ disk'[e] = disk[e],
         \A b \in Call : b \notin {Front(d), Refresher(d)} => req'[b] = req[b] /\ got'[b] = got[b]
  PROVE  \A e \in Device : e # d => Untouched(e)
<1> SUFFICES ASSUME NEW e \in Device, e # d
             PROVE  Untouched(e)
  OBVIOUS
<1>1. {Front(e), Refresher(e)} \subseteq Call \ {Front(d), Refresher(d)}
  BY CallsOfDevices DEF Front, Refresher
<1>2. With(Front(e))' = With(Front(e)) /\ With(Refresher(e))' = With(Refresher(e))
  BY <1>1 DEF With
<1> QED BY <1>2 DEF Kept, LoginApart, MobileInv, Untouched

LEMMA AskGains ==
  ASSUME MobileInv, NEW d \in Device, LogIn(d) \/ LogOut(d) \/ TryRefresh(d)
  PROVE  Gains(d)
<1>0. /\ LoginApart(d) /\ req \in [Call -> Requested] /\ Front(d) \in Call /\ Refresher(d) \in Call
      /\ Front(d) # Refresher(d)
  BY Types, CallsOfDevices DEF MobileInv, Front, Refresher
<1>1. CASE LogIn(d) \/ LogOut(d)
  <2>1. PICK r : Ask(Front(d), r) /\ r.token = None
    BY <1>1 DEF LogIn, LogOut, LoginRequest, LogoutRequest, Request, Front
  <2>2. UNCHANGED <<mem, disk, got>> /\ req' = [req EXCEPT ![Front(d)] = r]
    BY <2>1 DEF Ask, Begin
  <2>3. With(Front(d))' \subseteq With(Front(d)) \cup {None} /\ With(Refresher(d))' = With(Refresher(d))
    BY <1>0, <2>1, <2>2 DEF With
  <2>4. LoginApart(d)'
    BY <1>0, <2>2, <2>3 DEF LoginApart
  <2>5. Kept(d)' \subseteq Kept(d) \cup {None}
    BY <2>2, <2>3 DEF Kept
  <2>6. \A e \in Device : e # d => Untouched(e)
    BY <1>0, <2>2, OthersKeep
  <2> QED BY <2>4, <2>5, <2>6 DEF Gains
<1>2. CASE TryRefresh(d)
  <2>1. /\ UNCHANGED <<mem, disk, got>>
        /\ req' = [req EXCEPT ![Refresher(d)] = RefreshRequest(mem[d].refresh)]
    BY <1>2 DEF TryRefresh, Ask, Begin, Refresher
  <2>2. req'[Refresher(d)].token = mem[d].refresh /\ req'[Front(d)] = req[Front(d)]
    BY <1>0, <2>1 DEF RefreshRequest, Request
  <2>3. /\ With(Front(d))' = With(Front(d))
        /\ With(Refresher(d))' \subseteq With(Refresher(d)) \cup {mem[d].refresh}
    BY <2>1, <2>2 DEF With
  <2>4. LoginApart(d)'
    BY <1>0, <2>1, <2>3 DEF LoginApart
  <2>5. Kept(d)' \subseteq Kept(d)
    BY <2>1, <2>3 DEF Kept
  <2>6. \A e \in Device : e # d => Untouched(e)
    BY <1>0, <2>1, OthersKeep
  <2> QED BY <2>4, <2>5, <2>6 DEF Gains
<1> QED BY <1>1, <1>2

LEMMA HearGains ==
  ASSUME MobileInv, NEW d \in Device, NEW f \in Flow, Hear(<<d, f>>)
  PROVE  Gains(d)
<1> DEFINE c == <<d, f>>
<1>0. /\ LoginApart(d) /\ req \in [Call -> Requested] /\ got \in [Call -> Pair]
      /\ Front(d) \in Call /\ Refresher(d) \in Call /\ c \in {Front(d), Refresher(d)}
      /\ Front(d) # Refresher(d)
  BY Types, CallsOfDevices DEF MobileInv, Front, Refresher, Flow
<1>1. /\ UNCHANGED <<mem, disk>> /\ req' = [req EXCEPT ![c] = NoRequest]
      /\ got' = got \/ got' = [got EXCEPT ![c] = Tokens(req[c].session, req[c].token)]
  BY DEF Hear, Leave
<1>2. With(c)' \subseteq With(c) \cup {None}
  BY <1>0, <1>1 DEF With, NoRequest, Request, Tokens
<1>3. \A b \in Call : b # c => req'[b] = req[b] /\ got'[b] = got[b]
  BY <1>0, <1>1
<1>4. \A b \in Call : With(b)' \subseteq With(b) \cup {None}
  BY <1>2, <1>3 DEF With
<1>5. LoginApart(d)' /\ Kept(d)' \subseteq Kept(d) \cup {None}
  BY <1>0, <1>1, <1>4 DEF LoginApart, Kept
<1>6. \A e \in Device : e # d => Untouched(e)
  BY <1>0, <1>1, <1>3, OthersKeep
<1> QED BY <1>5, <1>6 DEF Gains

LEMMA StoreGains ==
  ASSUME MobileInv, NEW d \in Device, NEW f \in Flow,
         \/ WriteAccess(d, f) \/ WriteRefresh(d, f) \/ SetState(d, f) \/ Wipe(d, f) \/ Forget(d, f)
  PROVE  Gains(d)
<1> DEFINE c == <<d, f>>
<1>0. /\ LoginApart(d) /\ got \in [Call -> Pair] /\ mem \in [Device -> Pair] /\ disk \in [Device -> Pair]
      /\ Front(d) \in Call /\ Refresher(d) \in Call /\ c \in {Front(d), Refresher(d)}
      /\ FlowCall(c) /\ Front(d) # Refresher(d)
  BY Types, CallsOfDevices DEF MobileInv, Front, Refresher, Flow
<1>1. req' = req
  BY DEF WriteAccess, WriteRefresh, SetState, Wipe, Forget, serverVars, calls
<1>2. \A e \in Device : e # d => mem'[e] = mem[e] /\ disk'[e] = disk[e]
  BY <1>0 DEF WriteAccess, WriteRefresh, SetState, Wipe, Forget
<1>3. \A b \in Call : b # c => got'[b] = got[b]
  BY <1>0 DEF WriteAccess, WriteRefresh, SetState, Wipe, Forget
<1>4. \A e \in Device : e # d => Untouched(e)
  BY <1>0, <1>1, <1>2, <1>3, OthersKeep
<1>5. disk'[d].refresh \in {None, disk[d].refresh, got[c].refresh}
  BY <1>0 DEF WriteAccess, WriteRefresh, SetState, Wipe, Forget, Pair, NoTokens, Tokens
<1>6. CASE ~SetState(d, f)
  <2>1. got' = got /\ (mem'[d].refresh = None \/ mem' = mem)
    BY <1>0, <1>6 DEF WriteAccess, WriteRefresh, Wipe, Forget, NoTokens, Tokens
  <2>2. \A b : With(b)' = With(b)
    BY <1>1, <2>1 DEF With
  <2>3. LoginApart(d)'
    BY <1>0, <2>1, <2>2 DEF LoginApart
  <2>4. Kept(d)' \subseteq Kept(d) \cup {None}
    BY <1>0, <1>5, <2>1, <2>2 DEF Kept, With
  <2> QED BY <1>4, <2>3, <2>4 DEF Gains
<1>7. CASE SetState(d, f)
  <2>1. mem'[d] = got[c] /\ got'[c] = NoTokens /\ disk' = disk
    BY <1>0, <1>7 DEF SetState
  <2>2. req[c].token = None
    BY <1>0, <1>7 DEF SetState, FlowCall, NoRequest, Request
  <2>3. With(c)' = {None} /\ mem'[d].refresh \in With(c)
    BY <1>1, <2>1, <2>2 DEF With, NoTokens, Tokens
  <2>4. \A b \in Call : b # c => With(b)' = With(b)
    BY <1>1, <1>3 DEF With
  <2>5. LoginApart(d)'
    BY <1>0, <2>3, <2>4 DEF LoginApart
  <2>6. Kept(d)' \subseteq Kept(d) \cup {None}
    BY <1>0, <2>1, <2>3, <2>4 DEF Kept
  <2> QED BY <1>4, <2>5, <2>6 DEF Gains
<1> QED BY <1>6, <1>7

LEMMA ServerGains ==
  ASSUME MobileInv, NEW d \in Device, NEW f \in Flow, Server(<<d, f>>)
  PROVE  Gains(d)
<1> DEFINE c == <<d, f>>
<1>0. /\ LoginApart(d) /\ req \in [Call -> Requested]
      /\ c \in Call /\ Front(d) \in Call /\ Refresher(d) \in Call /\ c \in {Front(d), Refresher(d)}
      /\ Front(d) # Refresher(d)
  BY Types, CallsOfDevices DEF MobileInv, Front, Refresher, Flow
<1>1. UNCHANGED <<mem, disk, got>>
  BY <1>0, ServerStep
<1>2. PICK k : /\ k = None \/ k \notin Held
               /\ \A b \in Call : With(b)' \subseteq With(b) \cup {k} /\ (b # c => req'[b] = req[b])
  <2>1. CASE req' = req
    BY <1>1, <2>1 DEF With
  <2>2. CASE Hands(c)
    <3>1. PICK s \in Session, l \in Token \ (Held \cup {None}) :
            req' = [req EXCEPT ![c] = [req[c] EXCEPT !.session = s, !.token = l]]
      BY <2>2 DEF Hands
    <3>2. req[c] \in Requested /\ req'[c] = [req[c] EXCEPT !.session = s, !.token = l]
      BY <1>0, <3>1
    <3>3. req'[c].token = l
      BY <3>2 DEF Requested
    <3>4. \A b \in Call : b # c => req'[b] = req[b]
      BY <1>0, <3>1
    <3>5. \A b \in Call : With(b)' \subseteq With(b) \cup {l}
      BY <1>1, <3>3, <3>4 DEF With
    <3> QED BY <3>4, <3>5
  <2>3. req' = req \/ Hands(c)
    BY <1>0, ServerStep
  <2> QED BY <2>1, <2>2, <2>3
<1>3. \A e \in Device : e # d => Untouched(e)
  BY <1>0, <1>1, <1>2, OthersKeep
<1>4. \A b \in Call : b # c => With(b)' = With(b)
  BY <1>1, <1>2 DEF With
<1>5. Kept(d)' \subseteq Kept(d) \cup {k}
  BY <1>0, <1>1, <1>2 DEF Kept
<1>6. LoginApart(d)'
  <2>1. Kept(d) \subseteq Held
    BY KeptIsHeld
  <2>2. {mem[d].refresh} \cup With(Front(d)) \cup With(Refresher(d)) \subseteq Held
    BY <2>1 DEF Kept
  <2>3. CASE c = Front(d)
    <3>1. With(Refresher(d))' = With(Refresher(d)) /\ With(Front(d))' \subseteq With(Front(d)) \cup {k}
      BY <1>0, <1>2, <1>4, <2>3
    <3> QED BY <1>0, <1>1, <1>2, <2>2, <3>1 DEF LoginApart
  <2>4. CASE c = Refresher(d)
    <3>1. With(Front(d))' = With(Front(d)) /\ With(Refresher(d))' \subseteq With(Refresher(d)) \cup {k}
      BY <1>0, <1>2, <1>4, <2>4
    <3> QED BY <1>0, <1>1, <1>2, <2>2, <3>1 DEF LoginApart
  <2> QED BY <1>0, <2>3, <2>4
<1> QED BY <1>2, <1>3, <1>5, <1>6 DEF Gains

LEMMA RestartGains ==
  ASSUME MobileInv, NEW d \in Device, Restart(d)
  PROVE  Gains(d)
<1>0. /\ mem \in [Device -> Pair] /\ Front(d) \in Call /\ Refresher(d) \in Call
      /\ {Front(d), Refresher(d)} = {d} \X Flow
  BY Types, CallsOfDevices DEF MobileInv, Front, Refresher, Flow
<1>1. /\ disk' = disk /\ mem'[d].refresh \in {None, disk[d].refresh}
      /\ \A e \in Device : e # d => mem'[e] = mem[e]
  BY <1>0 DEF Restart, NoTokens, Tokens
<1>2. \A b \in Call : IF b \in {Front(d), Refresher(d)} THEN got'[b] = NoTokens /\ req'[b] = NoRequest
                      ELSE got'[b] = got[b] /\ req'[b] = req[b]
  BY <1>0 DEF Restart
<1>3. \A e \in Device : e # d => Untouched(e)
  BY <1>1, <1>2, OthersKeep
<1>4. With(Front(d))' = {None} /\ With(Refresher(d))' = {None}
  BY <1>0, <1>2 DEF With, NoTokens, Tokens, NoRequest, Request
<1>5. LoginApart(d)' /\ Kept(d)' \subseteq Kept(d) \cup {None}
  BY <1>1, <1>4 DEF LoginApart, Kept
<1> QED BY <1>3, <1>5 DEF Gains

LEMMA ApartKept ==
  ASSUME MobileInv, [Next]_vars
  PROVE  DevicesApart' /\ \A d \in Device : LoginApart(d)'
<1>1. ASSUME NEW d \in Device, Gains(d)
      PROVE  DevicesApart' /\ \A e \in Device : LoginApart(e)'
  <2>1. \A e \in Device : e # d => Kept(e)' = Kept(e)
    BY <1>1 DEF Gains, Untouched
  <2>2. DevicesApart'
    BY <1>1, <2>1, StillApart DEF Gains, MobileInv
  <2> QED BY <1>1, <2>2 DEF Gains, Untouched
<1>2. CASE UNCHANGED <<mem, disk, got, req>>
  <2>1. \A b : With(b)' = With(b)
    BY <1>2 DEF With
  <2>2. \A d \in Device : Kept(d)' = Kept(d)
    BY <1>2, <2>1 DEF Kept
  <2>3. \A d \in Device : LoginApart(d)'
    BY <1>2, <2>1 DEF LoginApart, MobileInv
  <2> QED BY <2>2, <2>3 DEF DevicesApart, MobileInv
<1>3. ASSUME NEW d \in Device, NEW f \in Flow, Flows(d, f)
      PROVE  Gains(d)
  BY <1>3, HearGains, StoreGains DEF Flows
<1>4. ASSUME NEW c \in Call, Server(c)
      PROVE  \E d \in Device : Gains(d)
  BY <1>4, CallsOfDevices, ServerGains
<1>5. ASSUME NEW c \in Call, Fail(c), UNCHANGED deviceVars
      PROVE  UNCHANGED <<mem, disk, got, req>>
  BY <1>5 DEF Fail, Go, deviceVars, flows
<1>6. ASSUME NEW s \in Session, Lapse(s) \/ Expire(s), UNCHANGED deviceVars
      PROVE  UNCHANGED <<mem, disk, got, req>>
  BY <1>6 DEF Lapse, Expire, calls, deviceVars, flows
<1>7. UNCHANGED vars => UNCHANGED <<mem, disk, got, req>>
  BY DEF vars, serverVars, calls, deviceVars, flows
<1> QED BY <1>1, <1>2, <1>3, <1>4, <1>5, <1>6, <1>7, AskGains, RestartGains DEF Next

-----------------------------------------------------------------------------
(* Who falls behind *)

\* Unless its app is killed, no device falls behind: a refresh that ends without
\* new tokens ends the login.
LEMMA NobodyFallsBehind ==
  ASSUME MobileInv, [Next]_vars, \A d \in Device : ~Restart(d)
  PROVE  Behind' \subseteq Behind /\ kills' = kills
<1>0. /\ mem \in [Device -> Pair] /\ got \in [Call -> Pair] /\ \A c \in Call : FlowCall(c)
      /\ step \in [Call -> {"idle", "call", "access", "refresh", "state", "wipe", "forget"}]
  BY Types DEF MobileInv
<1>1. ASSUME NEW d \in Device, mem'[d] = mem[d], step'[Refresher(d)] = step[Refresher(d)],
             d \in Behind'
      PROVE  d \in Behind
  <2>1. step[Refresher(d)] = "idle" /\ mem[d] # NoTokens /\ mem[d].refresh \notin Current'
    BY <1>1 DEF Behind, LoggedIn
  <2>2. mem[d].refresh # None
    BY <2>1 DEF MobileInv, Whole
  <2>3. ASSUME mem[d].refresh \in Current
        PROVE  FALSE
    <3>1. PICK e \in Device : /\ step[Refresher(e)] = "call"
                              /\ req[Refresher(e)].token = mem[d].refresh
      BY <2>1, <2>2, <2>3, CurrentStays
    <3>2. mem[d].refresh \in Kept(e) \cap Kept(d)
      BY <3>1 DEF Kept, With
    <3>3. e = d
      BY <2>2, <3>2 DEF MobileInv, DevicesApart
    <3> QED BY <2>1, <3>1, <3>3
  <2> QED BY <2>1, <2>3 DEF Behind, LoggedIn
<1>2. ASSUME NEW d \in Device, NEW f \in Flow, Hear(<<d, f>>)
      PROVE  Behind' \subseteq Behind /\ kills' = kills
  <2>1. mem' = mem /\ kills' = kills
    BY <1>2 DEF Hear
  <2>2. \A e \in Device : step'[Refresher(e)] # step[Refresher(e)] => step'[Refresher(e)] # "idle"
    <3> SUFFICES ASSUME NEW e \in Device, step'[Refresher(e)] # step[Refresher(e)]
                 PROVE  step'[Refresher(e)] # "idle"
      OBVIOUS
    <3>1. Refresher(e) = <<d, f>>
      BY <1>0, <1>2, CallsOfDevices DEF Hear, GoOn
    <3>2. pc[Refresher(e)] \in {"ok", "failed"} /\ req[Refresher(e)].kind = "refresh"
      BY <1>0, <1>2, <3>1, CallsOfDevices DEF Hear, FlowCall, Refresher
    <3> QED BY <1>0, <1>2, <3>1, <3>2, CallsOfDevices DEF Hear, GoOn, AfterFailure
  <2> QED BY <1>1, <2>1, <2>2 DEF Behind
<1>3. ASSUME NEW d \in Device, NEW f \in Flow,
             \/ WriteAccess(d, f) \/ WriteRefresh(d, f) \/ SetState(d, f) \/ Wipe(d, f) \/ Forget(d, f)
      PROVE  Behind' \subseteq Behind /\ kills' = kills
  <2>0. kills' = kills /\ <<d, f>> \in Call /\ Current' = Current
    BY <1>3, CallsOfDevices DEF WriteAccess, WriteRefresh, SetState, Wipe, Forget, serverVars, rows, Current
  <2>1. \A e \in Device : e # d => mem'[e] = mem[e] /\ step'[Refresher(e)] = step[Refresher(e)]
    <3>1. \A e \in Device : e # d => mem'[e] = mem[e]
      BY <1>0, <1>3 DEF WriteAccess, WriteRefresh, SetState, Wipe, Forget
    <3>2. \A c \in Call : c # <<d, f>> => step'[c] = step[c]
      BY <1>0, <1>3 DEF WriteAccess, WriteRefresh, SetState, Wipe, Forget, GoOn
    <3>3. \A e \in Device : e # d => Refresher(e) \in Call /\ Refresher(e) # <<d, f>>
      BY CallsOfDevices DEF Refresher
    <3> QED BY <3>1, <3>2, <3>3
  <2>2. ASSUME d \in Behind'
        PROVE  d \in Behind
    <3>1. CASE SetState(d, f)
      <4>1. mem'[d] = got[<<d, f>>] /\ Storing(<<d, f>>)
        BY <1>0, <3>1 DEF SetState, Storing
      <4>2. mem'[d].refresh \in Current'
        BY <2>0, <4>1 DEF MobileInv, OnTheirWay
      <4> QED BY <2>2, <4>2 DEF Behind
    <3>2. CASE Forget(d, f)
      <4>1. mem'[d] = NoTokens
        BY <1>0, <3>2 DEF Forget
      <4> QED BY <2>2, <4>1 DEF Behind, LoggedIn
    <3>3. CASE WriteAccess(d, f) \/ WriteRefresh(d, f) \/ Wipe(d, f)
      <4>1. PICK s \in {"refresh", "state", "forget"} : step' = [step EXCEPT ![<<d, f>>] = s]
        BY <3>3 DEF WriteAccess, WriteRefresh, Wipe, GoOn
      <4>2. Refresher(d) \in Call
        BY CallsOfDevices
      <4>3. step'[Refresher(d)] = step[Refresher(d)] \/ step'[Refresher(d)] # "idle"
        BY <1>0, <4>1, <4>2
      <4>4. mem' = mem
        BY <3>3 DEF WriteAccess, WriteRefresh, Wipe
      <4> QED BY <1>1, <2>2, <4>3, <4>4 DEF Behind
    <3> QED BY <1>3, <3>1, <3>2, <3>3
  <2>3. Behind' \subseteq Behind
    BY <1>1, <2>1, <2>2 DEF Behind
  <2> QED BY <2>0, <2>3
<1>4. ASSUME NEW d \in Device, LogIn(d) \/ LogOut(d) \/ TryRefresh(d)
      PROVE  Behind' \subseteq Behind /\ kills' = kills
  <2>1. PICK c \in Call : \E r : Ask(c, r)
    BY <1>4, CallsOfDevices DEF LogIn, LogOut, TryRefresh, Front, Refresher
  <2>2. mem' = mem /\ kills' = kills /\ step' = [step EXCEPT ![c] = "call"]
    BY <2>1 DEF Ask, GoOn
  <2>3. \A e \in Device : step'[Refresher(e)] # step[Refresher(e)] => step'[Refresher(e)] # "idle"
    BY <1>0, <2>2, CallsOfDevices
  <2> QED BY <1>1, <2>2, <2>3 DEF Behind
<1>5. CASE UNCHANGED <<mem, step, kills>>
  BY <1>1, <1>5 DEF Behind
<1>6. ASSUME NEW c \in Call, Server(c)
      PROVE  UNCHANGED <<mem, step, kills>>
  BY <1>6, ServerStep
<1>7. UNCHANGED deviceVars => UNCHANGED <<mem, step, kills>>
  BY DEF deviceVars, flows
<1>8. ASSUME NEW d \in Device, NEW f \in Flow, Flows(d, f)
      PROVE  Behind' \subseteq Behind /\ kills' = kills
  BY <1>2, <1>3, <1>8 DEF Flows
<1> QED BY <1>4, <1>5, <1>6, <1>7, <1>8 DEF Next, vars

\* Killing an app costs that device its tokens at most.
LEMMA KillCosts ==
  ASSUME MobileInv, NEW d \in Device, Restart(d)
  PROVE  Behind' \subseteq Behind \cup {d} /\ kills' = kills + 1
<1>0. mem \in [Device -> Pair]
  BY Types DEF MobileInv
<1>1. kills' = kills + 1 /\ hash' = hash
  BY DEF Restart, rows
<1>2. ASSUME NEW e \in Device, e # d, e \in Behind'
      PROVE  e \in Behind
  <2>1. mem'[e] = mem[e] /\ Refresher(e) \notin {d} \X Flow
    BY <1>0, <1>2 DEF Restart, Refresher
  <2>2. step'[Refresher(e)] = step[Refresher(e)]
    BY <2>1, CallsOfDevices DEF Restart
  <2> QED BY <1>1, <1>2, <2>1, <2>2 DEF Behind, LoggedIn, Current
<1> QED BY <1>1, <1>2 DEF Behind

\* A set that gains one element at most is larger by one at most.
LEMMA OneMore ==
  ASSUME NEW A, NEW B, NEW x, NEW n \in Nat, B \subseteq A \cup {x},
         IsFiniteSet(A), Cardinality(A) <= n
  PROVE  IsFiniteSet(B) /\ Cardinality(B) <= n + 1
<1>1. Cardinality(A) \in Nat
  BY FS_CardinalityType
<1>2. /\ IsFiniteSet(A \cup {x}) /\ Cardinality(A \cup {x}) \in Nat
      /\ Cardinality(A \cup {x}) <= n + 1
  <2>1. CASE x \in A
    <3>1. A \cup {x} = A
      BY <2>1
    <3>2. Cardinality(A) <= n + 1
      BY <1>1
    <3> QED BY <1>1, <3>1, <3>2, Zenon
  <2>2. CASE x \notin A
    BY <1>1, <2>2, FS_AddElement
  <2> QED BY <2>1, <2>2
<1>3. /\ IsFiniteSet(B) /\ Cardinality(B) \in Nat
      /\ Cardinality(B) <= Cardinality(A \cup {x})
  BY <1>2, FS_Subset, FS_CardinalityType
<1> QED BY <1>2, <1>3

LEMMA KillsInvKept ==
  ASSUME MobileInv, KillsInv, [Next]_vars
  PROVE  KillsInv'
<1>0. kills \in Nat
  BY Types DEF MobileInv
<1>1. CASE \E d \in Device : Restart(d)
  <2>1. PICK d \in Device : Restart(d)
    BY <1>1
  <2>2. Behind' \subseteq Behind \cup {d} /\ kills' = kills + 1
    BY <2>1, KillCosts
  <2>3. IsFiniteSet(Behind') /\ Cardinality(Behind') <= kills + 1
    BY <1>0, <2>2, OneMore DEF KillsInv
  <2> QED BY <2>2, <2>3 DEF KillsInv
<1>2. CASE \A d \in Device : ~Restart(d)
  <2>1. Behind' \subseteq Behind /\ kills' = kills
    BY <1>2, NobodyFallsBehind
  <2>2. /\ IsFiniteSet(Behind') /\ Cardinality(Behind') <= Cardinality(Behind)
        /\ Cardinality(Behind') \in Nat /\ Cardinality(Behind) \in Nat
    BY <2>1, FS_Subset, FS_CardinalityType DEF KillsInv
  <2> QED BY <1>0, <2>1, <2>2 DEF KillsInv
<1> QED BY <1>1, <1>2

-----------------------------------------------------------------------------
LEMMA MobileInvInit == Init => MobileInv /\ KillsInv
<1> SUFFICES ASSUME Init PROVE MobileInv /\ KillsInv
  OBVIOUS
<1>1. SessionInv /\ ServerInit
  BY SessionInvInit DEF Init
<1>2. NoTokens \in Pair /\ NoTokens.refresh = None /\ NoRequest.token = None
  BY DEF NoTokens, Tokens, Pair, NoRequest, Request
<1>3. DeviceTyped
  BY <1>2, MobileAssumption DEF Init, DeviceTyped
<1>4. \A c \in Call : /\ step[c] = "idle" /\ pc[c] = "idle" /\ req[c] = NoRequest
                      /\ got[c] = NoTokens
  BY <1>1 DEF Init, ServerInit
<1>5. \A c \in Call : FlowCall(c) /\ OnTheirWay(c)
  BY <1>4 DEF FlowCall, OnTheirWay, Given, Storing
<1>6. \A d \in Device : mem[d] = NoTokens /\ disk[d] = NoTokens
  BY DEF Init
<1>7. \A c \in Call : With(c) = {None}
  BY <1>2, <1>4 DEF With
<1>8. \A d \in Device : Kept(d) = {None} /\ Whole(d) /\ LoginApart(d)
  BY <1>2, <1>6, <1>7, CallsOfDevices DEF Kept, Whole, LoginApart
<1>9. DevicesApart
  BY <1>8 DEF DevicesApart
<1>10. Behind = {} /\ kills = 0
  BY <1>6 DEF Behind, LoggedIn, Init
<1>11. KillsInv
  BY <1>10, FS_EmptySet DEF KillsInv
<1> QED BY <1>1, <1>3, <1>5, <1>8, <1>9, <1>11 DEF MobileInv

LEMMA MobileInvNext == MobileInv /\ KillsInv /\ [Next]_vars => (MobileInv /\ KillsInv)'
<1> SUFFICES ASSUME MobileInv, KillsInv, [Next]_vars PROVE (MobileInv /\ KillsInv)'
  OBVIOUS
<1>1. SessionInv' /\ DeviceTyped'
  BY SessionKept, DevicesTyped
<1>2. \A c \in Call : FlowCall(c)' /\ OnTheirWay(c)'
  BY FlowCallKept, OnTheirWayKept
<1>3. \A d \in Device : Whole(d)'
  BY WholeKept
<1>4. MobileInv'
  BY <1>1, <1>2, <1>3, ApartKept DEF MobileInv
<1> QED BY <1>4, KillsInvKept

\* Every variable of the devices and of the server keeps its type.
THEOREM MobileTypes == Spec => []TypeOK
<1>1. MobileInv => TypeOK
  BY DEF MobileInv, SessionInv, Typed, DeviceTyped, Pair, TypeOK
<1> QED BY MobileInvInit, MobileInvNext, <1>1, PTL DEF Spec

\* For any number of devices, sessions and lost answers: no more devices are
\* left, at rest and logged in, with a token the server has replaced (rotate)
\* than times an app was killed (tryRefresh, _store, logout).
THEOREM OnlyKillsLeaveBehind == Spec => []StepBehindCostsKill
<1>1. MobileInv /\ KillsInv => StepBehindCostsKill
  <2> SUFFICES ASSUME MobileInv, KillsInv PROVE StepBehindCostsKill
    OBVIOUS
  <2> DEFINE Left == {d \in Device : AtRest(d) /\ LoggedIn(d) /\ mem[d].refresh \notin Current}
  <2>1. Left \subseteq Behind
    BY DEF Behind, AtRest, Flow, Refresher
  <2>2. /\ Cardinality(Left) <= Cardinality(Behind)
        /\ Cardinality(Left) \in Nat /\ Cardinality(Behind) \in Nat
    BY <2>1, FS_Subset, FS_CardinalityType DEF KillsInv
  <2>3. kills \in Nat
    BY Types DEF MobileInv
  <2> QED BY <2>2, <2>3 DEF KillsInv, StepBehindCostsKill
<1> QED BY MobileInvInit, MobileInvNext, <1>1, PTL DEF Spec
=============================================================================
