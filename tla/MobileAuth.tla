------------------------------ MODULE MobileAuth ------------------------------
(***************************************************************************)
(* The app's AuthController (mobile/lib/core/auth/auth_controller.dart)    *)
(* and the retry of its API client (core/network/api_client.dart)          *)
(* on devices of one account, composed with the server's Sessions.  A      *)
(* device runs two flows of Dart code that interleave at every await: the  *)
(* front one logs in and out, the other refreshes the tokens.  Tokens are  *)
(* kept in memory and, one key after the other, in the secure storage.     *)
(* The calls of others are left to Sessions: to a device, a block or a     *)
(* logout elsewhere is a session that ends.                                *)
(***************************************************************************)
EXTENDS Sessions

CONSTANTS
  Device,
  MaxKills   \* bound: times the app is killed

Flow == {"front", "refresh"}

\* Each flow has one call under way at most: tryRefresh is "single-flight".
ASSUME MobileAssumption ==
  /\ Call = Device \X Flow
  /\ MayAsk = [c \in Call |-> Kinds]
  /\ MaxKills \in Nat

VARIABLES
  mem,    \* mem[d]: the controller's state, the tokens of device d
  disk,   \* disk[d]: the secure storage
  step,   \* step[c]: where the flow c = <<d, f>> is
  got,    \* got[c]: the tokens flow c is storing
  kills

flows == <<step, got>>
deviceVars == <<mem, disk, flows, kills>>
vars == <<serverVars, deviceVars>>

-----------------------------------------------------------------------------
\* An access token is known by its session.
Tokens(a, r) == [access |-> a, refresh |-> r]
NoTokens == Tokens(None, None)
LoggedIn(d) == mem[d] # NoTokens

Init ==
  /\ ServerInit
  /\ mem = [d \in Device |-> NoTokens]
  /\ disk = [d \in Device |-> NoTokens]
  /\ step = [c \in Call |-> "idle"]
  /\ got = [c \in Call |-> NoTokens]
  /\ kills = 0

GoOn(c, s) == step' = [step EXCEPT ![c] = s]

Ask(c, r) ==
  /\ step[c] = "idle"
  /\ Begin(c, r)
  /\ GoOn(c, "call")
  /\ UNCHANGED <<mem, disk, got, kills>>

\* verifyOtp
LogIn(d) == ~LoggedIn(d) /\ Ask(<<d, "front">>, LoginRequest)

\* logout asks the server to revoke the session ...
LogOut(d) == LoggedIn(d) /\ Ask(<<d, "front">>, LogoutRequest(mem[d].access, FALSE))

\* ... and tryRefresh follows a 401, which may answer a call made with an
\* earlier access token.
TryRefresh(d) == LoggedIn(d) /\ Ask(<<d, "refresh">>, RefreshRequest(mem[d].refresh))

AfterFailure_KeepTokens(kind) == IF kind = "logout" THEN "wipe" ELSE "idle"

\* Whatever failed, a refresh that failed logs the device out, and a logout
\* "must succeed even offline".
AfterFailure(kind) == IF kind = "login" THEN "idle" ELSE "wipe"

\* The answer: tokens to store, the logout done, or an error.
Hear(c) ==
  /\ step[c] = "call"
  /\ Leave(c)
  /\ \/ /\ pc[c] = "ok" /\ req[c].kind # "logout"
        /\ got' = [got EXCEPT ![c] = Tokens(req[c].session, req[c].token)]
        /\ GoOn(c, "access")
     \/ pc[c] = "ok" /\ req[c].kind = "logout" /\ UNCHANGED got /\ GoOn(c, "wipe")
     \/ pc[c] = "failed" /\ UNCHANGED got /\ GoOn(c, AfterFailure(req[c].kind))
  /\ UNCHANGED <<mem, disk, kills>>

-----------------------------------------------------------------------------
(* _store, and the second half of logout *)

WriteAccess(d, f) ==
  /\ step[<<d, f>>] = "access"
  /\ disk' = [disk EXCEPT ![d].access = got[<<d, f>>].access]
  /\ GoOn(<<d, f>>, "refresh")
  /\ UNCHANGED <<serverVars, mem, got, kills>>

WriteRefresh(d, f) ==
  /\ step[<<d, f>>] = "refresh"
  /\ disk' = [disk EXCEPT ![d].refresh = got[<<d, f>>].refresh]
  /\ GoOn(<<d, f>>, "state")
  /\ UNCHANGED <<serverVars, mem, got, kills>>

SetState_AccessOnly(d, f) ==
  /\ step[<<d, f>>] = "state"
  /\ mem' = [mem EXCEPT ![d] = IF LoggedIn(d) THEN [@ EXCEPT !.access = got[<<d, f>>].access]
                               ELSE got[<<d, f>>]]
  /\ got' = [got EXCEPT ![<<d, f>>] = NoTokens]
  /\ GoOn(<<d, f>>, "idle")
  /\ UNCHANGED <<serverVars, disk, kills>>

\* Even after a logout that was faster: nothing compares the two.
SetState(d, f) ==
  /\ step[<<d, f>>] = "state"
  /\ mem' = [mem EXCEPT ![d] = got[<<d, f>>]]
  /\ got' = [got EXCEPT ![<<d, f>>] = NoTokens]
  /\ GoOn(<<d, f>>, "idle")
  /\ UNCHANGED <<serverVars, disk, kills>>

Wipe(d, f) ==
  /\ step[<<d, f>>] = "wipe"
  /\ disk' = [disk EXCEPT ![d] = NoTokens]
  /\ GoOn(<<d, f>>, "forget")
  /\ UNCHANGED <<serverVars, mem, got, kills>>

Forget(d, f) ==
  /\ step[<<d, f>>] = "forget"
  /\ mem' = [mem EXCEPT ![d] = NoTokens]
  /\ GoOn(<<d, f>>, "idle")
  /\ UNCHANGED <<serverVars, disk, got, kills>>

Flows(d, f) ==
  \/ Hear(<<d, f>>)
  \/ WriteAccess(d, f) \/ WriteRefresh(d, f) \/ SetState(d, f)
  \/ Wipe(d, f) \/ Forget(d, f)

\* The app is killed, its calls with it, and started again:
\* loadStoredTokens wants both tokens.
Restart(d) ==
  LET mine == {d} \X Flow IN
  /\ kills < MaxKills
  /\ kills' = kills + 1
  /\ mem' = [mem EXCEPT ![d] =
               IF None \in {disk[d].access, disk[d].refresh} THEN NoTokens ELSE disk[d]]
  /\ step' = [c \in Call |-> IF c \in mine THEN "idle" ELSE step[c]]
  /\ got' = [c \in Call |-> IF c \in mine THEN NoTokens ELSE got[c]]
  /\ pc' = [c \in Call |-> IF c \in mine THEN "idle" ELSE pc[c]]
  /\ req' = [c \in Call |-> IF c \in mine THEN NoRequest ELSE req[c]]
  /\ past' = past \ mine
  /\ UNCHANGED <<rows, valid, swept, slipped, bounds, disk>>

-----------------------------------------------------------------------------
\* Tokens are in use on the server and on the devices.
Held == InUse \cup {mem[d].refresh : d \in Device} \cup {disk[d].refresh : d \in Device}
          \cup {got[c].refresh : c \in Call}

Server(c) == Serve(c, Fresh(Held)) /\ UNCHANGED deviceVars

Next ==
  \/ \E d \in Device :
       \/ LogIn(d) \/ LogOut(d) \/ TryRefresh(d) \/ Restart(d)
       \/ \E f \in Flow : Flows(d, f)
  \/ \E c \in Call : Server(c) \/ (Fail(c) /\ UNCHANGED deviceVars)
  \/ \E s \in Session : (Lapse(s) \/ Expire(s)) /\ UNCHANGED deviceVars

Spec == Init /\ [][Next]_vars

\* Calls are answered, flows run on, access tokens expire, and an app that is
\* logged in goes on using the API, so that an expired access token is noticed.
FairSpec ==
  /\ Spec
  /\ \A c \in Call : WF_vars(Server(c))
  /\ \A d \in Device, f \in Flow : WF_vars(Flows(d, f))
  /\ \A s \in Session : WF_vars(Lapse(s) /\ UNCHANGED deviceVars)
  /\ \A d \in Device : WF_vars(mem[d].access \notin valid /\ TryRefresh(d))

-----------------------------------------------------------------------------
(* Properties *)

\* Every variable holds a value of its type.
TypeOK ==
  /\ ServerTypeOK
  /\ mem \in [Device -> [access : Session \cup {None}, refresh : Token \cup {None}]]
  /\ disk \in [Device -> [access : Session \cup {None}, refresh : Token \cup {None}]]
  /\ step \in [Call -> {"idle", "call", "access", "refresh", "state", "wipe", "forget"}]
  /\ got \in [Call -> [access : Session \cup {None}, refresh : Token \cup {None}]]
  /\ kills \in 0..MaxKills

AtRest(d) == \A f \in Flow : step[<<d, f>>] = "idle"
Current == {hash[s] : s \in Session}

\* The server forgets a refresh token before the device has the next one, the
\* answer may be lost, and two flows store tokens as they come; yet a device
\* is left with a token the server has replaced only where the app was killed.
StepBehindCostsKill ==
  Cardinality({d \in Device : AtRest(d) /\ LoggedIn(d) /\ mem[d].refresh \notin Current})
    <= kills

Works(d) == \E s \in Live : hash[s] = mem[d].refresh

\* A device does not stay logged in on tokens the server no longer accepts,
\* be it a lost answer, a block, a logout elsewhere or the expiry.
DeadTokensAreDropped ==
  \A d \in Device : (LoggedIn(d) /\ ~Works(d)) ~> (~LoggedIn(d) \/ Works(d))
=============================================================================
