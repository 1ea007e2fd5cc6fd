------------------------------ MODULE AppSettings ------------------------------
(***************************************************************************)
(* The runtime settings that an admin edits with one request               *)
(* (backend/src/api/app_config.rs, update, over                            *)
(* backend/src/infra/db/settings.rs).  The handler stores the settings the *)
(* request names one after the other, each by a statement of its own, the  *)
(* promo banner merged over a copy read before; a value that is refused    *)
(* ends the request, what was stored before it stays; one audit row at the *)
(* end lists all that was stored.  Of the settings, the banner, one that   *)
(* is validated and the flag support_online stand for the rest.            *)
(***************************************************************************)
EXTENDS Naturals, FiniteSets

CONSTANTS
  Editor,      \* the requests to update that run at the same time
  Edits,       \* the edits a request may carry
  MaxEdits,    \* bound: requests to update that arrive
  MaxFailures  \* bound: requests lost

Part == {"enabled", "title"}

\* What an edit names of the banner, the build it sets, and the flag.
Edit == [parts : SUBSET Part, build : {"keep", "ok", "refused"},
         online : {"keep", "on", "off"}]

ASSUME SettingsAssumption ==
  /\ Edits \subseteq Edit
  /\ MaxEdits \in Nat /\ MaxFailures \in Nat

VARIABLES
  online,    \* support_online
  banner,    \* banner[p]: the edit that part p of promo_banner comes from, 0 at first
  build,     \* the edit min_build comes from
  epc,       \* epc[e]: the next statement of request e
  edit,      \* edit[e]: the edit request e carries out, with its number
  copy,      \* copy[e]: the banner request e has read
  merged,    \* history: the banner if reading and storing it were one step
  raced,     \* history: a banner was stored over one the request had not read
  stored, logged,  \* history: the edits that stored something, and those audited
  edits, refused, failures

settings == <<online, banner, build>>
editing == <<epc, edit, copy>>
trail == <<merged, raced, stored, logged>>
settingsVars == <<settings, editing, trail, edits, refused, failures>>

-----------------------------------------------------------------------------
NoBanner == [p \in Part |-> 0]
NoEdit == [n |-> 0, what |-> [parts |-> {}, build |-> "keep", online |-> "keep"]]

SettingsInit ==
  /\ online = FALSE /\ banner = NoBanner /\ build = 0
  /\ epc = [e \in Editor |-> "idle"]
  /\ edit = [e \in Editor |-> NoEdit]
  /\ copy = [e \in Editor |-> NoBanner]
  /\ merged = NoBanner /\ raced = FALSE
  /\ stored = {} /\ logged = {}
  /\ edits = 0 /\ refused = 0 /\ failures = 0

\* The statements come in the order of the code; those the edit does not name
\* are skipped.
AfterBuild(x) == IF x.online # "keep" THEN "online" ELSE "log"
AfterBanner(x) == IF x.build # "keep" THEN "build" ELSE AfterBuild(x)
FirstStep(x) == IF x.parts # {} THEN "load" ELSE AfterBanner(x)

Continue(e, step) == epc' = [epc EXCEPT ![e] = step] /\ UNCHANGED <<edit, copy>>

Finish(e) ==
  /\ epc' = [epc EXCEPT ![e] = "idle"]
  /\ edit' = [edit EXCEPT ![e] = NoEdit]
  /\ copy' = [copy EXCEPT ![e] = NoBanner]

Update(e, x) ==
  /\ epc[e] = "idle"
  /\ edits < MaxEdits
  /\ edits' = edits + 1
  /\ epc' = [epc EXCEPT ![e] = FirstStep(x)]
  /\ edit' = [edit EXCEPT ![e] = [n |-> edits + 1, what |-> x]]
  /\ UNCHANGED <<settings, copy, trail, refused, failures>>

LoadBanner(e) ==
  /\ epc[e] = "load"
  /\ copy' = [copy EXCEPT ![e] = banner]
  /\ epc' = [epc EXCEPT ![e] = "banner"]
  /\ UNCHANGED <<settings, edit, trail, edits, refused, failures>>

Store(e) == stored' = stored \cup {edit[e].n}

Over(old, x, n) == [p \in Part |-> IF p \in x.parts THEN n ELSE old[p]]

\* Operators with a capitalised suffix are faulty variants of the definition
\* that follows them.  No action uses them: they stand in for it to show that
\* the properties notice the fault.

SetBanner_Replace(e) ==
  LET x == edit[e].what IN
  /\ epc[e] = "banner"
  /\ banner' = Over(NoBanner, x, edit[e].n)
  /\ merged' = Over(merged, x, edit[e].n)
  /\ raced' = (raced \/ banner # copy[e])
  /\ Store(e)
  /\ Continue(e, AfterBanner(x))
  /\ UNCHANGED <<online, build, logged, edits, refused, failures>>

\* "Merge over the current banner so a partial edit keeps the rest."
SetBanner(e) ==
  LET x == edit[e].what IN
  /\ epc[e] = "banner"
  /\ banner' = Over(copy[e], x, edit[e].n)
  /\ merged' = Over(merged, x, edit[e].n)
  /\ raced' = (raced \/ banner # copy[e])
  /\ Store(e)
  /\ Continue(e, AfterBanner(x))
  /\ UNCHANGED <<online, build, logged, edits, refused, failures>>

SetBuild(e) ==
  LET x == edit[e].what IN
  /\ epc[e] = "build"
  /\ \/ /\ x.build = "ok"
        /\ build' = edit[e].n
        /\ Store(e)
        /\ Continue(e, AfterBuild(x))
        /\ UNCHANGED refused
     \/ /\ x.build = "refused"
        /\ refused' = refused + 1
        /\ Finish(e)
        /\ UNCHANGED <<build, stored>>
  /\ UNCHANGED <<online, banner, merged, raced, logged, edits, failures>>

SetOnline_Unlogged(e) ==
  /\ epc[e] = "online"
  /\ online' = (edit[e].what.online = "on")
  /\ Store(e)
  /\ Finish(e)
  /\ UNCHANGED <<banner, build, merged, raced, logged, edits, refused, failures>>

SetOnline(e) ==
  /\ epc[e] = "online"
  /\ online' = (edit[e].what.online = "on")
  /\ Store(e)
  /\ Continue(e, "log")
  /\ UNCHANGED <<banner, build, merged, raced, logged, edits, refused, failures>>

LogEdit(e) ==
  /\ epc[e] = "log"
  /\ logged' = logged \cup {edit[e].n}
  /\ Finish(e)
  /\ UNCHANGED <<settings, merged, raced, stored, edits, refused, failures>>

LoseEdit(e) ==
  /\ epc[e] # "idle"
  /\ failures < MaxFailures
  /\ failures' = failures + 1
  /\ Finish(e)
  /\ UNCHANGED <<settings, trail, edits, refused>>

ServeEdit(e) ==
  LoadBanner(e) \/ SetBanner(e) \/ SetBuild(e) \/ SetOnline(e) \/ LogEdit(e)

SettingsNext ==
  \E e \in Editor : \/ \E x \in Edits : Update(e, x)
                    \/ ServeEdit(e) \/ LoseEdit(e)

SettingsSpec == SettingsInit /\ [][SettingsNext]_settingsVars

-----------------------------------------------------------------------------
(* Properties *)

\* "... so a partial edit keeps the rest": reading the banner and storing it
\* are two statements, and yet a part that an edit did not name is what the
\* edits before made of it, unless two edits overlapped.
BannerEditsStand == ~raced => banner = merged

UnderWay == {edit[e].n : e \in {f \in Editor : epc[f] # "idle"}}

\* The settings are stored one by one and audited together, at the end: an
\* edit that changed anything is in the audit trail, but for one edit for each
\* request that was refused half way or lost.
UnloggedEditsWereCutShort ==
  Cardinality(stored \ (logged \cup UnderWay)) <= refused + failures
=============================================================================
