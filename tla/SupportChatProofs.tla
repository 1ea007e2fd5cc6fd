--------------------------- MODULE SupportChatProofs ---------------------------
(***************************************************************************)
(* What the audit row of a settings edit is worth, that partial edits of   *)
(* the banner keep each other's parts, and that the bot falls silent when  *)
(* a human takes over: for any number of admins, edits and messages, in    *)
(* the settings alone and composed with the chat.                          *)
(***************************************************************************)
EXTENDS SupportChat, FiniteSetTheorems, TLAPS

USE SettingsAssumption

(* The settings *)

EditStep == {"idle", "load", "banner", "build", "online", "log"}

SettingsTyped ==
  /\ epc \in [Editor -> EditStep]
  /\ edit \in [Editor -> [n : Nat, what : Edit]]
  /\ edits \in Nat /\ refused \in Nat /\ failures \in Nat

\* The edits that stored something and will never be in the audit trail.
Unaudited == stored \ (logged \cup UnderWay)

SettingsInv ==
  /\ SettingsTyped
  /\ BannerEditsStand
  /\ IsFiniteSet(Unaudited) /\ UnloggedEditsWereCutShort

LEMMA NextSteps ==
  ASSUME NEW x \in Edit
  PROVE  /\ AfterBuild(x) \in EditStep \ {"idle"}
         /\ AfterBanner(x) \in EditStep \ {"idle"}
         /\ FirstStep(x) \in EditStep \ {"idle"}
BY DEF AfterBuild, AfterBanner, FirstStep, EditStep

LEMMA SettingsInvInit == SettingsInit => SettingsInv
<1> SUFFICES ASSUME SettingsInit PROVE SettingsInv
  OBVIOUS
<1>1. NoEdit \in [n : Nat, what : Edit]
  BY DEF NoEdit, Edit
<1>2. SettingsTyped
  BY <1>1 DEF SettingsInit, SettingsTyped, EditStep
<1>3. Unaudited = {}
  BY DEF SettingsInit, Unaudited
<1>4. IsFiniteSet(Unaudited) /\ Cardinality(Unaudited) = 0
  BY <1>3, FS_EmptySet
<1> QED BY <1>2, <1>4
        DEF SettingsInv, SettingsInit, BannerEditsStand, UnloggedEditsWereCutShort, Unaudited

LEMMA FinishTyped ==
  ASSUME SettingsTyped, NEW e \in Editor, Finish(e)
  PROVE  /\ epc' \in [Editor -> EditStep]
         /\ edit' \in [Editor -> [n : Nat, what : Edit]]
         /\ UnderWay \ {edit[e].n} \subseteq UnderWay'
<1>1. NoEdit \in [n : Nat, what : Edit]
  BY DEF NoEdit, Edit
<1>2. \A f \in Editor : f # e => epc'[f] = epc[f] /\ edit'[f] = edit[f]
  BY DEF Finish, SettingsTyped
<1> QED BY <1>1, <1>2 DEF Finish, SettingsTyped, EditStep, UnderWay

LEMMA ContinueTyped ==
  ASSUME SettingsTyped, NEW e \in Editor, NEW s \in EditStep \ {"idle"}, Continue(e, s),
         epc[e] # "idle"
  PROVE  /\ epc' \in [Editor -> EditStep]
         /\ edit' \in [Editor -> [n : Nat, what : Edit]]
         /\ UnderWay' = UnderWay
<1>1. \A f \in Editor : epc[f] # "idle" <=> epc'[f] # "idle"
  BY DEF Continue, SettingsTyped
<1>2. edit' = edit
  BY DEF Continue
<1> QED BY <1>1, <1>2 DEF Continue, SettingsTyped, UnderWay

\* An edit is left out of the audit trail by the step that refuses or loses it.
LEMMA WhatGoesUnaudited ==
  ASSUME SettingsTyped, SettingsNext
  PROVE  /\ SettingsTyped'
         /\ \/ Unaudited' \subseteq Unaudited /\ refused' = refused /\ failures' = failures
            \/ /\ \E n : Unaudited' \subseteq Unaudited \cup {n}
               /\ refused' + failures' = refused + failures + 1
<1>1. ASSUME NEW e \in Editor, NEW x \in Edits, Update(e, x)
      PROVE  SettingsTyped' /\ Unaudited' \subseteq Unaudited /\ refused' = refused /\ failures' = failures
  <2>1. x \in Edit /\ FirstStep(x) \in EditStep \ {"idle"}
    BY NextSteps
  <2>2. SettingsTyped'
    BY <1>1, <2>1 DEF Update, SettingsTyped
  <2>3. \A f \in Editor : epc[f] # "idle" => epc'[f] # "idle" /\ edit'[f] = edit[f]
    BY <1>1, <2>1 DEF Update, SettingsTyped
  <2> QED BY <1>1, <2>2, <2>3 DEF Update, trail, Unaudited, UnderWay
<1>2. ASSUME NEW e \in Editor, ServeEdit(e)
      PROVE  /\ SettingsTyped'
             /\ \/ Unaudited' \subseteq Unaudited /\ refused' = refused /\ failures' = failures
                \/ /\ Unaudited' \subseteq Unaudited \cup {edit[e].n}
                   /\ refused' + failures' = refused + failures + 1
  <2>0. edit[e].what \in Edit /\ edit[e].n \in Nat
    BY DEF SettingsTyped
  <2>1. CASE LoadBanner(e)
    <3>1. \A f \in Editor : epc'[f] # "idle" <=> epc[f] # "idle"
      BY <2>1 DEF LoadBanner, SettingsTyped
    <3>2. SettingsTyped'
      BY <2>1 DEF LoadBanner, SettingsTyped, EditStep
    <3> QED BY <2>1, <3>1, <3>2 DEF LoadBanner, trail, Unaudited, UnderWay
  <2>2. CASE LogEdit(e)
    <3>1. SettingsTyped' /\ UnderWay \ {edit[e].n} \subseteq UnderWay'
      BY <2>2, FinishTyped DEF LogEdit, SettingsTyped
    <3> QED BY <2>2, <3>1 DEF LogEdit, Unaudited
  <2>3. ASSUME NEW s \in EditStep \ {"idle"}, Continue(e, s), Store(e), epc[e] # "idle",
               UNCHANGED <<logged, edits, refused, failures>>
        PROVE  SettingsTyped' /\ Unaudited' \subseteq Unaudited
    <3>1. SettingsTyped' /\ UnderWay' = UnderWay
      BY <2>3, ContinueTyped DEF SettingsTyped
    <3>2. edit[e].n \in UnderWay
      BY <2>3 DEF UnderWay
    <3> QED BY <2>3, <3>1, <3>2 DEF Store, Unaudited
  <2>4. CASE SetBanner(e)
    BY <2>0, <2>3, <2>4, NextSteps DEF SetBanner
  <2>5. CASE SetOnline(e)
    BY <2>3, <2>5 DEF SetOnline, EditStep
  <2>6. CASE SetBuild(e)
    <3>1. CASE Continue(e, AfterBuild(edit[e].what)) /\ Store(e) /\ UNCHANGED refused
      BY <2>0, <2>3, <2>6, <3>1, NextSteps DEF SetBuild
    <3>2. CASE Finish(e) /\ refused' = refused + 1 /\ UNCHANGED stored
      <4>1. SettingsTyped' /\ UnderWay \ {edit[e].n} \subseteq UnderWay'
        BY <2>6, <3>2, FinishTyped DEF SetBuild, SettingsTyped
      <4>2. Unaudited' \subseteq Unaudited \cup {edit[e].n}
        BY <2>6, <3>2, <4>1 DEF SetBuild, Unaudited
      <4> QED BY <2>6, <3>2, <4>1, <4>2 DEF SetBuild, SettingsTyped
    <3> QED BY <2>6, <3>1, <3>2 DEF SetBuild
  <2> QED BY <1>2, <2>1, <2>2, <2>4, <2>5, <2>6
          DEF ServeEdit, LoadBanner, LogEdit, SetBanner, SetOnline
<1>3. ASSUME NEW e \in Editor, LoseEdit(e)
      PROVE  /\ SettingsTyped'
             /\ Unaudited' \subseteq Unaudited \cup {edit[e].n}
             /\ refused' + failures' = refused + failures + 1
  <2>1. SettingsTyped' /\ UnderWay \ {edit[e].n} \subseteq UnderWay'
    BY <1>3, FinishTyped DEF LoseEdit, SettingsTyped
  <2> QED BY <1>3, <2>1 DEF LoseEdit, SettingsTyped, Unaudited, trail
<1> QED BY <1>1, <1>2, <1>3 DEF SettingsNext

LEMMA NextBanner == BannerEditsStand /\ SettingsNext => BannerEditsStand'
<1> SUFFICES ASSUME BannerEditsStand, NEW e \in Editor,
                    (\E x \in Edits : Update(e, x)) \/ ServeEdit(e) \/ LoseEdit(e)
             PROVE  BannerEditsStand'
  BY DEF SettingsNext
<1>1. CASE SetBanner(e)
  BY <1>1 DEF SetBanner, BannerEditsStand, Over
<1>2. CASE ~SetBanner(e)
  BY <1>2 DEF ServeEdit, Update, LoadBanner, SetBuild, SetOnline, LogEdit, LoseEdit,
              settings, trail, BannerEditsStand
<1> QED BY <1>1, <1>2

\* A set that gains one element at most when its bound grows by one.
LEMMA AtMostOneMore ==
  ASSUME NEW A, NEW B, NEW m \in Nat, NEW n \in Nat,
         IsFiniteSet(A), Cardinality(A) <= m,
         \/ B \subseteq A /\ n >= m
         \/ n = m + 1 /\ \E x : B \subseteq A \cup {x}
  PROVE  IsFiniteSet(B) /\ Cardinality(B) <= n
<1>1. Cardinality(A) \in Nat
  BY FS_CardinalityType
<1>2. CASE B \subseteq A /\ n >= m
  <2>1. IsFiniteSet(B) /\ Cardinality(B) <= Cardinality(A) /\ Cardinality(B) \in Nat
    BY <1>2, FS_Subset, FS_CardinalityType
  <2> QED BY <1>1, <1>2, <2>1
<1>3. ASSUME NEW x, n = m + 1, B \subseteq A \cup {x}
      PROVE  IsFiniteSet(B) /\ Cardinality(B) <= n
  <2>1. /\ IsFiniteSet(A \cup {x}) /\ Cardinality(A \cup {x}) \in Nat
        /\ Cardinality(A \cup {x}) <= Cardinality(A) + 1
    <3>1. CASE x \in A
      <4>1. A \cup {x} = A
        BY <3>1
      <4>2. Cardinality(A) <= Cardinality(A) + 1
        BY <1>1
      <4> QED BY <1>1, <4>1, <4>2, Zenon
    <3>2. CASE x \notin A
      BY <1>1, <3>2, FS_AddElement
    <3> QED BY <3>1, <3>2
  <2>2. /\ IsFiniteSet(B) /\ Cardinality(B) \in Nat
        /\ Cardinality(B) <= Cardinality(A \cup {x})
    BY <1>3, <2>1, FS_Subset, FS_CardinalityType
  <2> QED BY <1>1, <1>3, <2>1, <2>2
<1> QED BY <1>2, <1>3

\* The bound grows with the edits that are refused or lost, and with whatever
\* else counts as a failure.
LEMMA UnauditedBound ==
  ASSUME SettingsInv, SettingsTyped', BannerEditsStand',
         \/ Unaudited' \subseteq Unaudited /\ refused' + failures' >= refused + failures
         \/ /\ refused' + failures' = refused + failures + 1
            /\ \E n : Unaudited' \subseteq Unaudited \cup {n}
  PROVE  SettingsInv'
<1> DEFINE old == refused + failures
           new == refused' + failures'
<1>1. old \in Nat /\ new \in Nat
  <2>1. refused \in Nat /\ failures \in Nat /\ refused' \in Nat /\ failures' \in Nat
    BY DEF SettingsInv, SettingsTyped
  <2>2. ASSUME NEW r \in Nat, NEW f \in Nat PROVE r + f \in Nat
    OBVIOUS
  <2> QED BY <2>1, <2>2
<1>2. IsFiniteSet(Unaudited) /\ Cardinality(Unaudited) <= old
  BY DEF SettingsInv, UnloggedEditsWereCutShort, Unaudited
<1>3. IsFiniteSet(Unaudited') /\ Cardinality(Unaudited') <= new
  <2> HIDE DEF old, new
  <2>1. \/ Unaudited' \subseteq Unaudited /\ new >= old
        \/ new = old + 1 /\ \E x : Unaudited' \subseteq Unaudited \cup {x}
    BY DEF old, new
  <2> QED BY <1>1, <1>2, <2>1, AtMostOneMore
<1> QED BY <1>3 DEF SettingsInv, UnloggedEditsWereCutShort, Unaudited

LEMMA SettingsInvNext == SettingsInv /\ [SettingsNext]_settingsVars => SettingsInv'
<1>1. ASSUME SettingsInv, SettingsNext PROVE SettingsInv'
  <2>1. SettingsTyped' /\ BannerEditsStand'
    BY <1>1, WhatGoesUnaudited, NextBanner DEF SettingsInv
  <2>2. \/ Unaudited' \subseteq Unaudited /\ refused' + failures' >= refused + failures
        \/ /\ refused' + failures' = refused + failures + 1
           /\ \E n : Unaudited' \subseteq Unaudited \cup {n}
    <3>1. SettingsTyped
      BY <1>1 DEF SettingsInv
    <3>2. refused \in Nat /\ failures \in Nat
      BY <3>1 DEF SettingsTyped
    <3>3. refused' = refused /\ failures' = failures => refused' + failures' >= refused + failures
      BY <3>2
    <3> QED BY <1>1, <3>1, <3>3, WhatGoesUnaudited
  <2> QED BY <1>1, <2>1, <2>2, UnauditedBound
<1>2. ASSUME SettingsInv, UNCHANGED settingsVars PROVE SettingsInv'
  BY <1>2 DEF settingsVars, settings, editing, trail, SettingsInv, SettingsTyped,
              BannerEditsStand, UnloggedEditsWereCutShort, Unaudited, UnderWay
<1> QED BY <1>1, <1>2

-----------------------------------------------------------------------------
(* The chat *)

ChatStep == {"idle", "store", "flag", "find", "create", "name", "ask", "reply"}

ChatInv ==
  /\ SettingsInv
  /\ pc \in [Task -> ChatStep] /\ bot \in {"absent", "unnamed", "named"}

\* A step of a task leaves the settings alone, or counts one more failure.
LEMMA TaskLeavesSettings ==
  ASSUME ChatInv, NEW t \in Task,
         \/ \E by \in {"customer", "staff"}, text \in BOOLEAN : Send(t, by, text)
         \/ Serve(t) \/ Fail(t)
  PROVE  ChatInv'
<1>1. pc' \in [Task -> ChatStep] /\ bot' \in {"absent", "unnamed", "named"}
  <2>1. CASE FindBot(t)
    BY <2>1 DEF FindBot, Go, ChatInv, ChatStep
  <2>2. CASE ~FindBot(t)
    BY <2>2 DEF Send, Serve, StoreMessage, CheckFlag, CreateBot, NameBot, AskModel, Reply, Fail,
                Go, Answer, ChatInv, ChatStep
  <2> QED BY <2>1, <2>2
<1>2. CASE UNCHANGED settingsVars
  BY <1>1, <1>2, SettingsInvNext DEF ChatInv
<1>3. CASE Fail(t)
  <2>1. Unaudited' = Unaudited
    BY <1>3 DEF Fail, editing, trail, Unaudited, UnderWay
  <2>2. SettingsTyped' /\ refused' + failures' = refused + failures + 1
    BY <1>3 DEF Fail, editing, ChatInv, SettingsInv, SettingsTyped
  <2>3. BannerEditsStand'
    BY <1>3 DEF Fail, settings, trail, ChatInv, SettingsInv, BannerEditsStand
  <2> QED BY <1>1, <2>1, <2>2, <2>3, UnauditedBound DEF ChatInv
<1> QED BY <1>2, <1>3 DEF Send, Serve, StoreMessage, CheckFlag, FindBot, CreateBot, NameBot,
                          AskModel, Reply

LEMMA ChatInductive ==
  /\ Init => ChatInv
  /\ ChatInv /\ [Next]_vars => ChatInv'
<1>1. Init => ChatInv
  BY SettingsInvInit DEF Init, ChatInv, ChatStep
<1>2. ASSUME ChatInv, [Next]_vars PROVE ChatInv'
  <2>1. CASE SettingsNext /\ UNCHANGED chatVars
    BY <1>2, <2>1, SettingsInvNext DEF ChatInv, chatVars
  <2>2. CASE UNCHANGED vars
    BY <1>2, <2>2, SettingsInvNext DEF ChatInv, chatVars, vars
  <2> QED BY <1>2, <2>1, <2>2, TaskLeavesSettings DEF Next
<1> QED BY <1>1, <1>2

\* Only the flag, found off, makes the bot speak.
LEMMA WhoSpeaks ==
  ASSUME ChatInv, [Next]_vars, online, online'
  PROVE  Speaking' \subseteq Speaking
<1>1. ASSUME NEW t \in Task,
             \/ \E by \in {"customer", "staff"}, text \in BOOLEAN : Send(t, by, text)
             \/ Serve(t) \/ Fail(t)
      PROVE  Speaking' \subseteq Speaking
  <2>1. \A s \in Task : s # t => pc'[s] = pc[s]
    BY <1>1 DEF Send, Serve, StoreMessage, CheckFlag, FindBot, CreateBot, NameBot, AskModel, Reply,
                Fail, Go, Answer, ChatInv
  <2>2. t \in Speaking' => t \in Speaking
    <3>1. CASE \/ \E by \in {"customer", "staff"}, text \in BOOLEAN : Send(t, by, text)
               \/ StoreMessage(t) \/ CheckFlag(t) \/ Fail(t)
      BY <3>1 DEF Send, StoreMessage, CheckFlag, Fail, Go, Answer, ChatInv, Speaking
    <3>2. CASE FindBot(t) \/ CreateBot(t) \/ NameBot(t) \/ AskModel(t) \/ Reply(t)
      BY <3>2 DEF FindBot, CreateBot, NameBot, AskModel, Reply, Speaking
    <3> QED BY <1>1, <3>1, <3>2 DEF Serve
  <2> QED BY <2>1, <2>2 DEF Speaking
<1>2. CASE UNCHANGED pc
  BY <1>2 DEF Speaking
<1> QED BY <1>1, <1>2 DEF Next, chatVars, vars

-----------------------------------------------------------------------------
(* The theorems *)

\* However many edits run at once: a part of the banner that an edit leaves out
\* stays what the edits before made of it, unless two edits overlapped.
THEOREM BannerStands == SettingsSpec => []BannerEditsStand
<1>1. SettingsInv => BannerEditsStand
  BY DEF SettingsInv
<1> QED BY <1>1, SettingsInvInit, SettingsInvNext, PTL DEF SettingsSpec

\* The audit trail misses at most one edit for each that was refused half way
\* or lost.
THEOREM EditsAreAudited == SettingsSpec => []UnloggedEditsWereCutShort
<1>1. SettingsInv => UnloggedEditsWereCutShort
  BY DEF SettingsInv
<1> QED BY <1>1, SettingsInvInit, SettingsInvNext, PTL DEF SettingsSpec

\* Composed with the chat, which uses one of the settings, both still hold.
THEOREM SettingsUnderChat == Spec => [](BannerEditsStand /\ UnloggedEditsWereCutShort)
<1>1. ChatInv => BannerEditsStand /\ UnloggedEditsWereCutShort
  BY DEF ChatInv, SettingsInv
<1> QED BY <1>1, ChatInductive, PTL DEF Spec

\* While an admin has the flag on, no customer's text makes the bot speak anew,
\* for any number of messages and edits under way (maybe_bot_reply).
THEOREM BotFallsSilent == Spec => TakeoverSilencesBot
<1>1. ChatInv /\ [Next]_vars => [online /\ online' => Speaking' \subseteq Speaking]_vars
  BY WhoSpeaks
<1> QED BY <1>1, ChatInductive, PTL DEF Spec, TakeoverSilencesBot
=============================================================================
