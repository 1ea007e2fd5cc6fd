--------------------------- MODULE BookingChatProofs ---------------------------
(***************************************************************************)
(* The privacy of the bookings' chats, for any number of bookings, users,  *)
(* requests and messages.                                                  *)
(*                                                                         *)
(* A request acts on a permission that may be old.  It is still good       *)
(* because nobody ever stops being a side of a booking: the customer never *)
(* changes, and a worker comes only where there was none (SidesStay).      *)
(***************************************************************************)
EXTENDS BookingChat, TLAPS

USE ChatAssumption

\* Whoever is past the check may still do what it allowed.
Allowed == \A c \in Chat : pc[c] = "act" => MayUse(req[c])

ChatInv == ChatTypeOK /\ Allowed /\ ChatIsPrivate

-----------------------------------------------------------------------------
(* The lifecycle *)

LEMMA JobTyped ==
  ASSUME job \in [Booking -> Job], Next
  PROVE  job' \in [Booking -> Job]
<1>1. PICK b \in Booking :
         \/ \E w \in Worker : Take(b, w)
         \/ \E a \in WorkerAction : Move(b, a)
         \/ Withdraw(b)
         \/ \E stars \in 1..5 : Review(b, stars)
  BY DEF Next
<1>2. CASE \E w \in Worker : Take(b, w)
  BY <1>2 DEF Take, Job, Status
<1>3. CASE \E a \in WorkerAction : Move(b, a)
  BY <1>3 DEF Move, Job
<1>4. CASE Withdraw(b)
  BY <1>4 DEF Withdraw, Job, Status
<1>5. CASE \E stars \in 1..5 : Review(b, stars)
  BY <1>5 DEF Review, Job
<1> QED BY <1>1, <1>2, <1>3, <1>4, <1>5

\* A side of a booking stays one.
LEMMA SidesStay ==
  ASSUME job \in [Booking -> Job], Next, NEW b \in Booking, NEW u \in User, u \in Sides(b)
  PROVE  u \in Sides(b)'
<1>1. job'[b].worker = job[b].worker \/ job[b].worker = NoWorker
  <2>1. PICK d \in Booking :
         \/ \E w \in Worker : Take(d, w)
         \/ \E a \in WorkerAction : Move(d, a)
         \/ Withdraw(d)
         \/ \E stars \in 1..5 : Review(d, stars)
    BY DEF Next
  <2>2. CASE \E w \in Worker : Take(d, w)
    BY <2>2 DEF Take, Job
  <2>3. CASE \E a \in WorkerAction : Move(d, a)
    BY <2>3 DEF Move, Job
  <2>4. CASE Withdraw(d)
    BY <2>4 DEF Withdraw, Job
  <2>5. CASE \E stars \in 1..5 : Review(d, stars)
    BY <2>5 DEF Review, Job
  <2> QED BY <2>1, <2>2, <2>3, <2>4, <2>5
<1> QED BY <1>1 DEF Sides

LEMMA LifecycleStep ==
  ASSUME ChatInv, Next, UNCHANGED chatVars
  PROVE  ChatInv'
<1>1. job \in [Booking -> Job]
  BY DEF ChatInv, ChatTypeOK
<1>2. ChatTypeOK'
  BY JobTyped, <1>1 DEF ChatInv, ChatTypeOK, chatVars
<1>3. Allowed'
  <2> SUFFICES ASSUME NEW c \in Chat, pc[c] = "act" PROVE MayUse(req[c])'
    BY DEF Allowed, chatVars
  <2>1. req[c] \in Request /\ MayUse(req[c]) /\ req' = req
    BY DEF ChatInv, ChatTypeOK, Allowed, chatVars
  <2>2. req[c].booking \in Booking /\ req[c].by \in User
    BY <2>1 DEF Request
  <2>3. req[c].by \in Sides(req[c].booking) => req[c].by \in Sides(req[c].booking)'
    BY <1>1, <2>1, <2>2, SidesStay
  <2> QED BY <2>1, <2>3 DEF MayUse, Reads
<1>4. ChatIsPrivate'
  <2>1. ASSUME NEW i \in DOMAIN messages
        PROVE  messages[i] \in Message
    BY DEF ChatInv, ChatTypeOK
  <2>2. ASSUME NEW i \in DOMAIN messages
        PROVE  messages[i].sender \in Sides(messages[i].booking)'
    <3> DEFINE u == messages[i].sender
               b == messages[i].booking
    <3>1. b \in Booking /\ u \in User
      BY <2>1 DEF Message
    <3>2. u \in Sides(b)
      BY DEF ChatInv, ChatIsPrivate
    <3>3. ASSUME NEW v \in User, NEW d \in Booking, v \in Sides(d)
          PROVE  v \in Sides(d)'
      BY <1>1, <3>3, SidesStay
    <3>4. messages' = messages
      BY DEF chatVars
    <3> QED BY <3>1, <3>2, <3>3, <3>4
  <2>3. ASSUME NEW seen \in shown
        PROVE  seen[1] \in Sides(messages[seen[2]].booking)' \cup Reader
    <3> DEFINE u == seen[1]
               b == messages[seen[2]].booking
    <3>1. u \in User /\ seen[2] \in DOMAIN messages
      BY DEF ChatInv, ChatTypeOK
    <3>2. b \in Booking
      BY <2>1, <3>1 DEF Message
    <3>3. u \in Sides(b) \cup Reader
      BY DEF ChatInv, ChatIsPrivate
    <3>4. ASSUME NEW v \in User, NEW d \in Booking, v \in Sides(d)
          PROVE  v \in Sides(d)'
      BY <1>1, <3>4, SidesStay
    <3>5. messages' = messages
      BY DEF chatVars
    <3> QED BY <3>1, <3>2, <3>3, <3>4, <3>5
  <2> QED BY <2>2, <2>3 DEF ChatIsPrivate, chatVars
<1> QED BY <1>2, <1>3, <1>4 DEF ChatInv

-----------------------------------------------------------------------------
(* The requests *)

\* A step of request c that reads and stores nothing keeps the invariant if c
\* is allowed what it is about to do.
LEMMA QuietStep ==
  ASSUME ChatInv, NEW c \in Chat, UNCHANGED <<job, messages, shown>>,
         NEW step \in {"idle", "check", "act"}, NEW r \in Request \cup {NoRequest},
         pc' = [pc EXCEPT ![c] = step], req' = [req EXCEPT ![c] = r],
         step # "idle" => r \in Request,
         step = "act" => MayUse(r)
  PROVE  ChatInv'
<1>1. ChatTypeOK'
  BY DEF ChatInv, ChatTypeOK
<1>2. Allowed'
  BY DEF ChatInv, ChatTypeOK, Allowed, MayUse, Sides
<1>3. ChatIsPrivate'
  BY DEF ChatInv, ChatIsPrivate, Sides
<1> QED BY <1>1, <1>2, <1>3 DEF ChatInv

\* What a request allowed to act knows of itself.
LEMMA Acting ==
  ASSUME ChatInv, NEW c \in Chat, pc[c] = "act"
  PROVE  /\ req[c].booking \in Booking /\ req[c].by \in User
         /\ MayUse(req[c])
BY DEF ChatInv, ChatTypeOK, Allowed, Request

LEMMA SendStep ==
  ASSUME ChatInv, NEW c \in Chat, Send(c)
  PROVE  ChatInv'
<1> DEFINE new == [booking |-> req[c].booking, sender |-> req[c].by,
                   media |-> req[c].op = "media"]
<1>1. /\ messages \in Seq(Message) /\ new \in Message
      /\ messages' = Append(messages, new)
      /\ req[c].by \in Sides(req[c].booking)
  BY Acting DEF Send, ChatInv, ChatTypeOK, Message, MayUse
<1>2. /\ messages' \in Seq(Message)
      /\ Len(messages') = Len(messages) + 1
      /\ \A i \in DOMAIN messages : i \in DOMAIN messages' /\ messages'[i] = messages[i]
      /\ \A i \in DOMAIN messages' : i \in DOMAIN messages \/ messages'[i] = new
  BY <1>1
<1>3. ChatTypeOK'
  BY <1>2 DEF ChatInv, ChatTypeOK, Send, Answer
<1>4. Allowed'
  BY DEF ChatInv, ChatTypeOK, Allowed, Send, Answer, MayUse, Sides
<1>5. ChatIsPrivate'
  <2>1. \A i \in DOMAIN messages' : messages'[i].sender \in Sides(messages'[i].booking)
    BY <1>1, <1>2 DEF ChatInv, ChatIsPrivate
  <2>2. \A seen \in shown : seen[1] \in Sides(messages'[seen[2]].booking) \cup Reader
    BY <1>2 DEF ChatInv, ChatTypeOK, ChatIsPrivate
  <2> QED BY <2>1, <2>2 DEF ChatIsPrivate, Send, Sides
<1> QED BY <1>3, <1>4, <1>5 DEF ChatInv

LEMMA ShowStep ==
  ASSUME ChatInv, NEW c \in Chat, Show(c)
  PROVE  ChatInv'
<1>1. /\ shown' = shown \cup ({req[c].by} \X Found(req[c]))
      /\ Found(req[c]) \subseteq DOMAIN messages
      /\ \A i \in Found(req[c]) : messages[i].booking = req[c].booking
      /\ req[c].by \in User
      /\ req[c].by \in Sides(req[c].booking) \cup Reader
  BY Acting DEF Show, Found, MayUse
<1>2. ChatTypeOK'
  BY <1>1 DEF ChatInv, ChatTypeOK, Show, Answer
<1>3. Allowed'
  BY DEF ChatInv, ChatTypeOK, Allowed, Show, Answer, MayUse, Sides
<1>4. ChatIsPrivate'
  BY <1>1 DEF ChatInv, ChatIsPrivate, Show, Sides
<1> QED BY <1>2, <1>3, <1>4 DEF ChatInv

-----------------------------------------------------------------------------
LEMMA ChatInvInit == ChatInit => ChatInv
<1> SUFFICES ASSUME ChatInit PROVE ChatInv
  OBVIOUS
<1>1. ChatTypeOK
  BY DEF ChatInit, Init, ChatTypeOK, Job, Status
<1>2. Allowed /\ ChatIsPrivate
  BY DEF ChatInit, Allowed, ChatIsPrivate
<1> QED BY <1>1, <1>2 DEF ChatInv

LEMMA ChatInvNext == ChatInv /\ [ChatNext]_vars => ChatInv'
<1> SUFFICES ASSUME ChatInv, [ChatNext]_vars PROVE ChatInv'
  OBVIOUS
<1>1. CASE Next /\ UNCHANGED chatVars
  BY <1>1, LifecycleStep
<1>2. ASSUME NEW c \in Chat, ChatStep(c) PROVE ChatInv'
  <2>0. req[c] \in Request \cup {NoRequest} /\ req = [req EXCEPT ![c] = req[c]]
    BY DEF ChatInv, ChatTypeOK
  <2>1. CASE \E r \in Request : Begin(c, r)
    BY <2>1, QuietStep DEF Begin
  <2>2. CASE Check(c)
    <3>1. CASE MayUse(req[c])
      <4>1. /\ pc' = [pc EXCEPT ![c] = "act"]
            /\ req' = [req EXCEPT ![c] = req[c]] /\ UNCHANGED <<job, messages, shown>>
        BY <2>0, <2>2, <3>1 DEF Check
      <4>2. req[c] \in Request
        BY <2>2 DEF Check, ChatInv, ChatTypeOK
      <4> QED BY <3>1, <4>1, <4>2, QuietStep
    <3>2. CASE ~MayUse(req[c])
      BY <2>2, <3>2, QuietStep DEF Check, Answer
    <3> QED BY <3>1, <3>2
  <2>3. CASE Send(c)
    BY <2>3, SendStep
  <2>4. CASE Show(c)
    BY <2>4, ShowStep
  <2>5. CASE Drop(c)
    BY <2>5, QuietStep DEF Drop, Answer
  <2> QED BY <1>2, <2>1, <2>2, <2>3, <2>4, <2>5 DEF ChatStep
<1>3. CASE UNCHANGED vars
  BY <1>3 DEF vars, chatVars, ChatInv, ChatTypeOK, Allowed, ChatIsPrivate, MayUse, Sides
<1> QED BY <1>1, <1>2, <1>3 DEF ChatNext

\* The chats are well typed and private: whoever has written or read in one is
\* a side of the booking, or reads for the staff (require_participant).
THEOREM ChatsArePrivate == ChatSpec => [](ChatTypeOK /\ ChatIsPrivate)
<1>1. ChatInv => ChatTypeOK /\ ChatIsPrivate
  BY DEF ChatInv
<1> QED BY <1>1, ChatInvInit, ChatInvNext, PTL DEF ChatSpec
=============================================================================
