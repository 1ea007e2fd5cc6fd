------------------------------ MODULE BookingChat ------------------------------
(***************************************************************************)
(* The chat of a booking (backend/src/api/chat.rs over                     *)
(* backend/src/infra/db/chat.rs), composed with the bookings' lifecycle.   *)
(* A request asks the bookings table whether the user is one of the two    *)
(* sides, and reads or stores messages by a later statement; in between    *)
(* the booking is accepted, cancelled or completed.                        *)
(***************************************************************************)
EXTENDS BookingLifecycle, Sequences

CONSTANTS
  User,        \* the users, workers among them
  Reader,      \* users of the staff with the permission bookings:read:any
  Chat,        \* requests that run at the same time
  MaxMessages  \* bound: messages stored

ASSUME ChatAssumption ==
  /\ Worker \subseteq User /\ Reader \subseteq User
  /\ CustomerOf \in [Booking -> User] /\ NoWorker \notin User
  /\ MaxMessages \in Nat

VARIABLES
  messages,  \* the rows of booking_messages, oldest first; the index is the id
  pc, req,   \* pc[c], req[c]: the next statement of request c, and what it asks
  shown      \* history: the pairs <<u, i>> of a user and a message sent to u

chatVars == <<messages, pc, req, shown>>
vars == <<job, chatVars>>

-----------------------------------------------------------------------------
Message == [booking : Booking, sender : User, media : BOOLEAN]

\* "list" and "attachment" read, "text" and "media" write; only a request for
\* an attachment names a message.
Request ==
  {r \in [op : {"list", "attachment", "text", "media"}, booking : Booking,
          by : User, message : 0..MaxMessages] :
     r.op = "attachment" <=> r.message # 0}
NoRequest == [op |-> "none"]
Reads(r) == r.op \in {"list", "attachment"}

ChatInit ==
  /\ Init
  /\ messages = <<>>
  /\ pc = [c \in Chat |-> "idle"]
  /\ req = [c \in Chat |-> NoRequest]
  /\ shown = {}

Begin(c, r) ==
  /\ pc[c] = "idle"
  /\ pc' = [pc EXCEPT ![c] = "check"]
  /\ req' = [req EXCEPT ![c] = r]
  /\ UNCHANGED <<job, messages, shown>>

Answer(c) ==
  /\ pc' = [pc EXCEPT ![c] = "idle"]
  /\ req' = [req EXCEPT ![c] = NoRequest]

-----------------------------------------------------------------------------
(* require_participant *)

Sides(b) == {CustomerOf[b], job[b].worker}

MayUse_AnyWorker(r) ==
  \/ r.by \in Sides(r.booking) \cup Worker
  \/ Reads(r) /\ r.by \in Reader

MayUse(r) ==
  \/ r.by \in Sides(r.booking)
  \/ Reads(r) /\ r.by \in Reader

\* The EXISTS query and the decision; a refusal is Forbidden.
Check(c) ==
  /\ pc[c] = "check"
  /\ \/ /\ MayUse(req[c])
        /\ pc' = [pc EXCEPT ![c] = "act"]
        /\ UNCHANGED req
     \/ /\ ~MayUse(req[c])
        /\ Answer(c)
  /\ UNCHANGED <<job, messages, shown>>

-----------------------------------------------------------------------------
(* The second statement *)

\* INSERT INTO booking_messages.
Send(c) ==
  /\ pc[c] = "act" /\ ~Reads(req[c])
  /\ Len(messages) < MaxMessages
  /\ messages' = Append(messages, [booking |-> req[c].booking, sender |-> req[c].by,
                                   media |-> req[c].op = "media"])
  /\ Answer(c)
  /\ UNCHANGED <<job, shown>>

Found_ById(r) ==
  {i \in DOMAIN messages :
     IF r.op = "list" THEN messages[i].booking = r.booking
                      ELSE i = r.message /\ messages[i].media}

\* The rows a read answers with: all of the booking, or the one attachment,
\* looked up by its own id and by the booking's.
Found(r) ==
  {i \in DOMAIN messages :
     /\ messages[i].booking = r.booking
     /\ r.op = "attachment" => i = r.message /\ messages[i].media}

Show(c) ==
  /\ pc[c] = "act" /\ Reads(req[c])
  /\ shown' = shown \cup ({req[c].by} \X Found(req[c]))
  /\ Answer(c)
  /\ UNCHANGED <<job, messages>>

\* The text or the attachment is refused (empty, too long, no PNG, JPG or
\* MP4), or the request is lost.
Drop(c) ==
  /\ pc[c] # "idle"
  /\ Answer(c)
  /\ UNCHANGED <<job, messages, shown>>

-----------------------------------------------------------------------------
ChatStep(c) ==
  \/ \E r \in Request : Begin(c, r)
  \/ Check(c)
  \/ Send(c)
  \/ Show(c)
  \/ Drop(c)

ChatNext ==
  \/ Next /\ UNCHANGED chatVars
  \/ \E c \in Chat : ChatStep(c)

ChatSpec == ChatInit /\ [][ChatNext]_vars

-----------------------------------------------------------------------------
(* Type correctness *)

ChatTypeOK ==
  /\ job \in [Booking -> Job]
  /\ messages \in Seq(Message)
  /\ pc \in [Chat -> {"idle", "check", "act"}]
  /\ req \in [Chat -> Request \cup {NoRequest}]
  /\ shown \subseteq User \X DOMAIN messages
  /\ \A c \in Chat : pc[c] # "idle" => req[c] \in Request

-----------------------------------------------------------------------------
(* Safety *)

\* "Chat is private to the two sides of the booking", "staff ... may read but
\* not write", at every later moment too: whoever has written in a chat is the
\* booking's customer or its worker, and whoever has been sent one of its
\* messages is one of the two or reads for the staff, although a request
\* is allowed by one statement and served by another, and the worker comes
\* when the customer's messages are already there.
ChatIsPrivate ==
  /\ \A i \in DOMAIN messages : messages[i].sender \in Sides(messages[i].booking)
  /\ \A seen \in shown : seen[1] \in Sides(messages[seen[2]].booking) \cup Reader
=============================================================================
