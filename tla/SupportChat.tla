------------------------------ MODULE SupportChat ------------------------------
(***************************************************************************)
(* One customer's support thread (backend/src/api/support.rs,              *)
(* infra/db/support.rs, infra/bot.rs) composed with the settings: while    *)
(* support_online is off, a bot answers every text the customer sends; an  *)
(* admin takes over by an edit of that flag.  A text is stored, then the   *)
(* handler looks at the flag, provides the bot's account, asks a model     *)
(* over the network with the thread as context, and stores the reply.      *)
(* Which words are said is left out: a reply is known by the text it       *)
(* answers.                                                                *)
(***************************************************************************)
EXTENDS AppSettings, Sequences, SequencesExt

CONSTANTS
  Task,         \* messages the server works on at the same time
  MaxMessages   \* bound: messages that people send

ASSUME ChatAssumption == MaxMessages \in Nat

VARIABLES
  thread,   \* the messages, oldest first
  bot,      \* the bot's account: "absent", "unnamed" or "named"
  pc,       \* pc[t]: the next statement of task t
  req,      \* req[t]: the message task t stores, then the number of the text
  sent,
  clashes   \* history: first texts whose request failed to create the bot

chatVars == <<thread, bot, pc, req, sent, clashes>>
vars == <<settingsVars, chatVars>>

-----------------------------------------------------------------------------
\* A message has text or an attachment, and answers text number `to`, or 0.
Message(by, text, to) == [by |-> by, text |-> text, to |-> to]
NoMessage == Message("nobody", FALSE, 0)

Init ==
  /\ SettingsInit
  /\ thread = <<>>
  /\ bot = "absent"
  /\ pc = [t \in Task |-> "idle"]
  /\ req = [t \in Task |-> NoMessage]
  /\ sent = 0 /\ clashes = 0

Go(t, step) == pc' = [pc EXCEPT ![t] = step] /\ UNCHANGED req

Answer(t) == /\ pc' = [pc EXCEPT ![t] = "idle"]
             /\ req' = [req EXCEPT ![t] = NoMessage]

\* The customer or a member of staff sends a text or an attachment.
Send(t, by, text) ==
  /\ pc[t] = "idle"
  /\ sent < MaxMessages
  /\ sent' = sent + 1
  /\ pc' = [pc EXCEPT ![t] = "store"]
  /\ req' = [req EXCEPT ![t] = Message(by, text, 0)]
  /\ UNCHANGED <<settingsVars, thread, bot, clashes>>

\* The bot reacts to the customer's texts only.
StoreMessage(t) ==
  /\ pc[t] = "store"
  /\ thread' = Append(thread, req[t])
  /\ \/ /\ req[t].by = "customer" /\ req[t].text
        /\ pc' = [pc EXCEPT ![t] = "flag"]
        /\ req' = [req EXCEPT ![t].to = Len(thread')]
     \/ ~(req[t].by = "customer" /\ req[t].text) /\ Answer(t)
  /\ UNCHANGED <<settingsVars, bot, sent, clashes>>

CheckFlag_Ignored(t) ==
  /\ pc[t] = "flag"
  /\ Go(t, "find")
  /\ UNCHANGED <<settingsVars, thread, bot, sent, clashes>>

\* maybe_bot_reply: humans are on shift, or the bot speaks.
CheckFlag(t) ==
  /\ pc[t] = "flag"
  /\ \/ online /\ Answer(t)
     \/ ~online /\ Go(t, "find")
  /\ UNCHANGED <<settingsVars, thread, bot, sent, clashes>>

FindBot(t) ==
  /\ pc[t] = "find"
  /\ Go(t, CASE bot = "absent" -> "create"
             [] bot = "unnamed" -> "name"
             [] bot = "named" -> "ask")
  /\ UNCHANGED <<settingsVars, thread, bot, sent, clashes>>

\* INSERT of the bot's user: of two first texts one fails here.
CreateBot(t) ==
  /\ pc[t] = "create"
  /\ \/ bot = "absent" /\ bot' = "unnamed" /\ Go(t, "name") /\ UNCHANGED clashes
     \/ bot # "absent" /\ clashes' = clashes + 1 /\ Answer(t) /\ UNCHANGED bot
  /\ UNCHANGED <<settingsVars, thread, sent>>

NameBot(t) ==
  /\ pc[t] = "name"
  /\ bot' = "named"
  /\ Go(t, "ask")
  /\ UNCHANGED <<settingsVars, thread, sent, clashes>>

AskModel_NoFallback(t) ==
  /\ pc[t] = "ask"
  /\ \/ Go(t, "reply")
     \/ Answer(t)
  /\ UNCHANGED <<settingsVars, thread, bot, sent, clashes>>

\* The model answers, or the keywords do: "Always produces a reply".
AskModel(t) ==
  /\ pc[t] = "ask"
  /\ Go(t, "reply")
  /\ UNCHANGED <<settingsVars, thread, bot, sent, clashes>>

\* Whatever the flag says by now.
Reply(t) ==
  /\ pc[t] = "reply"
  /\ thread' = Append(thread, Message("bot", TRUE, req[t].to))
  /\ Answer(t)
  /\ UNCHANGED <<settingsVars, bot, sent, clashes>>

Fail(t) ==
  /\ pc[t] # "idle"
  /\ failures < MaxFailures
  /\ failures' = failures + 1
  /\ Answer(t)
  /\ UNCHANGED <<settings, editing, trail, edits, refused, thread, bot, sent, clashes>>

Serve(t) ==
  \/ StoreMessage(t) \/ CheckFlag(t) \/ FindBot(t) \/ CreateBot(t) \/ NameBot(t)
  \/ AskModel(t) \/ Reply(t)

Next ==
  \/ \E t \in Task :
       \/ \E by \in {"customer", "staff"}, text \in BOOLEAN : Send(t, by, text)
       \/ Serve(t) \/ Fail(t)
  \/ SettingsNext /\ UNCHANGED chatVars

Spec == Init /\ [][Next]_vars

\* Messages the server has accepted are served.
FairSpec == Spec /\ \A t \in Task : WF_vars(Serve(t))

-----------------------------------------------------------------------------
(* Properties *)

Waiting(n) == \E t \in Task : pc[t] = "flag" /\ req[t].to = n
Replied(n) == \E m \in DOMAIN thread : thread[m].by = "bot" /\ thread[m].to = n

\* "Always produces a reply": every text is answered, unless humans are on
\* shift at some time meanwhile, a request is lost, or it lost the race for
\* the bot's first account.
EveryTextAnswered ==
  \A n \in 1..2 * MaxMessages : Waiting(n) ~> (Replied(n) \/ online \/ failures + clashes > 0)

Speaking == {t \in Task : pc[t] \in {"find", "create", "name", "ask", "reply"}}

\* "A human takes over by flipping the flag - the bot then stays silent", but
\* for the replies under way at that time: while the flag is on, nothing
\* makes the bot speak anew.
TakeoverSilencesBot == [][online /\ online' => Speaking' \subseteq Speaking]_vars

\* threads: the last message of a conversation, whose text must not be NULL.
Inbox == IF thread = <<>> THEN "empty"
         ELSE IF Last(thread).text THEN "one row" ELSE "error"

\* "Admin inbox: one row per conversation".
InboxAnswers == thread # <<>> => Inbox = "one row"
=============================================================================
