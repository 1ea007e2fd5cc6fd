\* Two messages of people at a time, and the bot's replies, while two edits of
\* the settings run; one request is lost.
CONSTANTS
  Editor = {e1, e2}
  Edits <- SomeEdits
  MaxEdits = 2
  MaxFailures = 1
  Task = {t1, t2}
  MaxMessages = 2
SPECIFICATION FairSpec
INVARIANTS  UnloggedEditsWereCutShort
PROPERTIES EveryTextAnswered 
CHECK_DEADLOCK FALSE
