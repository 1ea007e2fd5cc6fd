\* A conversation may end with an attachment, which has no text.
CONSTANTS
  Editor = {e1, e2}
  Edits <- SomeEdits
  MaxEdits = 2
  MaxFailures = 1
  Task = {t1, t2}
  MaxMessages = 2
SPECIFICATION Spec
INVARIANT InboxAnswers
CHECK_DEADLOCK FALSE
