\* A login, a client that refreshes and logs out, and calls of others, two of
\* them in all, that block, unblock or log out everywhere; two sessions, one
\* lost call.
CONSTANTS
  app = app
  web = web
  admin = admin
  Call = {app, web, admin}
  MayAsk <- Uses
  Session = {1, 2}
  Token <- Tokens2
  Mint <- Mint2
  None = 0
  MaxOthers = 2
  MaxFailures = 1
SPECIFICATION FairServerSpec
INVARIANT BlockedSessionsSlippedIn
PROPERTY BlockedDieOut
CHECK_DEADLOCK FALSE
