\* One device with its two flows, two logins, one lost call and one restart.
CONSTANTS
  Device = {"phone"}
  Call <- Calls
  MayAsk <- AllKinds
  Session = {1, 2}
  Token <- Tokens5
  Mint <- Mint5
  None = 0
  MaxOthers = 0
  MaxFailures = 1
  MaxKills = 1
SPECIFICATION FairSpec
 
PROPERTY DeadTokensAreDropped
CHECK_DEADLOCK FALSE
