\* Two requests at a time, four in all, two of which may be lost, and an admin
\* who may unlock the phone.  The thresholds are low so that four requests reach
\* every refusal and every level of the lock.
CONSTANTS
  Task = {t1, t2}
  MaxAsks = 2
  MaxTries = 2
  LockAt <- LowThresholds
  MaxRequests = 4
  MaxFailures = 2
  MaxUnlocks = 1
SPECIFICATION FairSpec
INVARIANTS TypeOK  LeaksCostFailures
PROPERTIES  NeverShutOut
CHECK_DEADLOCK FALSE
