\* ada administers; bob's phone may join ADMIN_PHONES at a restart.  Two
\* requests at a time, of which one may be lost.
CONSTANTS
  ada = ada  bob = bob
  User = {ada, bob}  Task = {t1, t2}
  AdminPhones <- Promotion
  MaxApps = 2
  MaxFailures = 1
  MaxRestarts = 1
SPECIFICATION Spec
SYMMETRY TaskSymmetry
INVARIANTS TypeOK WorkerIffApproved OnePending AuditMatches StaffAreNotCustomers
           SeparationNeedsRestart
PROPERTY DecidedIsFrozen
