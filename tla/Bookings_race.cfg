\* One booking, three users who may all act as workers, two requests at a time,
\* of which one may be lost.
CONSTANTS
  b1 = b1  u1 = u1  u2 = u2  u3 = u3  k1 = k1
  NoWorker = NoWorker  NoCode = NoCode
  Booking = {b1}
  User = {u1, u2, u3}
  Worker = {u1, u2, u3}
  CustomerOf <- OneCustomer
  Otp <- OneOtp
  Code = {k1}
  Stars = {5, 6}
  Task = {t1, t2}
  MaxFailures = 1
SPECIFICATION Spec
SYMMETRY WorkerAndTaskSymmetry
INVARIANTS
  TypeOK RowsAgree ReadBeforeWrite NoOrphanJob
  AuditIsTrue LoggedOnce LoggedStatusFollows OneRowLostPerFailure
PROPERTIES ImplementsLifecycle ConflictIsReal PaidJobsStay StartNeedsHandshake
