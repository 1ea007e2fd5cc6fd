\* A booking of a customer and one of the worker who may serve the first; a
\* member of the staff reads.
CONSTANTS
  b1 = b1  b2 = b2  u1 = u1  w1 = w1  staff = staff  c1 = c1
  NoWorker = NoWorker
  Booking = {b1, b2}
  Worker = {w1}
  CustomerOf <- TwoCustomers
  User = {u1, w1, staff}
  Reader = {staff}
  Chat = {c1}
  MaxMessages = 2
SPECIFICATION ChatSpec
INVARIANT ChatIsPrivate
CHECK_DEADLOCK FALSE
