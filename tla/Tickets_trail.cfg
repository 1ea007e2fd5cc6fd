\* Two customers, two tickets, three requests at a time, seven in all.
CONSTANTS
  Ticket = {k1, k2}
  User = {u1, u2}
  Staff = {a1}
  None = None
  Task = {t1, t2, t3}
  MaxChanges = 7
  MaxFailures = 1
SPECIFICATION Spec
SYMMETRY TicketSymmetry
INVARIANT TrailExplainsTicket
CHECK_DEADLOCK FALSE
