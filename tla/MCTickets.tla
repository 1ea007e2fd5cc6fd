------------------------------- MODULE MCTickets -------------------------------
(***************************************************************************)
(* An instance of Tickets for TLC.                                         *)
(***************************************************************************)
EXTENDS Tickets, TLC

\* One member of staff may well work on several tasks.
TicketSymmetry == Permutations(Ticket) \cup Permutations(User) \cup Permutations(Task)
=============================================================================
