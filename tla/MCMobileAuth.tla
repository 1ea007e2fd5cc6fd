----------------------------- MODULE MCMobileAuth -----------------------------
(***************************************************************************)
(* An instance of MobileAuth for TLC.                                      *)
(***************************************************************************)
EXTENDS MobileAuth

Calls == Device \X Flow
AllKinds == [c \in Calls |-> Kinds]

\* A session's tokens can be in five places at a time: the row, the memory,
\* the storage, a request and an answer.
Tokens5 == 11..15 \cup 21..25
Mint5 == [s \in Session |-> {10 * s + i : i \in 1..5}]
=============================================================================
