------------------------------ MODULE MCSessions ------------------------------
(***************************************************************************)
(* An instance of Sessions for TLC.                                        *)
(***************************************************************************)
EXTENDS Sessions, TLC

CONSTANTS app, web, admin

\* Which call asks for what.  Any token may be presented, any session named.
Uses == (app :> {"login"}) @@ (web :> {"refresh", "logout"})
          @@ (admin :> {"block", "unblock", "logout all"})

\* A token can be stored, and presented by two calls while another is stored.
Tokens2 == 11..12 \cup 21..22
Mint2 == [s \in Session |-> {10 * s + i : i \in 1..2}]
=============================================================================
