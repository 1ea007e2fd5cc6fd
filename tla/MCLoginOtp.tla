----------------------------- MODULE MCLoginOtp ------------------------------
(***************************************************************************)
(* Instance of LoginOtp for TLC.                                           *)
(***************************************************************************)
EXTENDS LoginOtp

\* The three levels of the code (3, 5 and 10 failures) within reach of few
\* requests.
LowThresholds == <<1, 2, 3>>
=============================================================================
