---------------------------- MODULE MCSupportChat ----------------------------
(***************************************************************************)
(* Instances of SupportChat for TLC.                                       *)
(***************************************************************************)
EXTENDS SupportChat

\* Staff come and go, and each part of the banner is edited, one together with
\* a build that is refused.
SomeEdits ==
  {[parts |-> {"enabled"}, build |-> "ok", online |-> "on"],
   [parts |-> {"title"}, build |-> "refused", online |-> "off"],
   [parts |-> {}, build |-> "keep", online |-> "off"]}
=============================================================================
