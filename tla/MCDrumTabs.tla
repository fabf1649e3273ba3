----------------------------- MODULE MCDrumTabs -----------------------------
(* One tab that makes two edits.                                           *)
EXTENDS DrumTabs

OneTabTwo == <<2>>
NoExports == <<0>>
=============================================================================
