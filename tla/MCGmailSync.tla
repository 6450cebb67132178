----------------------------- MODULE MCGmailSync -----------------------------
(* Instances of GmailSync for TLC.                                         *)
EXTENDS GmailSync, TLC

Alike == Permutations(Workers)
=============================================================================
