-------------------------- MODULE MCClassification --------------------------
(* Small instances of Classification for TLC: the constants come from the  *)
(* .cfg files.                                                             *)
EXTENDS Classification
=============================================================================
