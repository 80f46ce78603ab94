------------------------------ MODULE MCClient ------------------------------
(* Instances of Client for TLC: the parameters are given in the .cfg files. *)
EXTENDS Client
=============================================================================
