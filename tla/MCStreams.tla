----------------------------- MODULE MCStreams ------------------------------
(* Instances of Streams for TLC: the sizes are given in the .cfg files.     *)
EXTENDS Streams
=============================================================================
