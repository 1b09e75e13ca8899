------------------------------- MODULE MCCall -------------------------------
(* Instances of Call for TLC: the constants are numbers given in the .cfg.  *)
EXTENDS Call
=============================================================================
