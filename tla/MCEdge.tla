------------------------------- MODULE MCEdge -------------------------------
(* Instances of Edge for TLC: the constants are given in the .cfg.          *)
EXTENDS Edge
=============================================================================
