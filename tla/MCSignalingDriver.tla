-------------------------- MODULE MCSignalingDriver --------------------------
(***************************************************************************)
(* Small instances of SignalingDriver for TLC.                             *)
(***************************************************************************)
EXTENDS SignalingDriver
=============================================================================
