---------------------- MODULE MCPeerConnectionClient ----------------------
(* Instances of PeerConnectionClient for TLC: all constants are numbers and *)
(* Booleans given in the .cfg files.                                        *)
EXTENDS PeerConnectionClient
===========================================================================
