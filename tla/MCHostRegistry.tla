--------------------------- MODULE MCHostRegistry ---------------------------
(* HostRegistry with the constants of MCHostNetwork, for TLC.              *)
EXTENDS HostRegistry, MCHostNetwork
=============================================================================
