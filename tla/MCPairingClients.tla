-------------------------- MODULE MCPairingClients --------------------------
(* Small instances of PairingClients for TLC: its constants are numbers and *)
(* sets of model values, so a configuration gives them values directly.    *)
EXTENDS PairingClients
=============================================================================
