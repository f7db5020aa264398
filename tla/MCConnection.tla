---------------------------- MODULE MCConnection ----------------------------
(* Small instances of Connection for TLC: the constants are numbers, so a   *)
(* configuration gives them values directly.                               *)
EXTENDS Connection
=============================================================================
