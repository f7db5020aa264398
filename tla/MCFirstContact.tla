--------------------------- MODULE MCFirstContact ---------------------------
(* Small instances of FirstContact for TLC: its constants are numbers and   *)
(* sets of numbers, so a configuration gives them values directly.         *)
EXTENDS FirstContact
=============================================================================
