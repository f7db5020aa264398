----------------------------- MODULE MCFraming -----------------------------
(* Small instances of Framing for TLC: the constants are numbers and a set  *)
(* of numbers, so a configuration gives them values directly.              *)
EXTENDS Framing
=============================================================================
