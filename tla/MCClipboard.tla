---------------------------- MODULE MCClipboard -----------------------------
(* Small instances of Clipboard for TLC.  Neither phones nor texts are told  *)
(* apart by anything but equality.                                          *)
EXTENDS Clipboard, TLC

CONSTANTS p1, p2, t1, t2

PhonesAndTexts == Permutations({p1, p2}) \cup Permutations({t1, t2})
=============================================================================
