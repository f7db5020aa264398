------------------------------ MODULE MCPhone -------------------------------
(* Small instances of Phone for TLC. *)
EXTENDS Phone, TLC

CONSTANTS h1, h2

\* The hosts play the same part.
HostSymmetry == Permutations(Hosts)
=============================================================================
