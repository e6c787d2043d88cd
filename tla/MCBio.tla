------------------------------- MODULE MCBio -------------------------------
(* Small instances of Bio.tla for TLC. *)
EXTENDS Bio

CONSTANTS w1, w2, w3
=============================================================================
