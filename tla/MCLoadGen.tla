----------------------------- MODULE MCLoadGen -----------------------------
(* LoadGen.tla for TLC: the names of those who call Start and Stop.        *)
EXTENDS LoadGen

CONSTANTS s1, s2, p1
=============================================================================
