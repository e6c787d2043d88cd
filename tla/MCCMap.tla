------------------------------- MODULE MCCMap -------------------------------
(* Small instances of CMap.tla for TLC. *)
EXTENDS CMap, TLC

CONSTANTS k1, k2, k3, w1, w2, r1, r2

\* One bucket holds all three keys, two buckets split them 2 : 1, four
\* separate them.
MCHash == (k1 :> 0) @@ (k2 :> 1) @@ (k3 :> 2)

\* Two keys stay together in two buckets and in four: a pair put between two
\* redistributions is linked in front of one that was moved before it.
MCHashTogether == (k1 :> 0) @@ (k2 :> 1) @@ (k3 :> 1)
=============================================================================
