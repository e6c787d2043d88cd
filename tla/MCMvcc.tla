------------------------------- MODULE MCMvcc -------------------------------
(* A small instance of Mvcc.tla for TLC. *)
EXTENDS Mvcc, TLC

CONSTANTS t1, t2, o1, o2, n1, n2, n3, n4

\* Two values are enough to tell apart the result of an updater run on the
\* snapshot it replaces and on any older one; the identity is an updater too.
MCValues == 0..1
MCInitialValue == 0
MCUpdater == (t1 :> [v \in MCValues |-> 1 - v]) @@ (t2 :> [v \in MCValues |-> v])

\* An operation keeps at most one node of its own alive, so with MaxOps
\* operations and the first snapshots MaxOps + Cardinality(Objects) nodes
\* never run out.
MCInitialNode == (o1 :> n1) @@ (o2 :> n2)
=============================================================================
