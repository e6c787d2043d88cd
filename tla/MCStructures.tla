---------------------------- MODULE MCStructures ----------------------------
(***************************************************************************)
(* The sequential data structures for TLC, in one run.  They have nothing  *)
(* to do with each other: which says whose behaviours these are, and the   *)
(* variables of the others stay as they are.                               *)
(***************************************************************************)
EXTENDS CircularBuffer, AdList, KernelList, RBTree, ConsistentHash

VARIABLE which

\* The members of the circle have two points each.
MCHashes ==
  {h \in [{1, 2, 3} \X {0, 1} -> 0..6] :
     /\ h[1, 0] = 2 /\ h[1, 1] \in {2, 5}
     /\ h[2, 0] \in {0, 5} /\ h[2, 1] = 3
     /\ h[3, 0] \in {1, 3, 6} /\ h[3, 1] = 4}

\* A component that is not run has one initial state.
StructuresInit ==
  /\ which \in {"ring", "adlist", "kernel", "tree", "hash"}
  /\ RingInit /\ (which # "ring" => capacity = 1)
  /\ ListInit /\ KernelInit /\ TreeInit
  /\ HashInit /\ (which # "hash" => hash = CHOOSE h \in Hashes : TRUE)

RingRuns == which = "ring" /\ RingNext /\ UNCHANGED <<listVars, kernelVars, tree, hashVars>>
ListRuns == which = "adlist" /\ ListStep /\ UNCHANGED <<ringVars, kernelVars, tree, hashVars>>
KernelRuns == which = "kernel" /\ KernelNext /\ UNCHANGED <<ringVars, listVars, tree, hashVars>>
TreeRuns == which = "tree" /\ TreeNext /\ UNCHANGED <<ringVars, listVars, kernelVars, hashVars>>
HashRuns ==
  which = "hash" /\ HashNext /\ CountIsSmall' /\ UNCHANGED <<ringVars, listVars, kernelVars, tree>>

StructuresNext ==
  /\ RingRuns \/ ListRuns \/ KernelRuns \/ TreeRuns \/ HashRuns
  /\ UNCHANGED which

StructuresSpec ==
  StructuresInit /\ [][StructuresNext]_<<ringVars, listVars, kernelVars, tree, hashVars, which>>
=============================================================================
