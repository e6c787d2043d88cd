-------------------------------- MODULE Mvcc --------------------------------
(***************************************************************************)
(* src/mvcc/mvcc.hpp: a multi-version cell.  An mvcc object is one shared  *)
(* pointer to an immutable snapshot; writers build a new snapshot and      *)
(* install it with an atomic compare-and-exchange on the pointer.          *)
(*                                                                         *)
(* The heap is explicit.  A snapshot lives in a node; a node is reclaimed  *)
(* the moment no shared_ptr refers to it and make_shared may hand it out   *)
(* again, so the compare-and-exchange (which compares addresses) is only   *)
(* right because a writer's `expected` keeps its node alive.               *)
(***************************************************************************)
EXTENDS Naturals

CONSTANTS Threads, Objects, Values, InitialValue,
          Updater,    \* Updater[t] is the updater function of thread t
          Nodes,      \* heap addresses
          InitialNode,\* InitialNode[o] is the node built by o's constructor
          Null,       \* the null shared_ptr
          NoResult, LostRace,
          MaxOps      \* bound: operations begun in a behaviour

ASSUME ObjectsAssumption ==
  /\ InitialNode \in [Objects -> Nodes]
  /\ \A o, p \in Objects : InitialNode[o] = InitialNode[p] => o = p
ASSUME ValuesAssumption ==
  /\ InitialValue \in Values
  /\ Updater \in [Threads -> [Values -> Values]]
ASSUME NullAssumption == Null \notin Nodes
ASSUME ResultAssumption ==
  /\ NoResult \notin [version : Nat, value : Values]
  /\ LostRace \notin [version : Nat, value : Values]
  /\ NoResult # LostRace
ASSUME MaxOpsAssumption == MaxOps \in Nat

VARIABLES
  current,   \* current[o]: mutable_current_, the node o points to
  heap,      \* heap[n]: the snapshot stored in node n
  pc, op,    \* where thread t is, in which operation ...
  object,    \* ... on which object
  expected,  \* the local shared_ptr of the attempt
  desired,   \* the local shared_ptr to the snapshot being built
  held,      \* the const_snapshot_ptr the caller keeps from its last call
  expired,   \* try_update_until: now() > timeout_time
  lost,      \* the last call answered nullptr
  ops,       \* operations begun so far (bounded by MaxOps)
  pubs,      \* history: pubs[o] counts the snapshots stored in o
  mark       \* history: pubs of t's object when t's attempt began

vars == <<current, heap, pc, op, object, expected, desired, held, expired,
          lost, ops, pubs, mark>>

Snapshot == [version : Nat, value : Values]
Kinds == {"overwrite", "update", "try_update", "try_update_until", "assign"}
Pcs == {"idle", "make", "load", "build", "cas", "retry", "fetch", "store"}

TypeOK ==
  /\ current \in [Objects -> Nodes]
  /\ heap \in [Nodes -> Snapshot]
  /\ pc \in [Threads -> Pcs]
  /\ op \in [Threads -> Kinds]
  /\ object \in [Threads -> Objects]
  /\ expected \in [Threads -> Nodes \cup {Null}]
  /\ desired \in [Threads -> Nodes \cup {Null}]
  /\ held \in [Threads -> Nodes \cup {Null}]
  /\ expired \in [Threads -> BOOLEAN]
  /\ lost \in [Threads -> BOOLEAN]
  /\ ops \in Nat
  /\ pubs \in [Objects -> Nat]
  /\ mark \in [Threads -> Nat]

Init ==
  /\ current = InitialNode
  /\ heap = [n \in Nodes |-> [version |-> 0, value |-> InitialValue]]
  /\ pc = [t \in Threads |-> "idle"]
  /\ op = [t \in Threads |-> "update"]
  /\ object \in [Threads -> Objects]
  /\ expected = [t \in Threads |-> Null]
  /\ desired = [t \in Threads |-> Null]
  /\ held = [t \in Threads |-> Null]
  /\ expired = [t \in Threads |-> FALSE]
  /\ lost = [t \in Threads |-> FALSE]
  /\ ops = 0
  /\ pubs = [o \in Objects |-> 0]
  /\ mark = [t \in Threads |-> 0]

-----------------------------------------------------------------------------
\* Mutant: what a caller holds is a raw pointer, not a shared_ptr.
ReferencedWithoutHeld(n) ==
  \/ \E o \in Objects : current[o] = n
  \/ \E t \in Threads : n \in {expected[t], desired[t]}

\* A node is kept alive by the shared_ptrs that refer to it.
Referenced(n) ==
  \/ \E o \in Objects : current[o] = n
  \/ \E t \in Threads : n \in {expected[t], desired[t], held[t]}

\* make_shared hands out a node nobody refers to.
Free == {n \in Nodes : ~Referenced(n)}

Go(t, label) == pc' = [pc EXCEPT ![t] = label]

\* A caller enters one of the operations on one of the objects.
Invoke(t) ==
  /\ pc[t] = "idle"
  /\ ops < MaxOps
  /\ ops' = ops + 1
  /\ \E kind \in Kinds, o \in Objects :
       /\ op' = [op EXCEPT ![t] = kind]
       /\ object' = [object EXCEPT ![t] = o]
       /\ Go(t, CASE kind = "overwrite" -> "make"
                  [] kind = "assign" -> "fetch"
                  [] OTHER -> "load")
       /\ mark' = [mark EXCEPT ![t] = pubs[o]]
  /\ expired' = [expired EXCEPT ![t] = FALSE]
  /\ UNCHANGED <<current, heap, expected, desired, held, lost, pubs>>

\* overwrite_impl: make_shared builds the snapshot, its version still 0.
Make(t) ==
  /\ pc[t] = "make"
  /\ \E n \in Free, v \in Values :
       /\ desired' = [desired EXCEPT ![t] = n]
       /\ heap' = [heap EXCEPT ![n] = [version |-> 0, value |-> v]]
  /\ Go(t, "load")
  /\ UNCHANGED <<current, op, object, expected, held, expired, lost, ops,
                 pubs, mark>>

\* Mutant: the version is incremented in the snapshot that was loaded.
LoadOverwriteInPlace(t) ==
  /\ pc[t] = "load" /\ op[t] = "overwrite"
  /\ LET cur == current[object[t]]
     IN  /\ expected' = [expected EXCEPT ![t] = cur]
         /\ heap' = [heap EXCEPT ![cur].version = @ + 1,
                                 ![desired[t]].version = heap[cur].version + 1]
  /\ Go(t, "cas")
  /\ UNCHANGED <<current, op, object, desired, held, expired, lost, ops,
                 pubs, mark>>

\* overwrite_impl: atomic_load, then the version of the unpublished snapshot.
LoadOverwrite(t) ==
  /\ pc[t] = "load" /\ op[t] = "overwrite"
  /\ LET cur == current[object[t]]
     IN  /\ expected' = [expected EXCEPT ![t] = cur]
         /\ heap' = [heap EXCEPT ![desired[t]].version = heap[cur].version + 1]
  /\ Go(t, "cas")
  /\ UNCHANGED <<current, op, object, desired, held, expired, lost, ops,
                 pubs, mark>>

\* try_update_impl: atomic_load.
LoadUpdate(t) ==
  /\ pc[t] = "load" /\ op[t] # "overwrite"
  /\ expected' = [expected EXCEPT ![t] = current[object[t]]]
  /\ Go(t, "build")
  /\ UNCHANGED <<current, heap, op, object, desired, held, expired, lost, ops,
                 pubs, mark>>

\* try_update_impl: the updater runs on the snapshot `expected` points to and
\* make_shared builds the successor.
Build(t) ==
  /\ pc[t] = "build"
  /\ LET base == heap[expected[t]]
     IN  \E n \in Free :
           /\ desired' = [desired EXCEPT ![t] = n]
           /\ heap' = [heap EXCEPT ![n] = [version |-> base.version + 1,
                                           value |-> Updater[t][base.value]]]
  /\ Go(t, "cas")
  /\ UNCHANGED <<current, op, object, expected, held, expired, lost, ops,
                 pubs, mark>>

\* Mutant: an atomic_store, without the comparison.
CasWinsBlindly(t) ==
  /\ pc[t] = "cas"
  /\ current' = [current EXCEPT ![object[t]] = desired[t]]
  /\ pubs' = [pubs EXCEPT ![object[t]] = @ + 1]
  /\ held' = [held EXCEPT ![t] = desired[t]]
  /\ lost' = [lost EXCEPT ![t] = FALSE]
  /\ expected' = [expected EXCEPT ![t] = Null]
  /\ desired' = [desired EXCEPT ![t] = Null]
  /\ Go(t, "idle")
  /\ UNCHANGED <<heap, op, object, expired, ops, mark>>

\* atomic_compare_exchange_strong succeeds: the caller gets `desired` back.
CasWins(t) ==
  /\ pc[t] = "cas"
  /\ current[object[t]] = expected[t]
  /\ current' = [current EXCEPT ![object[t]] = desired[t]]
  /\ pubs' = [pubs EXCEPT ![object[t]] = @ + 1]
  /\ held' = [held EXCEPT ![t] = desired[t]]
  /\ lost' = [lost EXCEPT ![t] = FALSE]
  /\ expected' = [expected EXCEPT ![t] = Null]
  /\ desired' = [desired EXCEPT ![t] = Null]
  /\ Go(t, "idle")
  /\ UNCHANGED <<heap, op, object, expired, ops, mark>>

\* Mutant: the loop goes round without loading the pointer again.
CasLosesWithoutReload(t) ==
  /\ pc[t] = "cas" /\ op[t] = "overwrite"
  /\ current[object[t]] # expected[t]
  /\ mark' = [mark EXCEPT ![t] = pubs[object[t]]]
  /\ UNCHANGED <<current, heap, pc, op, object, expected, desired, held,
                 expired, lost, ops, pubs>>

\* It fails in overwrite_impl: loop with the same `desired`.
CasLosesOverwrite(t) ==
  /\ pc[t] = "cas" /\ op[t] = "overwrite"
  /\ current[object[t]] # expected[t]
  /\ expected' = [expected EXCEPT ![t] = Null]
  /\ mark' = [mark EXCEPT ![t] = pubs[object[t]]]
  /\ Go(t, "load")
  /\ UNCHANGED <<current, heap, op, object, desired, held, expired, lost, ops,
                 pubs>>

\* The call returns nullptr instead of a snapshot.
ReturnNull(t) ==
  /\ held' = [held EXCEPT ![t] = Null]
  /\ lost' = [lost EXCEPT ![t] = TRUE]
  /\ Go(t, "idle")

\* It fails in try_update_impl: both locals go out of scope.  try_update
\* answers nullptr, the looping callers decide in Retry.
CasLosesUpdate(t) ==
  /\ pc[t] = "cas" /\ op[t] # "overwrite"
  /\ current[object[t]] # expected[t]
  /\ expected' = [expected EXCEPT ![t] = Null]
  /\ desired' = [desired EXCEPT ![t] = Null]
  /\ \/ op[t] = "try_update" /\ ReturnNull(t)
     \/ op[t] # "try_update" /\ Go(t, "retry") /\ UNCHANGED <<held, lost>>
  /\ UNCHANGED <<current, heap, op, object, expired, ops, pubs, mark>>

\* update and try_update_until_impl after a failed attempt: the deadline is
\* looked at only here, after at least one attempt; then sleep and try again.
Retry(t) ==
  /\ pc[t] = "retry"
  /\ \/ /\ op[t] = "try_update_until" /\ expired[t]
        /\ ReturnNull(t)
        /\ UNCHANGED mark
     \/ /\ op[t] = "update" \/ ~expired[t]
        /\ mark' = [mark EXCEPT ![t] = pubs[object[t]]]
        /\ Go(t, "load")
        /\ UNCHANGED <<held, lost>>
  /\ UNCHANGED <<current, heap, op, object, expected, desired, expired, ops,
                 pubs>>

\* The clock passes timeout_time.
Expire(t) ==
  /\ op[t] = "try_update_until" /\ pc[t] # "idle" /\ ~expired[t]
  /\ expired' = [expired EXCEPT ![t] = TRUE]
  /\ UNCHANGED <<current, heap, pc, op, object, expected, desired, held, lost,
                 ops, pubs, mark>>

\* operator=: an atomic_load of the other object, then an atomic_store.
FetchOther(t) ==
  /\ pc[t] = "fetch"
  /\ \E other \in Objects :
       expected' = [expected EXCEPT ![t] = current[other]]
  /\ Go(t, "store")
  /\ UNCHANGED <<current, heap, op, object, desired, held, expired, lost, ops,
                 pubs, mark>>

Store(t) ==
  /\ pc[t] = "store"
  /\ current' = [current EXCEPT ![object[t]] = expected[t]]
  /\ pubs' = [pubs EXCEPT ![object[t]] = @ + 1]
  /\ expected' = [expected EXCEPT ![t] = Null]
  /\ Go(t, "idle")
  /\ UNCHANGED <<heap, op, object, desired, held, expired, lost, ops, mark>>

\* current(), operator* and operator->: the caller keeps the snapshot.
Current(t) ==
  /\ pc[t] = "idle"
  /\ \E o \in Objects : held' = [held EXCEPT ![t] = current[o]]
  /\ lost' = [lost EXCEPT ![t] = FALSE]
  /\ UNCHANGED <<current, heap, pc, op, object, expected, desired, expired,
                 ops, pubs, mark>>

\* The caller lets go of the snapshot it kept.
Release(t) ==
  /\ pc[t] = "idle"
  /\ held' = [held EXCEPT ![t] = Null]
  /\ lost' = [lost EXCEPT ![t] = FALSE]
  /\ UNCHANGED <<current, heap, pc, op, object, expected, desired, expired,
                 ops, pubs, mark>>

\* One step of thread t inside the operation it has begun.
Step(t) ==
  \/ Make(t) \/ LoadOverwrite(t) \/ LoadUpdate(t) \/ Build(t)
  \/ CasWins(t) \/ CasLosesOverwrite(t) \/ CasLosesUpdate(t) \/ Retry(t)
  \/ FetchOther(t) \/ Store(t)

Next ==
  \E t \in Threads :
     Step(t) \/ Invoke(t) \/ Expire(t) \/ Current(t) \/ Release(t)

Spec == Init /\ [][Next]_vars

\* A thread inside an operation keeps running; callers may stop calling.
FairSpec == Spec /\ \A t \in Threads : WF_vars(Step(t))

-----------------------------------------------------------------------------
(* The register this implements.                                           *)

Register == INSTANCE VersionedRegister WITH
  reg <- [o \in Objects |-> heap[current[o]]],
  result <- [t \in Threads |->
               IF lost[t] THEN LostRace
               ELSE IF held[t] = Null THEN NoResult ELSE heap[held[t]]],
  copy <- [t \in Threads |->
             IF pc[t] = "store" THEN heap[expected[t]] ELSE NoResult]

\* mvcc objects are linearizable versioned registers: every snapshot stored
\* is the successor of exactly the snapshot it replaces (no update is lost,
\* versions neither skip nor repeat except by assignment), a caller gets back
\* what it stored, and try_update answers nullptr only if another thread's
\* snapshot got in during the attempt (mvcc.hpp:224-313).
ImplementsRegister == Register!RegSpec

\* The snapshot a writer is still building is reachable by nobody else: not
\* through an object, not through another thread's pointers.  Otherwise the
\* version written at mvcc.hpp:232 would change a snapshot under a reader.
DesiredIsPrivate ==
  \A t \in Threads : desired[t] # Null =>
     /\ \A o \in Objects : current[o] # desired[t]
     /\ desired[t] \notin {expected[t], held[t]}
     /\ \A u \in Threads \ {t} : desired[t] \notin {expected[u], desired[u], held[u]}

\* The nodes a reader or a writer's compare-and-exchange may look at.
Published ==
  {n \in Nodes : \/ \E o \in Objects : current[o] = n
                 \/ \E t \in Threads : n \in {expected[t], held[t]}}

\* A const_snapshot_ptr means what it says: as long as anyone can see a
\* snapshot its content never changes, however nodes are reclaimed and reused.
SnapshotsAreImmutable ==
  [][\A n \in Nodes : n \in Published => heap'[n] = heap[n]]_vars

\* Every operation returns: a compare-and-exchange that fails has been beaten
\* by one that succeeded, and only MaxOps operations compete.
OperationsReturn ==
  \A t \in Threads : (pc[t] # "idle") ~> (pc[t] = "idle")

=============================================================================
