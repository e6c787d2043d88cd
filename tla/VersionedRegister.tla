------------------------- MODULE VersionedRegister -------------------------
(***************************************************************************)
(* What mvcc<T> promises its callers: a family of registers, each holding  *)
(* one immutable snapshot (a version and a value).  A writer replaces the  *)
(* snapshot by its successor in one indivisible step; try_update may give  *)
(* up only when some other writer got in between.  How the snapshots are   *)
(* stored, compared and reclaimed is the business of Mvcc.tla.             *)
(***************************************************************************)
EXTENDS Naturals

CONSTANTS Threads,      \* the callers
          Objects,      \* the registers
          Values,       \* what a snapshot can hold
          InitialValue, \* value of a default constructed object
          Updater,      \* Updater[t] is the function thread t passes to update
          NoResult,     \* a thread that holds no snapshot
          LostRace      \* what try_update answers instead of a snapshot

VARIABLES reg,     \* reg[o]: the current snapshot of o
          pubs,    \* pubs[o]: how many snapshots were stored in o so far
          mark,    \* mark[t]: pubs of t's object when its attempt began
          result,  \* result[t]: the snapshot t holds, NoResult or LostRace
          copy     \* copy[t]: the snapshot an assignment by t has read

regVars == <<reg, pubs, mark, result, copy>>

Snapshot == [version : Nat, value : Values]

RegInit ==
  /\ reg = [o \in Objects |-> [version |-> 0, value |-> InitialValue]]
  /\ pubs = [o \in Objects |-> 0]
  /\ mark = [t \in Threads |-> 0]
  /\ result = [t \in Threads |-> NoResult]
  /\ copy = [t \in Threads |-> NoResult]

\* A thread begins an operation on o.
Begin(t, o) ==
  /\ mark' = [mark EXCEPT ![t] = pubs[o]]
  /\ UNCHANGED <<reg, pubs, result, copy>>

\* t's attempt on o failed, and that is only because some other thread stored
\* a snapshot in o since the attempt began.
Beaten(t, o) == pubs[o] > mark[t]

\* The beaten thread tries again ...
Again(t, o) ==
  /\ Beaten(t, o)
  /\ mark' = [mark EXCEPT ![t] = pubs[o]]
  /\ UNCHANGED <<reg, pubs, result, copy>>

\* ... or reports that it lost.
GiveUp(t, o) ==
  /\ Beaten(t, o)
  /\ result' = [result EXCEPT ![t] = LostRace]
  /\ UNCHANGED <<reg, pubs, mark, copy>>

\* The snapshot of o is replaced by its successor, computed from exactly the
\* snapshot being replaced.
Publish(t, o, val) ==
  LET next == [version |-> reg[o].version + 1, value |-> val]
  IN  /\ reg' = [reg EXCEPT ![o] = next]
      /\ pubs' = [pubs EXCEPT ![o] = @ + 1]
      /\ result' = [result EXCEPT ![t] = next]
      /\ UNCHANGED <<mark, copy>>

Overwrite(t, o) == \E v \in Values : Publish(t, o, v)
Update(t, o) == Publish(t, o, Updater[t][reg[o].value])

\* current(): the thread now holds the snapshot stored in o.
Read(t, o) ==
  /\ result' = [result EXCEPT ![t] = reg[o]]
  /\ UNCHANGED <<reg, pubs, mark, copy>>

\* The caller drops the snapshot it held.
Drop(t) ==
  /\ result' = [result EXCEPT ![t] = NoResult]
  /\ UNCHANGED <<reg, pubs, mark, copy>>

\* operator= reads the other object first and stores what it read later.
Fetch(t, o) ==
  /\ copy' = [copy EXCEPT ![t] = reg[o]]
  /\ UNCHANGED <<reg, pubs, mark, result>>

Assign(t, o) ==
  /\ copy[t] \in Snapshot
  /\ reg' = [reg EXCEPT ![o] = copy[t]]
  /\ pubs' = [pubs EXCEPT ![o] = @ + 1]
  /\ copy' = [copy EXCEPT ![t] = NoResult]
  /\ UNCHANGED <<mark, result>>

RegNext ==
  \E t \in Threads, o \in Objects :
     \/ Begin(t, o)
     \/ Again(t, o)
     \/ Overwrite(t, o)
     \/ Update(t, o)
     \/ GiveUp(t, o)
     \/ Read(t, o)
     \/ Drop(t)
     \/ Fetch(t, o)
     \/ Assign(t, o)

RegSpec == RegInit /\ [][RegNext]_regVars

=============================================================================
