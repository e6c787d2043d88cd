----------------------------- MODULE MvccProofs -----------------------------
(***************************************************************************)
(* Proofs about Mvcc.tla, for any number of threads, objects and nodes.    *)
(*                                                                         *)
(* The inductive invariant says which of its two local pointers a thread   *)
(* has at each place (Locals), that a snapshot under construction belongs  *)
(* to its builder alone (DesiredIsPrivate), that it is the successor of    *)
(* the snapshot `expected` keeps alive (IsSuccessor), and that `expected`  *)
(* can differ from the object's pointer only if somebody stored a snapshot *)
(* there since the attempt began (OnlyBeaten).                             *)
(***************************************************************************)
EXTENDS Mvcc, TLAPS

Updating == {"update", "try_update", "try_update_until"}

LocalsOf(t) ==
  /\ pc[t] \in {"idle", "make", "retry", "fetch"} =>
       expected[t] = Null /\ desired[t] = Null
  /\ pc[t] = "make" => op[t] = "overwrite"
  /\ pc[t] = "load" =>
       /\ expected[t] = Null
       /\ op[t] = "overwrite" => desired[t] # Null
       /\ op[t] # "overwrite" => desired[t] = Null /\ op[t] \in Updating
  /\ pc[t] = "build" =>
       expected[t] # Null /\ desired[t] = Null /\ op[t] \in Updating
  /\ pc[t] = "cas" =>
       expected[t] # Null /\ desired[t] # Null /\ op[t] \in Updating \cup {"overwrite"}
  /\ pc[t] = "retry" => op[t] \in {"update", "try_update_until"}
  /\ pc[t] = "store" => expected[t] # Null /\ desired[t] = Null

Locals == \A t \in Threads : LocalsOf(t)

IsSuccessorOf(t) ==
  pc[t] = "cas" =>
    /\ heap[desired[t]].version = heap[expected[t]].version + 1
    /\ op[t] # "overwrite" =>
         heap[desired[t]].value = Updater[t][heap[expected[t]].value]

IsSuccessor == \A t \in Threads : IsSuccessorOf(t)

OnlyBeatenOf(t) ==
  /\ pc[t] # "idle" => mark[t] <= pubs[object[t]]
  /\ pc[t] \in {"build", "cas"} =>
       current[object[t]] = expected[t] \/ mark[t] < pubs[object[t]]
  /\ pc[t] = "retry" => mark[t] < pubs[object[t]]

OnlyBeaten == \A t \in Threads : OnlyBeatenOf(t)

IInv == TypeOK /\ Locals /\ DesiredIsPrivate /\ IsSuccessor /\ OnlyBeaten

\* Every step keeps every variable in its type.
LEMMA TypeStep ==
  ASSUME TypeOK, Locals, [Next]_vars
  PROVE  TypeOK'
<1>1. CASE UNCHANGED vars
  BY <1>1 DEF TypeOK, vars
<1>2. ASSUME NEW t \in Threads,
             Step(t) \/ Invoke(t) \/ Expire(t) \/ Current(t) \/ Release(t)
      PROVE  TypeOK'
  <2>1. CASE Make(t)
    BY <2>1, ValuesAssumption
       DEF TypeOK, Locals, LocalsOf, Make, Go, Free, Snapshot, Pcs, Kinds, ReturnNull, Updating
  <2>2. CASE LoadOverwrite(t)
    <3>1. /\ current[object[t]] \in Nodes
          /\ desired[t] \in Nodes
      BY <2>2 DEF TypeOK, Locals, LocalsOf, LoadOverwrite
    <3>2. heap[current[object[t]]].version + 1 \in Nat
      BY <3>1 DEF TypeOK, Snapshot
    <3>3. heap' \in [Nodes -> Snapshot]
      BY <2>2, <3>1, <3>2 DEF TypeOK, LoadOverwrite, Snapshot
    <3> QED
      BY <2>2, <3>1, <3>3 DEF TypeOK, LoadOverwrite, Go, Pcs
  <2>3. CASE LoadUpdate(t)
    BY <2>3, ValuesAssumption
       DEF TypeOK, Locals, LocalsOf, LoadUpdate, Go, Free, Snapshot, Pcs, Kinds, ReturnNull, Updating
  <2>4. CASE Build(t)
    <3>1. heap[expected[t]] \in Snapshot
      BY <2>4 DEF TypeOK, Locals, LocalsOf, Build
    <3>2. /\ heap[expected[t]].version + 1 \in Nat
          /\ Updater[t][heap[expected[t]].value] \in Values
      BY <3>1, ValuesAssumption DEF Snapshot
    <3>3. heap' \in [Nodes -> Snapshot]
      BY <2>4, <3>2 DEF TypeOK, Build, Snapshot, Free
    <3>4. desired' \in [Threads -> Nodes \cup {Null}]
      BY <2>4 DEF TypeOK, Build, Free
    <3> QED
      BY <2>4, <3>3, <3>4 DEF TypeOK, Build, Go, Pcs
  <2>5. CASE CasWins(t)
    BY <2>5, ValuesAssumption
       DEF TypeOK, Locals, LocalsOf, CasWins, Go, Free, Snapshot, Pcs, Kinds, ReturnNull, Updating
  <2>6. CASE CasLosesOverwrite(t)
    BY <2>6, ValuesAssumption
       DEF TypeOK, Locals, LocalsOf, CasLosesOverwrite, Go, Free, Snapshot, Pcs, Kinds, ReturnNull, Updating
  <2>7. CASE CasLosesUpdate(t)
    BY <2>7, ValuesAssumption
       DEF TypeOK, Locals, LocalsOf, CasLosesUpdate, Go, Free, Snapshot, Pcs, Kinds, ReturnNull, Updating
  <2>8. CASE Retry(t)
    <3>1. /\ pc' \in [Threads -> Pcs]
          /\ held' \in [Threads -> Nodes \cup {Null}]
          /\ lost' \in [Threads -> BOOLEAN]
      BY <2>8, Zenon DEF TypeOK, Retry, Go, ReturnNull, Pcs
    <3>2. mark' \in [Threads -> Nat]
      BY <2>8 DEF TypeOK, Retry
    <3> QED
      BY <2>8, <3>1, <3>2 DEF TypeOK, Retry
  <2>9. CASE FetchOther(t)
    BY <2>9, ValuesAssumption
       DEF TypeOK, Locals, LocalsOf, FetchOther, Go, Free, Snapshot, Pcs, Kinds, ReturnNull, Updating
  <2>10. CASE Store(t)
    BY <2>10, ValuesAssumption
       DEF TypeOK, Locals, LocalsOf, Store, Go, Free, Snapshot, Pcs, Kinds, ReturnNull, Updating
  <2>11. CASE Invoke(t)
    BY <2>11, ValuesAssumption
       DEF TypeOK, Locals, LocalsOf, Invoke, Go, Free, Snapshot, Pcs, Kinds, ReturnNull, Updating
  <2>12. CASE Expire(t)
    BY <2>12, ValuesAssumption
       DEF TypeOK, Locals, LocalsOf, Expire, Go, Free, Snapshot, Pcs, Kinds, ReturnNull, Updating
  <2>13. CASE Current(t)
    BY <2>13, ValuesAssumption
       DEF TypeOK, Locals, LocalsOf, Current, Go, Free, Snapshot, Pcs, Kinds, ReturnNull, Updating
  <2>14. CASE Release(t)
    BY <2>14, ValuesAssumption
       DEF TypeOK, Locals, LocalsOf, Release, Go, Free, Snapshot, Pcs, Kinds, ReturnNull, Updating
  <2> QED BY <1>2, <2>1, <2>2, <2>3, <2>4, <2>5, <2>6, <2>7, <2>8, <2>9, <2>10, <2>11, <2>12, <2>13, <2>14 DEF Step
<1> QED BY <1>1, <1>2 DEF Next

\* Every step leaves a thread with the pointers its place calls for.
LEMMA LocalsStep ==
  ASSUME TypeOK, Locals, [Next]_vars
  PROVE  Locals'
<1>1. CASE UNCHANGED vars
  BY <1>1 DEF Locals, LocalsOf, vars
<1>2. ASSUME NEW t \in Threads,
             Step(t) \/ Invoke(t) \/ Expire(t) \/ Current(t) \/ Release(t)
      PROVE  Locals'
  <2>1. CASE Make(t)
    BY <2>1, NullAssumption
       DEF TypeOK, Locals, LocalsOf, Make, Go, Free, Pcs, Kinds, ReturnNull, Updating
  <2>2. CASE LoadOverwrite(t)
    BY <2>2, NullAssumption
       DEF TypeOK, Locals, LocalsOf, LoadOverwrite, Go, Free, Pcs, Kinds, ReturnNull, Updating
  <2>3. CASE LoadUpdate(t)
    BY <2>3, NullAssumption
       DEF TypeOK, Locals, LocalsOf, LoadUpdate, Go, Free, Pcs, Kinds, ReturnNull, Updating
  <2>4. CASE Build(t)
    BY <2>4, NullAssumption
       DEF TypeOK, Locals, LocalsOf, Build, Go, Free, Pcs, Kinds, ReturnNull, Updating
  <2>5. CASE CasWins(t)
    BY <2>5, NullAssumption
       DEF TypeOK, Locals, LocalsOf, CasWins, Go, Free, Pcs, Kinds, ReturnNull, Updating
  <2>6. CASE CasLosesOverwrite(t)
    BY <2>6, NullAssumption
       DEF TypeOK, Locals, LocalsOf, CasLosesOverwrite, Go, Free, Pcs, Kinds, ReturnNull, Updating
  <2>7. CASE CasLosesUpdate(t)
    BY <2>7, NullAssumption
       DEF TypeOK, Locals, LocalsOf, CasLosesUpdate, Go, Free, Pcs, Kinds, ReturnNull, Updating
  <2>8. CASE Retry(t)
    BY <2>8, NullAssumption
       DEF TypeOK, Locals, LocalsOf, Retry, Go, Free, Pcs, Kinds, ReturnNull, Updating
  <2>9. CASE FetchOther(t)
    BY <2>9, NullAssumption
       DEF TypeOK, Locals, LocalsOf, FetchOther, Go, Free, Pcs, Kinds, ReturnNull, Updating
  <2>10. CASE Store(t)
    BY <2>10, NullAssumption
       DEF TypeOK, Locals, LocalsOf, Store, Go, Free, Pcs, Kinds, ReturnNull, Updating
  <2>11. CASE Invoke(t)
    BY <2>11, NullAssumption
       DEF TypeOK, Locals, LocalsOf, Invoke, Go, Free, Pcs, Kinds, ReturnNull, Updating
  <2>12. CASE Expire(t)
    BY <2>12, NullAssumption
       DEF TypeOK, Locals, LocalsOf, Expire, Go, Free, Pcs, Kinds, ReturnNull, Updating
  <2>13. CASE Current(t)
    BY <2>13, NullAssumption
       DEF TypeOK, Locals, LocalsOf, Current, Go, Free, Pcs, Kinds, ReturnNull, Updating
  <2>14. CASE Release(t)
    BY <2>14, NullAssumption
       DEF TypeOK, Locals, LocalsOf, Release, Go, Free, Pcs, Kinds, ReturnNull, Updating
  <2> QED BY <1>2, <2>1, <2>2, <2>3, <2>4, <2>5, <2>6, <2>7, <2>8, <2>9, <2>10, <2>11, <2>12, <2>13, <2>14 DEF Step
<1> QED BY <1>1, <1>2 DEF Next

\* Every step keeps unpublished snapshots private.
LEMMA PrivateStep ==
  ASSUME TypeOK, Locals, DesiredIsPrivate, [Next]_vars
  PROVE  DesiredIsPrivate'
<1>1. CASE UNCHANGED vars
  BY <1>1 DEF DesiredIsPrivate, vars
<1>2. ASSUME NEW t \in Threads,
             Step(t) \/ Invoke(t) \/ Expire(t) \/ Current(t) \/ Release(t)
      PROVE  DesiredIsPrivate'
  <2>1. CASE Make(t)
    BY <2>1, NullAssumption
       DEF TypeOK, Locals, LocalsOf, DesiredIsPrivate, Make, Go, ReturnNull, Free, Referenced
  <2>2. CASE LoadOverwrite(t)
    BY <2>2, NullAssumption
       DEF TypeOK, Locals, LocalsOf, DesiredIsPrivate, LoadOverwrite, Go, ReturnNull
  <2>3. CASE LoadUpdate(t)
    BY <2>3, NullAssumption
       DEF TypeOK, Locals, LocalsOf, DesiredIsPrivate, LoadUpdate, Go, ReturnNull
  <2>4. CASE Build(t)
    BY <2>4, NullAssumption
       DEF TypeOK, Locals, LocalsOf, DesiredIsPrivate, Build, Go, ReturnNull, Free, Referenced
  <2>5. CASE CasWins(t)
    BY <2>5, NullAssumption
       DEF TypeOK, Locals, LocalsOf, DesiredIsPrivate, CasWins, Go, ReturnNull
  <2>6. CASE CasLosesOverwrite(t)
    BY <2>6, NullAssumption
       DEF TypeOK, Locals, LocalsOf, DesiredIsPrivate, CasLosesOverwrite, Go, ReturnNull
  <2>7. CASE CasLosesUpdate(t)
    BY <2>7, NullAssumption
       DEF TypeOK, Locals, LocalsOf, DesiredIsPrivate, CasLosesUpdate, Go, ReturnNull
  <2>8. CASE Retry(t)
    BY <2>8, NullAssumption
       DEF TypeOK, Locals, LocalsOf, DesiredIsPrivate, Retry, Go, ReturnNull
  <2>9. CASE FetchOther(t)
    BY <2>9, NullAssumption
       DEF TypeOK, Locals, LocalsOf, DesiredIsPrivate, FetchOther, Go, ReturnNull
  <2>10. CASE Store(t)
    BY <2>10, NullAssumption
       DEF TypeOK, Locals, LocalsOf, DesiredIsPrivate, Store, Go, ReturnNull
  <2>11. CASE Invoke(t)
    BY <2>11, NullAssumption
       DEF TypeOK, Locals, LocalsOf, DesiredIsPrivate, Invoke, Go, ReturnNull
  <2>12. CASE Expire(t)
    BY <2>12, NullAssumption
       DEF TypeOK, Locals, LocalsOf, DesiredIsPrivate, Expire, Go, ReturnNull
  <2>13. CASE Current(t)
    BY <2>13, NullAssumption
       DEF TypeOK, Locals, LocalsOf, DesiredIsPrivate, Current, Go, ReturnNull
  <2>14. CASE Release(t)
    BY <2>14, NullAssumption
       DEF TypeOK, Locals, LocalsOf, DesiredIsPrivate, Release, Go, ReturnNull
  <2> QED BY <1>2, <2>1, <2>2, <2>3, <2>4, <2>5, <2>6, <2>7, <2>8, <2>9, <2>10, <2>11, <2>12, <2>13, <2>14 DEF Step
<1> QED BY <1>1, <1>2 DEF Next

\* Every step keeps the snapshot to be stored the successor of `expected`.
LEMMA SuccessorStep ==
  ASSUME TypeOK, Locals, DesiredIsPrivate, IsSuccessor, [Next]_vars
  PROVE  IsSuccessor'
<1>1. CASE UNCHANGED vars
  BY <1>1 DEF IsSuccessor, IsSuccessorOf, vars
<1>2. ASSUME NEW t \in Threads,
             Step(t) \/ Invoke(t) \/ Expire(t) \/ Current(t) \/ Release(t)
      PROVE  IsSuccessor'
  <2>1. CASE Make(t)
    BY <2>1, NullAssumption
       DEF TypeOK, Locals, LocalsOf, DesiredIsPrivate, IsSuccessor, IsSuccessorOf,
           Make, Go, ReturnNull, Snapshot, Free, Referenced
  <2>2. CASE LoadOverwrite(t)
    BY <2>2, NullAssumption
       DEF TypeOK, Locals, LocalsOf, DesiredIsPrivate, IsSuccessor, IsSuccessorOf,
           LoadOverwrite, Go, ReturnNull, Snapshot
  <2>3. CASE LoadUpdate(t)
    BY <2>3, NullAssumption
       DEF TypeOK, Locals, LocalsOf, DesiredIsPrivate, IsSuccessor, IsSuccessorOf,
           LoadUpdate, Go, ReturnNull, Snapshot
  <2>4. CASE Build(t)
    BY <2>4, NullAssumption
       DEF TypeOK, Locals, LocalsOf, DesiredIsPrivate, IsSuccessor, IsSuccessorOf,
           Build, Go, ReturnNull, Snapshot, Free, Referenced
  <2>5. CASE CasWins(t)
    BY <2>5, NullAssumption
       DEF TypeOK, Locals, LocalsOf, DesiredIsPrivate, IsSuccessor, IsSuccessorOf,
           CasWins, Go, ReturnNull, Snapshot
  <2>6. CASE CasLosesOverwrite(t)
    BY <2>6, NullAssumption
       DEF TypeOK, Locals, LocalsOf, DesiredIsPrivate, IsSuccessor, IsSuccessorOf,
           CasLosesOverwrite, Go, ReturnNull, Snapshot
  <2>7. CASE CasLosesUpdate(t)
    BY <2>7, NullAssumption
       DEF TypeOK, Locals, LocalsOf, DesiredIsPrivate, IsSuccessor, IsSuccessorOf,
           CasLosesUpdate, Go, ReturnNull, Snapshot
  <2>8. CASE Retry(t)
    BY <2>8, NullAssumption
       DEF TypeOK, Locals, LocalsOf, DesiredIsPrivate, IsSuccessor, IsSuccessorOf,
           Retry, Go, ReturnNull, Snapshot
  <2>9. CASE FetchOther(t)
    BY <2>9, NullAssumption
       DEF TypeOK, Locals, LocalsOf, DesiredIsPrivate, IsSuccessor, IsSuccessorOf,
           FetchOther, Go, ReturnNull, Snapshot
  <2>10. CASE Store(t)
    BY <2>10, NullAssumption
       DEF TypeOK, Locals, LocalsOf, DesiredIsPrivate, IsSuccessor, IsSuccessorOf,
           Store, Go, ReturnNull, Snapshot
  <2>11. CASE Invoke(t)
    BY <2>11, NullAssumption
       DEF TypeOK, Locals, LocalsOf, DesiredIsPrivate, IsSuccessor, IsSuccessorOf,
           Invoke, Go, ReturnNull, Snapshot
  <2>12. CASE Expire(t)
    BY <2>12, NullAssumption
       DEF TypeOK, Locals, LocalsOf, DesiredIsPrivate, IsSuccessor, IsSuccessorOf,
           Expire, Go, ReturnNull, Snapshot
  <2>13. CASE Current(t)
    BY <2>13, NullAssumption
       DEF TypeOK, Locals, LocalsOf, DesiredIsPrivate, IsSuccessor, IsSuccessorOf,
           Current, Go, ReturnNull, Snapshot
  <2>14. CASE Release(t)
    BY <2>14, NullAssumption
       DEF TypeOK, Locals, LocalsOf, DesiredIsPrivate, IsSuccessor, IsSuccessorOf,
           Release, Go, ReturnNull, Snapshot
  <2> QED BY <1>2, <2>1, <2>2, <2>3, <2>4, <2>5, <2>6, <2>7, <2>8, <2>9, <2>10, <2>11, <2>12, <2>13, <2>14 DEF Step
<1> QED BY <1>1, <1>2 DEF Next

\* Every step keeps a thread from losing to nobody.
LEMMA BeatenStep ==
  ASSUME TypeOK, Locals, OnlyBeaten, [Next]_vars
  PROVE  OnlyBeaten'
<1>1. CASE UNCHANGED vars
  BY <1>1 DEF OnlyBeaten, OnlyBeatenOf, vars
<1>2. ASSUME NEW t \in Threads,
             Step(t) \/ Invoke(t) \/ Expire(t) \/ Current(t) \/ Release(t)
      PROVE  OnlyBeaten'
  <2>1. CASE Make(t)
    BY <2>1, NullAssumption
       DEF TypeOK, Locals, LocalsOf, OnlyBeaten, OnlyBeatenOf, Make, Go, ReturnNull
  <2>2. CASE LoadOverwrite(t)
    BY <2>2, NullAssumption
       DEF TypeOK, Locals, LocalsOf, OnlyBeaten, OnlyBeatenOf, LoadOverwrite, Go, ReturnNull
  <2>3. CASE LoadUpdate(t)
    BY <2>3, NullAssumption
       DEF TypeOK, Locals, LocalsOf, OnlyBeaten, OnlyBeatenOf, LoadUpdate, Go, ReturnNull
  <2>4. CASE Build(t)
    BY <2>4, NullAssumption
       DEF TypeOK, Locals, LocalsOf, OnlyBeaten, OnlyBeatenOf, Build, Go, ReturnNull
  <2>5. CASE CasWins(t)
    BY <2>5, NullAssumption
       DEF TypeOK, Locals, LocalsOf, OnlyBeaten, OnlyBeatenOf, CasWins, Go, ReturnNull
  <2>6. CASE CasLosesOverwrite(t)
    BY <2>6, NullAssumption
       DEF TypeOK, Locals, LocalsOf, OnlyBeaten, OnlyBeatenOf, CasLosesOverwrite, Go, ReturnNull
  <2>7. CASE CasLosesUpdate(t)
    BY <2>7, NullAssumption
       DEF TypeOK, Locals, LocalsOf, OnlyBeaten, OnlyBeatenOf, CasLosesUpdate, Go, ReturnNull
  <2>8. CASE Retry(t)
    BY <2>8, NullAssumption
       DEF TypeOK, Locals, LocalsOf, OnlyBeaten, OnlyBeatenOf, Retry, Go, ReturnNull
  <2>9. CASE FetchOther(t)
    BY <2>9, NullAssumption
       DEF TypeOK, Locals, LocalsOf, OnlyBeaten, OnlyBeatenOf, FetchOther, Go, ReturnNull
  <2>10. CASE Store(t)
    BY <2>10, NullAssumption
       DEF TypeOK, Locals, LocalsOf, OnlyBeaten, OnlyBeatenOf, Store, Go, ReturnNull
  <2>11. CASE Invoke(t)
    BY <2>11, NullAssumption
       DEF TypeOK, Locals, LocalsOf, OnlyBeaten, OnlyBeatenOf, Invoke, Go, ReturnNull
  <2>12. CASE Expire(t)
    BY <2>12, NullAssumption
       DEF TypeOK, Locals, LocalsOf, OnlyBeaten, OnlyBeatenOf, Expire, Go, ReturnNull
  <2>13. CASE Current(t)
    BY <2>13, NullAssumption
       DEF TypeOK, Locals, LocalsOf, OnlyBeaten, OnlyBeatenOf, Current, Go, ReturnNull
  <2>14. CASE Release(t)
    BY <2>14, NullAssumption
       DEF TypeOK, Locals, LocalsOf, OnlyBeaten, OnlyBeatenOf, Release, Go, ReturnNull
  <2> QED BY <1>2, <2>1, <2>2, <2>3, <2>4, <2>5, <2>6, <2>7, <2>8, <2>9, <2>10, <2>11, <2>12, <2>13, <2>14 DEF Step
<1> QED BY <1>1, <1>2 DEF Next

\* The invariant holds initially.
LEMMA InitInv == Init => IInv
<1> SUFFICES ASSUME Init PROVE IInv
  OBVIOUS
<1>1. TypeOK
  BY ObjectsAssumption, ValuesAssumption
     DEF Init, TypeOK, Snapshot, Pcs, Kinds
<1>2. Locals
  BY DEF Init, Locals, LocalsOf
<1>3. DesiredIsPrivate
  BY DEF Init, DesiredIsPrivate
<1>4. IsSuccessor
  BY DEF Init, IsSuccessor, IsSuccessorOf
<1>5. OnlyBeaten
  BY DEF Init, OnlyBeaten, OnlyBeatenOf
<1> QED
  BY <1>1, <1>2, <1>3, <1>4, <1>5 DEF IInv

\* The inductive invariant holds in every reachable state.
THEOREM Invariance == Spec => []IInv
<1>1. IInv /\ [Next]_vars => IInv'
  BY TypeStep, LocalsStep, PrivateStep, SuccessorStep, BeatenStep DEF IInv
<1> QED
  BY InitInv, <1>1, PTL DEF Spec

\* Every variable of the cell keeps its type: in particular an object never
\* points to null and a snapshot's version is a number.
THEOREM TypeCorrect == Spec => []TypeOK
<1>1. IInv => TypeOK
  BY DEF IInv
<1> QED
  BY Invariance, <1>1, PTL

\* A snapshot that is still being written is reachable by its writer only.
THEOREM Privacy == Spec => []DesiredIsPrivate
<1>1. IInv => DesiredIsPrivate
  BY DEF IInv
<1> QED
  BY Invariance, <1>1, PTL

\* The heap changes only in nodes that nobody can see.
LEMMA PublishedStable ==
  ASSUME IInv, [Next]_vars, NEW n \in Nodes, n \in Published
  PROVE  heap'[n] = heap[n]
<1> USE DEF IInv, Published
<1>1. CASE UNCHANGED vars
  BY <1>1 DEF vars
<1>2. ASSUME NEW t \in Threads,
             Step(t) \/ Invoke(t) \/ Expire(t) \/ Current(t) \/ Release(t)
      PROVE  heap'[n] = heap[n]
  <2>1. CASE Make(t)
    BY <2>1 DEF Make, Free, Referenced, TypeOK
  <2>2. CASE Build(t)
    BY <2>2 DEF Build, Free, Referenced, TypeOK
  <2>3. CASE LoadOverwrite(t)
    <3>1. desired[t] # n
      BY <2>3, NullAssumption
         DEF LoadOverwrite, DesiredIsPrivate, Locals, LocalsOf, TypeOK
    <3> QED
      BY <2>3, <3>1 DEF LoadOverwrite, TypeOK
  <2>4. ASSUME ~(Make(t) \/ Build(t) \/ LoadOverwrite(t))
        PROVE  heap' = heap
    BY <1>2, <2>4 DEF Step, LoadUpdate, CasWins, CasLosesOverwrite,
         CasLosesUpdate, Retry, FetchOther, Store, Invoke, Expire, Current,
         Release
  <2> QED
    BY <2>1, <2>2, <2>3, <2>4
<1> QED
  BY <1>1, <1>2 DEF Next

\* No snapshot changes while an object, a reader or a writer can see it.
THEOREM Immutability == Spec => SnapshotsAreImmutable
<1>1. IInv /\ [Next]_vars =>
        [\A n \in Nodes : n \in Published => heap'[n] = heap[n]]_vars
  BY PublishedStable
<1> QED
  BY Invariance, <1>1, PTL DEF Spec, SnapshotsAreImmutable

-----------------------------------------------------------------------------
(* The cell implements the versioned register.  RegOf, ResultOf and CopyOf *)
(* are the register's variables as Mvcc.tla defines them.                  *)

RegOf == [o \in Objects |-> heap[current[o]]]
ResultOf == [t \in Threads |->
               IF lost[t] THEN LostRace
               ELSE IF held[t] = Null THEN NoResult ELSE heap[held[t]]]
CopyOf == [t \in Threads |->
             IF pc[t] = "store" THEN heap[expected[t]] ELSE NoResult]

\* Steps that change neither what an object points to, nor what callers hold,
\* nor a copy under way, leave the register alone.
LEMMA RegStable ==
  ASSUME IInv, [Next]_vars, UNCHANGED current
  PROVE  RegOf' = RegOf
<1>1. \A o \in Objects : current[o] \in Nodes /\ current[o] \in Published
  BY DEF IInv, TypeOK, Published
<1> QED
  BY <1>1, PublishedStable DEF RegOf

\* What the callers hold keeps its content if nobody lets go or takes over.
LEMMA ResultStable ==
  ASSUME IInv, [Next]_vars, UNCHANGED <<held, lost>>
  PROVE  ResultOf' = ResultOf
<1>1. \A t \in Threads : held[t] # Null => held[t] \in Nodes /\ held[t] \in Published
  BY DEF IInv, TypeOK, Published
<1>2. \A t \in Threads : held[t] # Null => heap'[held[t]] = heap[held[t]]
  BY <1>1, PublishedStable
<1> QED
  BY <1>2 DEF ResultOf

\* The same for all threads but t.
LEMMA ResultOfOthers ==
  ASSUME IInv, [Next]_vars, NEW t \in Threads,
         \A u \in Threads \ {t} : held'[u] = held[u] /\ lost'[u] = lost[u]
  PROVE  \A u \in Threads \ {t} : ResultOf'[u] = ResultOf[u]
<1>1. \A u \in Threads : held[u] # Null => held[u] \in Nodes /\ held[u] \in Published
  BY DEF IInv, TypeOK, Published
<1>2. \A u \in Threads : held[u] # Null => heap'[held[u]] = heap[held[u]]
  BY <1>1, PublishedStable
<1> QED
  BY <1>2 DEF ResultOf

\* The assignments under way in threads other than t keep what they read.
LEMMA CopyOfOthers ==
  ASSUME IInv, [Next]_vars, NEW t \in Threads,
         \A u \in Threads \ {t} : pc'[u] = pc[u] /\ expected'[u] = expected[u]
  PROVE  \A u \in Threads \ {t} : CopyOf'[u] = CopyOf[u]
<1>1. \A u \in Threads : pc[u] = "store" =>
         expected[u] \in Nodes /\ expected[u] \in Published
  BY DEF IInv, TypeOK, Locals, LocalsOf, Published
<1>2. \A u \in Threads : pc[u] = "store" => heap'[expected[u]] = heap[expected[u]]
  BY <1>1, PublishedStable
<1> QED
  BY <1>2 DEF CopyOf

\* A step of t that neither is nor becomes an assignment in progress.
LEMMA CopyStable ==
  ASSUME IInv, [Next]_vars, NEW t \in Threads,
         \A u \in Threads \ {t} : pc'[u] = pc[u] /\ expected'[u] = expected[u],
         pc[t] # "store", pc'[t] # "store"
  PROVE  CopyOf' = CopyOf
<1>1. CopyOf'[t] = CopyOf[t]
  BY DEF CopyOf
<1> QED
  BY <1>1, CopyOfOthers DEF CopyOf

\* The cell starts as the register does.
LEMMA RegisterInit == Init => Register!RegInit
  BY ObjectsAssumption DEF Init, Register!RegInit

\* What a winning compare-and-exchange stores is the successor of what it
\* replaces, made of an arbitrary value or by the thread's updater.
LEMMA WinPublishes ==
  ASSUME IInv, [Next]_vars, NEW t \in Threads, CasWins(t)
  PROVE  Register!Overwrite(t, object[t]) \/ Register!Update(t, object[t])
<1> DEFINE o == object[t]
           d == desired[t]
<1>1. /\ o \in Objects /\ d \in Nodes /\ expected[t] \in Nodes
      /\ heap[d] \in Snapshot /\ heap' = heap
  BY DEF CasWins, IInv, TypeOK, Locals, LocalsOf
<1>2. /\ heap[d].version = RegOf[o].version + 1
      /\ op[t] # "overwrite" => heap[d].value = Updater[t][RegOf[o].value]
  BY <1>1 DEF CasWins, RegOf, IInv, IsSuccessor, IsSuccessorOf
<1>3. heap[d] = [version |-> RegOf[o].version + 1, value |-> heap[d].value]
  BY <1>1, <1>2 DEF Snapshot
<1>4. RegOf' = [RegOf EXCEPT ![o] = heap[d]]
  BY <1>1 DEF CasWins, RegOf, IInv, TypeOK
<1>5. ResultOf' = [ResultOf EXCEPT ![t] = heap[d]]
  <2>1. ResultOf'[t] = heap[d]
    BY <1>1, NullAssumption DEF CasWins, ResultOf, IInv, TypeOK
  <2>2. \A u \in Threads \ {t} : ResultOf'[u] = ResultOf[u]
    BY ResultOfOthers DEF CasWins, IInv, TypeOK
  <2> QED
    BY <2>1, <2>2 DEF ResultOf
<1>6. CopyOf' = CopyOf
  BY CopyStable DEF CasWins, Go, IInv, TypeOK
<1>7. pubs' = [pubs EXCEPT ![o] = @ + 1] /\ mark' = mark
  BY DEF CasWins
<1>8. Register!Publish(t, o, heap[d].value)
  BY <1>3, <1>4, <1>5, <1>6, <1>7
     DEF Register!Publish, RegOf, ResultOf, CopyOf
<1>9. CASE op[t] = "overwrite"
  <2>1. heap[d].value \in Values
    BY <1>1 DEF Snapshot
  <2> QED
    BY <1>8, <2>1 DEF Register!Overwrite, Register!Publish
<1>10. CASE op[t] # "overwrite"
  <2>1. heap[d].value = Updater[t][heap[current[o]].value]
    BY <1>1, <1>2, <1>10 DEF RegOf
  <2>2. RegOf[o] = heap[current[o]]
    BY <1>1 DEF RegOf
  <2> QED
    BY <1>8, <2>1, <2>2 DEF Register!Update, Register!Publish, RegOf
<1> QED
  BY <1>9, <1>10

\* Every step of the cell is a step of the register, or leaves it unchanged.
LEMMA RegisterStep ==
  ASSUME IInv, [Next]_vars
  PROVE  [Register!RegNext]_(Register!regVars)
<1>1. CASE UNCHANGED vars
  BY <1>1 DEF vars, Register!regVars
<1>2. ASSUME NEW t \in Threads,
             Step(t) \/ Invoke(t) \/ Expire(t) \/ Current(t) \/ Release(t)
      PROVE  Register!RegNext \/ UNCHANGED Register!regVars
  <2>1. CASE Make(t)
    <3>1. UNCHANGED <<current, held, lost, pubs, mark>>
      BY <2>1 DEF Make
    <3>2. CopyOf' = CopyOf
      BY <2>1, CopyStable DEF Make, Go, IInv, TypeOK
    <3> QED
      BY <3>1, <3>2, RegStable, ResultStable
         DEF Register!regVars, RegOf, ResultOf, CopyOf
  <2>2. CASE LoadOverwrite(t)
    <3>1. UNCHANGED <<current, held, lost, pubs, mark>>
      BY <2>2 DEF LoadOverwrite
    <3>2. CopyOf' = CopyOf
      BY <2>2, CopyStable DEF LoadOverwrite, Go, IInv, TypeOK
    <3> QED
      BY <3>1, <3>2, RegStable, ResultStable
         DEF Register!regVars, RegOf, ResultOf, CopyOf
  <2>3. CASE LoadUpdate(t)
    <3>1. UNCHANGED <<current, held, lost, pubs, mark>>
      BY <2>3 DEF LoadUpdate
    <3>2. CopyOf' = CopyOf
      BY <2>3, CopyStable DEF LoadUpdate, Go, IInv, TypeOK
    <3> QED
      BY <3>1, <3>2, RegStable, ResultStable
         DEF Register!regVars, RegOf, ResultOf, CopyOf
  <2>4. CASE Build(t)
    <3>1. UNCHANGED <<current, held, lost, pubs, mark>>
      BY <2>4 DEF Build
    <3>2. CopyOf' = CopyOf
      BY <2>4, CopyStable DEF Build, Go, IInv, TypeOK
    <3> QED
      BY <3>1, <3>2, RegStable, ResultStable
         DEF Register!regVars, RegOf, ResultOf, CopyOf
  <2>5. CASE Expire(t)
    <3>1. UNCHANGED <<current, held, lost, pubs, mark>>
      BY <2>5 DEF Expire
    <3>2. CopyOf' = CopyOf
      BY <2>5 DEF Expire, CopyOf
    <3> QED
      BY <3>1, <3>2, RegStable, ResultStable
         DEF Register!regVars, RegOf, ResultOf, CopyOf
  <2>6. CASE CasWins(t)
    <3>1. object[t] \in Objects
      BY DEF IInv, TypeOK
    <3> QED
      BY <2>6, <3>1, WinPublishes DEF Register!RegNext
  <2>7. CASE CasLosesOverwrite(t)
    <3>1. object[t] \in Objects /\ mark[t] < pubs[object[t]]
      BY <2>7 DEF CasLosesOverwrite, IInv, TypeOK, OnlyBeaten, OnlyBeatenOf
    <3>2. CopyOf' = CopyOf
      BY <2>7, CopyStable DEF CasLosesOverwrite, Go, IInv, TypeOK
    <3>3. RegOf' = RegOf /\ ResultOf' = ResultOf
      BY <2>7, RegStable, ResultStable DEF CasLosesOverwrite
    <3>4. pubs[object[t]] > mark[t]
      BY <3>1 DEF IInv, TypeOK
    <3>5. Register!Again(t, object[t])
      BY <2>7, <3>2, <3>3, <3>4
         DEF CasLosesOverwrite, Register!Again, Register!Beaten, RegOf, ResultOf, CopyOf
    <3> QED
      BY <3>1, <3>5 DEF Register!RegNext
  <2>8. ASSUME ReturnNull(t), UNCHANGED <<current, pubs, mark>>,
               \A u \in Threads \ {t} : expected'[u] = expected[u],
               pc[t] # "store", mark[t] < pubs[object[t]]
        PROVE  Register!RegNext
    <3>1. PICK o \in Objects : o = object[t]
      BY DEF IInv, TypeOK
    <3>2. CopyOf' = CopyOf
      BY <2>8, CopyStable DEF ReturnNull, Go, IInv, TypeOK
    <3>3. RegOf' = RegOf
      BY <2>8, RegStable
    <3>4. ResultOf' = [ResultOf EXCEPT ![t] = LostRace]
      <4>1. ResultOf'[t] = LostRace
        BY <2>8 DEF ReturnNull, ResultOf, IInv, TypeOK
      <4>2. \A u \in Threads \ {t} : ResultOf'[u] = ResultOf[u]
        BY <2>8, ResultOfOthers DEF ReturnNull, IInv, TypeOK
      <4> QED
        BY <4>1, <4>2 DEF ResultOf
    <3>5. pubs[o] > mark[t]
      BY <2>8, <3>1 DEF IInv, TypeOK
    <3>6. Register!GiveUp(t, o)
      BY <2>8, <3>2, <3>3, <3>4, <3>5
         DEF Register!GiveUp, Register!Beaten, RegOf, ResultOf, CopyOf
    <3> QED
      BY <3>6 DEF Register!RegNext
  <2>9. CASE CasLosesUpdate(t)
    <3>1. mark[t] < pubs[object[t]]
      BY <2>9 DEF CasLosesUpdate, IInv, OnlyBeaten, OnlyBeatenOf
    <3>2. CASE op[t] = "try_update"
      BY <2>8, <2>9, <3>1, <3>2 DEF CasLosesUpdate, IInv, TypeOK
    <3>3. CASE op[t] # "try_update"
      <4>1. UNCHANGED <<current, held, lost, pubs, mark>>
        BY <2>9, <3>3 DEF CasLosesUpdate
      <4>2. CopyOf' = CopyOf
        BY <2>9, <3>3, CopyStable DEF CasLosesUpdate, Go, IInv, TypeOK
      <4> QED
        BY <4>1, <4>2, RegStable, ResultStable
           DEF Register!regVars, RegOf, ResultOf, CopyOf
    <3> QED
      BY <3>2, <3>3
  <2>10. CASE Retry(t)
    <3>1. object[t] \in Objects /\ mark[t] < pubs[object[t]]
      BY <2>10 DEF Retry, IInv, TypeOK, OnlyBeaten, OnlyBeatenOf
    <3>2. CASE ReturnNull(t) /\ UNCHANGED mark
      BY <2>8, <2>10, <3>1, <3>2 DEF Retry
    <3>3. CASE /\ mark' = [mark EXCEPT ![t] = pubs[object[t]]]
               /\ Go(t, "load")
               /\ UNCHANGED <<held, lost>>
      <4>1. CopyOf' = CopyOf
        BY <2>10, <3>3, CopyStable DEF Retry, Go, IInv, TypeOK
      <4>2. RegOf' = RegOf /\ ResultOf' = ResultOf
        BY <2>10, <3>3, RegStable, ResultStable DEF Retry
      <4>3. pubs[object[t]] > mark[t]
        BY <3>1 DEF IInv, TypeOK
      <4>4. Register!Again(t, object[t])
        BY <2>10, <3>3, <4>1, <4>2, <4>3
           DEF Retry, Register!Again, Register!Beaten, RegOf, ResultOf, CopyOf
      <4> QED
        BY <3>1, <4>4 DEF Register!RegNext
    <3> QED
      BY <2>10, <3>2, <3>3 DEF Retry
  <2>11. CASE FetchOther(t)
    <3>1. PICK other \in Objects : expected' = [expected EXCEPT ![t] = current[other]]
      BY <2>11 DEF FetchOther
    <3>2. RegOf' = RegOf /\ ResultOf' = ResultOf
      BY <2>11, RegStable, ResultStable DEF FetchOther
    <3>3. CopyOf' = [CopyOf EXCEPT ![t] = heap[current[other]]]
      <4>1. CopyOf'[t] = heap[current[other]]
        BY <2>11, <3>1 DEF FetchOther, Go, CopyOf, IInv, TypeOK
      <4>2. \A u \in Threads \ {t} : CopyOf'[u] = CopyOf[u]
        BY <2>11, CopyOfOthers DEF FetchOther, Go, IInv, TypeOK
      <4> QED
        BY <4>1, <4>2 DEF CopyOf
    <3>4. Register!Fetch(t, other)
      BY <2>11, <3>2, <3>3
         DEF FetchOther, Register!Fetch, RegOf, ResultOf, CopyOf
    <3> QED
      BY <3>4 DEF Register!RegNext
  <2>12. CASE Store(t)
    <3>0. PICK o \in Objects : o = object[t]
      BY DEF IInv, TypeOK
    <3>1. /\ expected[t] \in Nodes /\ heap[expected[t]] \in Snapshot
          /\ heap' = heap
      BY <2>12 DEF Store, IInv, TypeOK, Locals, LocalsOf
    <3>2. CopyOf[t] = heap[expected[t]]
      BY <2>12 DEF Store, CopyOf
    <3>3. RegOf' = [RegOf EXCEPT ![o] = CopyOf[t]]
      BY <2>12, <3>0, <3>1, <3>2 DEF Store, RegOf, IInv, TypeOK
    <3>4. ResultOf' = ResultOf
      BY <2>12, ResultStable DEF Store
    <3>5. CopyOf' = [CopyOf EXCEPT ![t] = NoResult]
      <4>1. CopyOf'[t] = NoResult
        BY <2>12 DEF Store, Go, CopyOf, IInv, TypeOK
      <4>2. \A u \in Threads \ {t} : CopyOf'[u] = CopyOf[u]
        BY <2>12, CopyOfOthers DEF Store, Go, IInv, TypeOK
      <4> QED
        BY <4>1, <4>2 DEF CopyOf
    <3>6. Register!Assign(t, o)
      BY <2>12, <3>0, <3>1, <3>2, <3>3, <3>4, <3>5
         DEF Store, Register!Assign, Register!Snapshot, Snapshot, RegOf, ResultOf, CopyOf
    <3> QED
      BY <3>6 DEF Register!RegNext
  <2>13. CASE Invoke(t)
    <3>1. PICK o \in Objects : mark' = [mark EXCEPT ![t] = pubs[o]]
      BY <2>13 DEF Invoke
    <3>2. RegOf' = RegOf /\ ResultOf' = ResultOf
      BY <2>13, RegStable, ResultStable DEF Invoke
    <3>3. CopyOf' = CopyOf
      BY <2>13, CopyStable DEF Invoke, Go, Kinds, IInv, TypeOK
    <3>4. Register!Begin(t, o)
      BY <2>13, <3>1, <3>2, <3>3
         DEF Invoke, Register!Begin, RegOf, ResultOf, CopyOf
    <3> QED
      BY <3>4 DEF Register!RegNext
  <2>14. CASE Current(t)
    <3>1. PICK o \in Objects : held' = [held EXCEPT ![t] = current[o]]
      BY <2>14 DEF Current
    <3>2. RegOf' = RegOf
      BY <2>14, RegStable DEF Current
    <3>3. CopyOf' = CopyOf
      BY <2>14, CopyStable DEF Current, IInv, TypeOK
    <3>4. ResultOf' = [ResultOf EXCEPT ![t] = heap[current[o]]]
      <4>1. ResultOf'[t] = heap[current[o]]
        BY <2>14, <3>1, NullAssumption DEF Current, ResultOf, IInv, TypeOK
      <4>2. \A u \in Threads \ {t} : ResultOf'[u] = ResultOf[u]
        BY <2>14, <3>1, ResultOfOthers DEF Current, IInv, TypeOK
      <4> QED
        BY <4>1, <4>2 DEF ResultOf
    <3>5. Register!Read(t, o)
      BY <2>14, <3>2, <3>3, <3>4
         DEF Current, Register!Read, RegOf, ResultOf, CopyOf
    <3> QED
      BY <3>5 DEF Register!RegNext
  <2>15. CASE Release(t)
    <3>1. RegOf' = RegOf
      BY <2>15, RegStable DEF Release
    <3>2. CopyOf' = CopyOf
      BY <2>15, CopyStable DEF Release, IInv, TypeOK
    <3>3. ResultOf' = [ResultOf EXCEPT ![t] = NoResult]
      <4>1. ResultOf'[t] = NoResult
        BY <2>15 DEF Release, ResultOf, IInv, TypeOK
      <4>2. \A u \in Threads \ {t} : ResultOf'[u] = ResultOf[u]
        BY <2>15, ResultOfOthers DEF Release, IInv, TypeOK
      <4> QED
        BY <4>1, <4>2 DEF ResultOf
    <3>4. Register!Drop(t)
      BY <2>15, <3>1, <3>2, <3>3
         DEF Release, Register!Drop, RegOf, ResultOf, CopyOf
    <3>5. Objects # {}
      BY DEF IInv, TypeOK
    <3> QED
      BY <3>4, <3>5 DEF Register!RegNext
  <2> QED
    BY <1>2, <2>1, <2>2, <2>3, <2>4, <2>5, <2>6, <2>7, <2>9, <2>10, <2>11,
       <2>12, <2>13, <2>14, <2>15 DEF Step
<1> QED
  BY <1>1, <1>2 DEF Next

\* The cell is a linearizable versioned register: no update is lost, versions
\* neither skip nor repeat, a failed try_update was beaten (mvcc.hpp:224-313).
THEOREM Refinement == Spec => ImplementsRegister
<1>1. Spec => []IInv
  BY Invariance
<1>2. IInv /\ [Next]_vars => [Register!RegNext]_(Register!regVars)
  BY RegisterStep
<1> QED
  BY <1>1, <1>2, RegisterInit, PTL DEF Spec, ImplementsRegister, Register!RegSpec


=============================================================================
