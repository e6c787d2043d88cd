----------------------------- MODULE BioProofs -----------------------------
(***************************************************************************)
(* Proofs about Bio.tla, for any number of workers, any limit and any      *)
(* number of calls: jobs leave the queue in the order they entered it, a   *)
(* job is in one pair of hands, and no wakeup is lost.  Each is proved for *)
(* one step from IInv; what makes it inductive is that accepted jobs are   *)
(* all different (AcceptedOnce) and that holders hold jobs (HoldersHold).  *)
(***************************************************************************)
EXTENDS Bio, FiniteSetTheorems, SequenceTheorems, TLAPS

\* Every call was either refused or put one new job in the queue.
AcceptedOnce ==
  /\ calls = refused + Len(accepted)
  /\ \A i \in 1..Len(accepted) : accepted[i] <= calls
  /\ \A i, j \in 1..Len(accepted) : accepted[i] = accepted[j] => i = j

\* The pointer of a worker that has taken a job and not yet freed it is one.
HoldersHold == \A w \in Holders : job[w] \in JobIds

\* The counter is the length of the queue and, for ever, the number of calls
\* that were refused (bio.c:188-193, 244).
CountsRefusals == pending = Len(queue) + refused

IInv == /\ TypeOK
        /\ AcceptedOnce
        /\ TakenInOrder
        /\ HoldersHold
        /\ InOneHand
        /\ CountsRefusals
        /\ BacklogIsLimited
        /\ EnoughAwake

\* Every step keeps every variable in its type; the counter of pending jobs
\* never drops below zero, because it counts at least the jobs in the queue.
LEMMA TypeStep ==
  ASSUME TypeOK, AcceptedOnce, HoldersHold, CountsRefusals, [Next]_vars
  PROVE  TypeOK'
<1> USE MaxJobsAssumption DEF TypeOK, JobIds, States
<1>1. CASE UNCHANGED vars
  BY <1>1 DEF vars
<1>2. CASE Refuse
  BY <1>2 DEF Refuse, AcceptedOnce
<1>3. CASE Accept
  <2>1. calls + 1 \in 1..MaxJobs
    BY <1>3 DEF Accept
  <2>2. /\ queue' \in Seq(JobIds)
        /\ accepted' \in Seq(JobIds)
    BY <1>3, <2>1 DEF Accept
  <2>3. state' \in [Workers -> States]
    BY <1>3 DEF Accept, Signal, Asleep
  <2> QED
    BY <1>3, <2>1, <2>2, <2>3 DEF Accept
<1>4. ASSUME NEW w \in Workers, Work(w) \/ WakeSpuriously(w)
      PROVE  TypeOK'
  <2>1. CASE Sleep(w)
    BY <2>1 DEF Sleep
  <2>2. CASE Pop(w)
    <3>1. /\ Head(queue) \in JobIds
          /\ Tail(queue) \in Seq(JobIds)
          /\ Len(queue) \in Nat \ {0}
      BY <2>2 DEF Pop
    <3>2. pending - 1 \in Nat
      BY <3>1 DEF CountsRefusals
    <3> QED
      BY <2>2, <3>1, <3>2 DEF Pop
  <2>3. CASE Start(w)
    <3>1. job[w] \in JobIds
      BY <2>3 DEF Start, HoldersHold, Holders
    <3> QED
      BY <2>3, <3>1 DEF Start
  <2>4. CASE Finish(w)
    <3>1. job[w] \in JobIds
      BY <2>4 DEF Finish, HoldersHold, Holders
    <3> QED
      BY <2>4, <3>1 DEF Finish
  <2>5. CASE WakeSpuriously(w)
    BY <2>5 DEF WakeSpuriously
  <2> QED BY <1>4, <2>1, <2>2, <2>3, <2>4, <2>5 DEF Work
<1> QED BY <1>1, <1>2, <1>3, <1>4 DEF Next

\* Every step keeps the accepted jobs different.
LEMMA AcceptedStep ==
  ASSUME TypeOK, AcceptedOnce, [Next]_vars
  PROVE  AcceptedOnce'
<1> USE DEF TypeOK, AcceptedOnce, JobIds
<1>1. CASE UNCHANGED vars
  BY <1>1 DEF vars
<1>2. CASE Refuse
  <2>1. calls' = calls + 1 /\ refused' = refused + 1 /\ accepted' = accepted
    BY <1>2 DEF Refuse
  <2>2. Len(accepted) \in Nat /\ \A i \in 1..Len(accepted) : accepted[i] \in Nat
    BY LenProperties, ElementOfSeq, MaxJobsAssumption
  <2> QED BY <2>1, <2>2
<1>3. CASE Accept
  <2>1. /\ Len(accepted') = Len(accepted) + 1
        /\ \A i \in 1..Len(accepted) : accepted'[i] = accepted[i]
        /\ accepted'[Len(accepted) + 1] = calls + 1
    BY <1>3, AppendProperties DEF Accept
  <2>2. Len(accepted) \in Nat
    BY LenProperties
  <2>3. calls' = calls + 1 /\ refused' = refused
    BY <1>3 DEF Accept
  <2>4. \A i \in 1..Len(accepted') :
           accepted'[i] = IF i = Len(accepted) + 1 THEN calls + 1 ELSE accepted[i]
    BY <2>1, <2>2
  <2>5. \A i \in 1..Len(accepted') : i # Len(accepted) + 1 => i \in 1..Len(accepted)
    BY <2>1, <2>2
  <2> HIDE DEF TypeOK
  <2>6. calls \in Nat /\ refused \in Nat
    BY DEF TypeOK
  <2>7. \A i \in 1..Len(accepted) : accepted[i] \in Nat
    BY ElementOfSeq, MaxJobsAssumption DEF TypeOK
  <2> QED
    BY <2>1, <2>2, <2>3, <2>4, <2>5, <2>6, <2>7
<1>4. ASSUME NEW w \in Workers, Work(w) \/ WakeSpuriously(w)
      PROVE  AcceptedOnce'
  <2>1. UNCHANGED <<calls, refused, accepted>>
    BY <1>4 DEF Work, Sleep, Pop, Start, Finish, WakeSpuriously
  <2> QED BY <2>1
<1> QED BY <1>1, <1>2, <1>3, <1>4 DEF Next

\* The head of a sequence can go to the end of another one before it.
LEMMA HeadMoves ==
  ASSUME NEW S, NEW p \in Seq(S), NEW q \in Seq(S), q # << >>
  PROVE  Append(p, Head(q)) \o Tail(q) = p \o q
<1>1. Head(q) \in S /\ Tail(q) \in Seq(S)
  BY HeadTailProperties
<1>2. Append(p, Head(q)) = p \o <<Head(q)>>
  BY <1>1, AppendIsConcat
<1>3. <<Head(q)>> \in Seq(S)
  BY <1>1
<1>4. <<Head(q)>> \o Tail(q) = q
  <2>1. /\ <<Head(q)>> \o Tail(q) \in Seq(S)
        /\ Len(<<Head(q)>> \o Tail(q)) = Len(q)
        /\ \A i \in 1..Len(q) : (<<Head(q)>> \o Tail(q))[i] = q[i]
    BY <1>1, <1>3, HeadTailProperties, ConcatProperties, LenProperties
  <2> QED BY <2>1, SeqEqual
<1> QED BY <1>1, <1>2, <1>3, <1>4, ConcatAssociative

\* Every step keeps the queue the part of the accepted jobs not yet taken.
LEMMA OrderStep ==
  ASSUME TypeOK, TakenInOrder, [Next]_vars
  PROVE  TakenInOrder'
<1> USE DEF TypeOK, TakenInOrder
<1>1. CASE UNCHANGED vars
  BY <1>1 DEF vars
<1>2. CASE Refuse
  BY <1>2 DEF Refuse
<1>3. CASE Accept
  <2>1. calls + 1 \in JobIds
    BY <1>3, MaxJobsAssumption DEF Accept, JobIds
  <2>2. /\ accepted' = accepted \o <<calls + 1>>
        /\ queue' = queue \o <<calls + 1>>
        /\ popped' = popped
    BY <1>3, <2>1, AppendIsConcat DEF Accept
  <2>3. <<calls + 1>> \in Seq(JobIds)
    BY <2>1
  <2> QED BY <2>2, <2>3, ConcatAssociative
<1>4. ASSUME NEW w \in Workers, Work(w) \/ WakeSpuriously(w)
      PROVE  TakenInOrder'
  <2>1. CASE Pop(w)
    BY <2>1, HeadMoves DEF Pop
  <2>2. CASE ~Pop(w)
    BY <1>4, <2>2 DEF Work, Sleep, Start, Finish, WakeSpuriously
  <2> QED BY <2>1, <2>2
<1> QED BY <1>1, <1>2, <1>3, <1>4 DEF Next

\* Every step keeps the counter at the queue's length plus the refused calls.
LEMMA CounterStep ==
  ASSUME TypeOK, CountsRefusals, [Next]_vars
  PROVE  CountsRefusals'
<1> USE DEF TypeOK, CountsRefusals
<1>1. CASE UNCHANGED vars
  BY <1>1 DEF vars
<1>2. CASE Refuse
  BY <1>2 DEF Refuse
<1>3. CASE Accept
  BY <1>3 DEF Accept
<1>4. ASSUME NEW w \in Workers, Work(w) \/ WakeSpuriously(w)
      PROVE  CountsRefusals'
  <2>1. CASE Pop(w)
    <3>1. Len(Tail(queue)) = Len(queue) - 1 /\ Len(queue) \in Nat
      BY <2>1, HeadTailProperties, LenProperties DEF Pop
    <3> QED BY <2>1, <3>1 DEF Pop
  <2>2. CASE ~Pop(w)
    BY <1>4, <2>2 DEF Work, Sleep, Start, Finish, WakeSpuriously
  <2> QED BY <2>1, <2>2
<1> QED BY <1>1, <1>2, <1>3, <1>4 DEF Next

\* Who waits is counted, so a job is accepted only if its queue stays below the
\* limit, whatever the refused calls added to the counter.
LEMMA BacklogStep ==
  ASSUME TypeOK, CountsRefusals, BacklogIsLimited, [Next]_vars
  PROVE  BacklogIsLimited'
<1> USE MaxPendingAssumption DEF TypeOK
<1>1. (Len(queue) <= PendingJobs)'
  <2>1. TypeOK /\ CountsRefusals'
    BY CounterStep
  <2>2. Len(queue') \in Nat /\ refused' \in Nat
    <3>1. CASE UNCHANGED <<queue, refused>>
      BY <3>1 DEF JobIds
    <3>2. CASE Refuse
      BY <3>2 DEF Refuse
    <3>3. CASE Accept
      BY <3>3 DEF Accept
    <3>4. ASSUME NEW w \in Workers, Pop(w)
          PROVE  Len(queue') \in Nat /\ refused' \in Nat
      BY <3>4, HeadTailProperties, LenProperties DEF Pop
    <3> QED BY <3>1, <3>2, <3>3, <3>4 DEF Next, Work, Sleep, Start, Finish, WakeSpuriously, vars
  <2> QED BY <2>1, <2>2 DEF CountsRefusals, PendingJobs
<1>2. (queue # << >> => Len(queue) < MaxPending)'
  <2>1. CASE Accept
    BY <2>1 DEF Accept, CountsRefusals
  <2>2. ASSUME NEW w \in Workers, Pop(w)
        PROVE  (queue # << >> => Len(queue) < MaxPending)'
    <3>1. Len(queue') = Len(queue) - 1 /\ Len(queue) \in Nat
      BY <2>2, HeadTailProperties, LenProperties DEF Pop
    <3> QED BY <2>2, <3>1 DEF Pop, BacklogIsLimited
  <2>3. CASE UNCHANGED queue
    BY <2>3 DEF BacklogIsLimited
  <2> QED BY <2>1, <2>2, <2>3 DEF Next, Refuse, Work, Sleep, Start, Finish, WakeSpuriously, vars
<1> QED BY <1>1, <1>2 DEF BacklogIsLimited

\* A job that was taken and not finished is somebody's, in a form that names
\* the sets of jobs.
Taken == {popped[i] : i \in 1..Len(popped)}
InHand == {job[w] : w \in Holders}

\* InOneHand depends only on who holds which job, what was taken and what is
\* finished.
LEMMA HandStable ==
  ASSUME InOneHand, Holders' = Holders, UNCHANGED <<job, popped, finished>>
  PROVE  InOneHand'
<1>1. Taken' = Taken
  BY DEF Taken
<1>2. InHand' = InHand
  BY DEF InHand
<1>3. Taken = finished \cup InHand
  BY DEF InOneHand, Taken, InHand
<1>4. Taken' = finished' \cup InHand'
  BY <1>1, <1>2, <1>3
<1>5. /\ \A v, w \in Holders' : job'[v] = job'[w] => v = w
      /\ \A w \in Holders' : job'[w] \notin finished'
  BY DEF InOneHand
<1> QED BY <1>4, <1>5 DEF InOneHand, Taken, InHand

\* Every step keeps the pointers of the holders.
LEMMA HoldersStep ==
  ASSUME TypeOK, HoldersHold, [Next]_vars
  PROVE  HoldersHold'
<1> USE DEF TypeOK, HoldersHold, Holders
<1>1. CASE UNCHANGED vars
  BY <1>1 DEF vars
<1>2. CASE Refuse
  BY <1>2 DEF Refuse
<1>3. CASE Accept
  BY <1>3 DEF Accept, Signal, Asleep
<1>4. ASSUME NEW w \in Workers, Sleep(w) \/ WakeSpuriously(w) \/ Start(w) \/ Finish(w)
      PROVE  HoldersHold'
  BY <1>4 DEF Sleep, WakeSpuriously, Start, Finish
<1>5. ASSUME NEW w \in Workers, Pop(w)
      PROVE  HoldersHold'
  <2>1. Head(queue) \in JobIds
    BY <1>5, HeadTailProperties DEF Pop
  <2> QED BY <1>5, <2>1 DEF Pop
<1> QED BY <1>1, <1>2, <1>3, <1>4, <1>5 DEF Next, Work

\* Every step keeps a job that was taken in one hand, or done.
LEMMA HandStep ==
  ASSUME TypeOK, AcceptedOnce, TakenInOrder, InOneHand, [Next]_vars
  PROVE  InOneHand'
<1> USE DEF TypeOK
<1>1. CASE UNCHANGED vars
  <2>1. Holders' = Holders
    BY <1>1 DEF vars, Holders
  <2> QED BY <1>1, <2>1, HandStable DEF vars
<1>2. CASE Refuse
  <2>1. Holders' = Holders
    BY <1>2 DEF Refuse, Holders
  <2> QED BY <1>2, <2>1, HandStable DEF Refuse
<1>3. CASE Accept
  <2>1. Holders' = Holders
    BY <1>3 DEF Accept, Signal, Asleep, Holders
  <2> QED BY <1>3, <2>1, HandStable DEF Accept
<1>4. ASSUME NEW w \in Workers, Sleep(w) \/ WakeSpuriously(w) \/ Start(w)
      PROVE  InOneHand'
  <2>1. Holders' = Holders
    BY <1>4 DEF Sleep, WakeSpuriously, Start, Holders
  <2>2. UNCHANGED <<job, popped, finished>>
    BY <1>4 DEF Sleep, WakeSpuriously, Start
  <2> QED BY <2>1, <2>2, HandStable
<1>5. ASSUME NEW w \in Workers, Pop(w)
      PROVE  InOneHand'
  <2> DEFINE h == Head(queue)
  <2>1. /\ h \in JobIds
        /\ Len(queue) \in Nat \ {0}
        /\ Len(popped) \in Nat
    BY <1>5, HeadTailProperties, LenProperties, EmptySeq DEF Pop
  <2>2. /\ Len(popped') = Len(popped) + 1
        /\ \A i \in 1..Len(popped) : popped'[i] = popped[i]
        /\ popped'[Len(popped) + 1] = h
    BY <1>5, <2>1, AppendProperties DEF Pop
  <2>3. Taken' = Taken \cup {h}
    <3>1. 1..Len(popped') = 1..Len(popped) \cup {Len(popped) + 1}
      BY <2>1, <2>2
    <3> QED BY <2>1, <2>2, <3>1 DEF Taken
  <2>4. h \notin Taken
    <3>1. /\ Len(accepted) = Len(popped) + Len(queue)
          /\ accepted[Len(popped) + 1] = h
          /\ \A i \in 1..Len(popped) : accepted[i] = popped[i]
      BY <1>5, <2>1, ConcatProperties DEF TakenInOrder, Pop
    <3>2. ASSUME NEW i \in 1..Len(popped), popped[i] = h
          PROVE  FALSE
      <4>1. accepted[i] = accepted[Len(popped) + 1]
        BY <3>1, <3>2
      <4>2. i \in 1..Len(accepted) /\ Len(popped) + 1 \in 1..Len(accepted)
        BY <2>1, <3>1
      <4>3. i = Len(popped) + 1
        BY <4>1, <4>2 DEF AcceptedOnce
      <4> QED BY <2>1, <4>3
    <3> QED BY <3>2 DEF Taken
  <2>5. /\ Holders' = Holders \cup {w} /\ w \notin Holders
        /\ job' = [job EXCEPT ![w] = h]
        /\ finished' = finished
    BY <1>5 DEF Pop, Holders
  <2>7. Holders \in SUBSET Workers
    BY DEF Holders
  <2>8. Taken = finished \cup InHand
    BY DEF InOneHand, Taken, InHand
  <2>9. InHand' = InHand \cup {h}
    BY <2>5, <2>7 DEF InHand
  <2>10. Taken' = finished' \cup InHand'
    BY <2>3, <2>5, <2>8, <2>9
  <2>11. h \notin finished /\ \A v \in Holders : job[v] # h
    BY <2>4, <2>8 DEF InHand
  <2>13. \A u, v \in Holders' : job'[u] = job'[v] => u = v
    BY <2>5, <2>7, <2>11 DEF InOneHand
  <2>14. \A v \in Holders' : job'[v] \notin finished'
    BY <2>5, <2>7, <2>11 DEF InOneHand
  <2> QED
    BY <2>10, <2>13, <2>14 DEF InOneHand, Taken, InHand
<1>6. ASSUME NEW w \in Workers, Finish(w)
      PROVE  InOneHand'
  <2>1. /\ Holders' = Holders \ {w} /\ w \in Holders
        /\ job' = job
        /\ finished' = finished \cup {job[w]}
        /\ popped' = popped
    BY <1>6 DEF Finish, Holders
  <2>2. Holders \in SUBSET Workers
    BY DEF Holders
  <2>3. Taken = finished \cup InHand
    BY DEF InOneHand, Taken, InHand
  <2>4. InHand' \cup {job[w]} = InHand
    BY <2>1, <2>2 DEF InHand
  <2>5. Taken' = finished' \cup InHand'
    <3>1. Taken' = Taken
      BY <2>1 DEF Taken
    <3> QED BY <2>1, <2>3, <2>4, <3>1
  <2>7. \A u, v \in Holders' : job'[u] = job'[v] => u = v
    BY <2>1, <2>2 DEF InOneHand
  <2>8. \A v \in Holders' : job'[v] \notin finished'
    BY <2>1, <2>2 DEF InOneHand
  <2> QED BY <2>5, <2>7, <2>8 DEF InOneHand, Taken, InHand
<1> QED BY <1>1, <1>2, <1>3, <1>4, <1>5, <1>6 DEF Next, Work

\* Every step keeps enough workers awake for the jobs in the queue.
LEMMA AwakeStep ==
  ASSUME TypeOK, EnoughAwake, [Next]_vars
  PROVE  EnoughAwake'
<1> DEFINE W == Cardinality(Workers)
<1>1. IsFiniteSet(Workers) /\ W \in Nat
  BY WorkersAssumption, FS_CardinalityType
<1>2. /\ IsFiniteSet(Asleep) /\ IsFiniteSet(Asleep')
      /\ Cardinality(Asleep) \in Nat /\ Cardinality(Asleep') \in Nat
      /\ Cardinality(Asleep) <= W /\ Cardinality(Asleep') <= W
  <2>1. Asleep \in SUBSET Workers /\ Asleep' \in SUBSET Workers
    BY DEF Asleep
  <2> QED BY <1>1, <2>1, FS_Subset, FS_CardinalityType
<1>3. Len(queue) \in Nat
  BY LenProperties DEF TypeOK
<1>4. CASE UNCHANGED vars
  BY <1>4 DEF vars, EnoughAwake, Asleep
<1>5. CASE Refuse
  BY <1>5 DEF Refuse, EnoughAwake, Asleep
<1>6. CASE Accept
  <2>1. Len(queue') = Len(queue) + 1
    BY <1>6 DEF Accept, TypeOK
  <2>2. CASE Asleep = {}
    BY <1>6, <2>2 DEF Accept, Signal, EnoughAwake, Asleep
  <2>3. CASE Asleep # {}
    <3>1. PICK w \in Asleep : state' = [state EXCEPT ![w] = "awake"]
      BY <1>6, <2>3 DEF Accept, Signal
    <3>2. Asleep' = Asleep \ {w}
      BY <3>1 DEF Asleep, TypeOK
    <3>3. Cardinality(Asleep') = Cardinality(Asleep) - 1
      BY <1>2, <3>1, <3>2, FS_RemoveElement
    <3> QED BY <1>1, <1>2, <1>3, <2>1, <2>3, <3>3 DEF EnoughAwake
  <2> QED BY <2>2, <2>3
<1>7. ASSUME NEW w \in Workers, Sleep(w)
      PROVE  EnoughAwake'
  <2>1. Len(queue') = 0
    BY <1>7 DEF Sleep
  <2> QED BY <1>1, <1>2, <2>1 DEF EnoughAwake
<1>8. ASSUME NEW w \in Workers, Pop(w) \/ Start(w) \/ Finish(w)
      PROVE  EnoughAwake'
  <2>1. Asleep' = Asleep
    BY <1>8 DEF Pop, Start, Finish, Asleep, TypeOK
  <2>2. Len(queue') \in Nat /\ Len(queue') <= Len(queue)
    <3>1. CASE Pop(w)
      BY <1>3, <3>1, HeadTailProperties DEF Pop, TypeOK
    <3>2. CASE ~Pop(w)
      BY <1>3, <1>8, <3>2 DEF Start, Finish
    <3> QED BY <3>1, <3>2
  <2> QED BY <1>1, <1>2, <1>3, <2>1, <2>2 DEF EnoughAwake
<1>9. ASSUME NEW w \in Workers, WakeSpuriously(w)
      PROVE  EnoughAwake'
  <2>1. Asleep' \in SUBSET Asleep /\ queue' = queue
    BY <1>9 DEF WakeSpuriously, Asleep, TypeOK
  <2>2. Cardinality(Asleep') <= Cardinality(Asleep)
    BY <1>2, <2>1, FS_Subset
  <2> QED BY <1>1, <1>2, <1>3, <2>1, <2>2 DEF EnoughAwake
<1> QED BY <1>4, <1>5, <1>6, <1>7, <1>8, <1>9 DEF Next, Work

\* The invariant holds when bioInit is done.
LEMMA InitInv == Init => IInv
<1> SUFFICES ASSUME Init PROVE IInv
  OBVIOUS
<1>1. TypeOK
  BY MaxJobsAssumption DEF Init, TypeOK, States
<1>2. AcceptedOnce /\ CountsRefusals /\ BacklogIsLimited
  BY DEF Init, AcceptedOnce, CountsRefusals, BacklogIsLimited, PendingJobs
<1>3. TakenInOrder
  BY DEF Init, TakenInOrder
<1>4. InOneHand /\ HoldersHold
  BY DEF Init, InOneHand, HoldersHold, Holders
<1>5. EnoughAwake
  BY DEF Init, EnoughAwake, Asleep
<1> QED BY <1>1, <1>2, <1>3, <1>4, <1>5 DEF IInv

\* The invariant holds in every reachable state.
THEOREM Invariance == Spec => []IInv
<1>1. IInv /\ [Next]_vars => IInv'
  BY TypeStep, AcceptedStep, OrderStep, CounterStep, BacklogStep, HoldersStep, HandStep, AwakeStep
  DEF IInv
<1> QED BY InitInv, <1>1, PTL DEF Spec

\* Every variable keeps its type; in particular bio_pending never wraps below
\* zero, however many calls were refused (bio.c:188-193, 244).
THEOREM TypeCorrect == Spec => []TypeOK
<1>1. IInv => TypeOK
  BY DEF IInv
<1> QED BY Invariance, <1>1, PTL

\* Jobs leave the queue first in, first out, none is dropped and none is taken
\* twice (bio.c:196, 239-243).
THEOREM FirstInFirstOut == Spec => []TakenInOrder
<1>1. IInv => TakenInOrder
  BY DEF IInv
<1> QED BY Invariance, <1>1, PTL

\* A job that left the queue is held by exactly one worker, or is done, never
\* both (bio.c:239-263).
THEOREM OneHand == Spec => []InOneHand
<1>1. IInv => InOneHand
  BY DEF IInv
<1> QED BY Invariance, <1>1, PTL

\* The counter of pending jobs never counts less than the queue, so that fewer
\* jobs than the limit wait, whatever was refused (bio.c:188-193, 244).
THEOREM BacklogAlwaysLimited == Spec => []BacklogIsLimited
<1>1. IInv => BacklogIsLimited
  BY DEF IInv
<1> QED BY Invariance, <1>1, PTL

\* No wakeup is lost: one signal per job is enough (bio.c:198, 230-233).
THEOREM NoLostWakeup == Spec => []EnoughAwake
<1>1. IInv => EnoughAwake
  BY DEF IInv
<1> QED BY Invariance, <1>1, PTL

=============================================================================
