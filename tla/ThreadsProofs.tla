---------------------------- MODULE ThreadsProofs ----------------------------
(***************************************************************************)
(* Proofs about three components in which several actors take turns.       *)
(*                                                                         *)
(* SharedStack.tla, for any size of the stack and any number of coroutines *)
(* and of slots to begin with: a coroutine that is resumed finds on the    *)
(* shared stack what it had there when it yielded, and the search for a    *)
(* free slot finds one.                                                    *)
(*                                                                         *)
(* LiveChat.tla, for any users and sockets and any number of events: every *)
(* registration and login is answered once, nobody is kept in the room     *)
(* whom no disconnect will take out, and no message is lost but to a       *)
(* callback that writes back what it had read earlier.                     *)
(*                                                                         *)
(* Skiplist.tla, for any keys and any number of levels and nodes: the      *)
(* levels are sorted, and searches without the mutex are linearizable but  *)
(* for those next to a delete, or to the insert of a smaller key.          *)
(***************************************************************************)
EXTENDS Skiplist, SharedStack, LiveChat, FiniteSetTheorems, SequenceTheorems, TLAPS

-----------------------------------------------------------------------------
(* The shared stack.                                                       *)

\* The array is never empty and holds whoever runs; what is on a stack fits.
SlotsInUse ==
  /\ S_cap \in Nat \ {0}
  /\ running # -1 => running \in Used
  /\ stack \in Seq(Cells)
  /\ mine \in Seq(Seq(Cells)) /\ Len(mine) = made

\* A coroutine that does not run is new and has nothing on its stack, or it is
\* suspended and its copy is its stack.  (The status of the one that runs is
\* RUNNING, or its id, which may be any number.)
Resting(id) ==
  LET C == co[id] IN
    \/ C.status = READY /\ mine[C.who] = << >>
    \/ C.status = SUSPEND /\ mine[C.who] = C.saved /\ C.ctx = Len(C.saved)

RestingAreSaved == \A id \in Used : id # running => Resting(id)

StackInv == /\ StackTypeOK
            /\ SlotsInUse
            /\ RestingAreSaved
            /\ StackIsOwn
            /\ SlotsAreCounted

-----------------------------------------------------------------------------
(* Slots and coroutines.                                                   *)

LEMMA LeastExists ==
  ASSUME NEW S \in SUBSET Nat, S # {}
  PROVE  \E m \in S : \A x \in S : m <= x
<1> DEFINE Less == {p \in Nat \X Nat : p[1] < p[2]}
<1>1. IsWellFoundedOn(Less, Nat)
  BY NatLessThanWellFounded DEF OpToRel
<1> HIDE DEF Less
<1>2. PICK m \in S : \A y \in S : <<y, m>> \notin Less
  BY <1>1, WFMin
<1>3. ASSUME NEW x \in S
      PROVE  m <= x
  <2>1. x \in Nat /\ m \in Nat
    OBVIOUS
  <2>2. x < m => <<x, m>> \in Less
    BY <2>1 DEF Less
  <2>3. ~(x < m)
    BY <1>2, <2>2
  <2> QED BY <2>1, <2>3
<1> QED BY <1>3

\* Going on from any slot, around the array, every slot is met.
LEMMA AroundTheArray ==
  ASSUME NEW n \in Nat \ {0}, NEW from \in 0..n - 1, NEW d \in 0..n - 1
  PROVE  \E j \in 0..n - 1 : (j + from) % n = d
<1>1. d % n = d /\ (d + n) % n = d
  OBVIOUS
<1>2. CASE d >= from
  BY <1>1, <1>2, d - from \in 0..n - 1, (d - from) + from = d
<1>3. CASE d < from
  <2>1. (d - from) + n \in 0..n - 1 /\ ((d - from) + n) + from = d + n
    BY <1>3
  <2> QED BY <1>1, <2>1
<1> QED BY <1>2, <1>3

\* A coroutine of one of the first m.
CoroutineOf(m) == [who : 1..m, status : Nat, ctx : 0..StackSize,
                   cap : 0..StackSize, saved : Seq(Cells)]

LEMMA NotNull ==
  ASSUME NEW m \in 0..MaxMade, NEW C \in CoroutineOf(m)
  PROVE  C # NoCo
<1>1. Cells \subseteq Nat \X {0, 1}
  BY StackAssumption DEF Cells
<1>2. C.saved \in Seq(Nat \X {0, 1})
  BY <1>1, SeqMonotonic DEF CoroutineOf
<1>3. C.who \in Nat /\ C.status \in Nat /\ C.ctx \in Nat /\ C.cap \in Nat
  BY StackAssumption DEF CoroutineOf
<1>4. C = [who |-> C.who, status |-> C.status, ctx |-> C.ctx,
           cap |-> C.cap, saved |-> C.saved]
  BY DEF CoroutineOf
<1>5. C \in [who : Nat, status : Nat, ctx : Nat, cap : Nat, saved : Seq(Nat \X {0, 1})]
  BY <1>2, <1>3, <1>4
<1> QED BY <1>5, StackAssumption

\* What the type invariant says of the slots.
LEMMA SlotsAre ==
  ASSUME StackInv
  PROVE  /\ S_cap \in Nat \ {0} /\ DOMAIN co = 0..S_cap - 1
         /\ Used \subseteq DOMAIN co /\ Used \subseteq Nat
         /\ IsFiniteSet(Used) /\ nco = Cardinality(Used)
         /\ made \in 0..MaxMade /\ made \in Nat
         /\ \A id \in Used : co[id] \in CoroutineOf(made)
<1>1. S_cap \in Nat \ {0} /\ DOMAIN co = 0..S_cap - 1 /\ nco = Cardinality(Used)
  BY DEF StackInv, StackTypeOK, SlotsInUse, SlotsAreCounted
<1>2. Used \subseteq DOMAIN co
  BY DEF Used
<1>3. IsFiniteSet(DOMAIN co)
  BY <1>1, FS_Interval
<1>4. IsFiniteSet(Used)
  BY <1>2, <1>3, FS_Subset
<1>5. made \in 0..MaxMade /\ \A id \in Used : co[id] \in CoroutineOf(made)
  BY DEF StackInv, StackTypeOK, CoroutineOf
<1> QED BY <1>1, <1>2, <1>4, <1>5, StackAssumption

\* Every coroutine has a stack of its own in the history.
LEMMA MineAre ==
  ASSUME StackInv
  PROVE  /\ Len(mine) = made /\ mine \in [1..made -> Seq(Cells)]
         /\ \A id \in Used : co[id].who \in 1..made /\ mine[co[id].who] \in Seq(Cells)
<1>1. Len(mine) = made /\ mine \in [1..made -> Seq(Cells)]
  BY LenProperties DEF StackInv, SlotsInUse
<1> QED BY <1>1, SlotsAre DEF CoroutineOf

\* A change inside one slot leaves the slots as they are.
LEMMA ReplaceKeeps ==
  ASSUME StackInv, NEW id \in Used, NEW C \in CoroutineOf(made), C.who = co[id].who,
         co' = [co EXCEPT ![id] = C], UNCHANGED <<nco, made>>
  PROVE  /\ DOMAIN co' = DOMAIN co /\ S_cap' = S_cap /\ Used' = Used
         /\ \A j \in Used : co'[j] = IF j = id THEN C ELSE co[j]
         /\ \A j \in Used : co'[j] \in CoroutineOf(made)
         /\ SlotsAreCounted'
<1>1. DOMAIN co' = DOMAIN co /\ S_cap' = S_cap
  BY DEF S_cap
<1>2. \A j \in DOMAIN co : co'[j] = IF j = id THEN C ELSE co[j]
  OBVIOUS
<1>3. C # NoCo
  BY NotNull, SlotsAre
<1>4. Used' = Used
  BY <1>1, <1>2, <1>3 DEF Used
<1>5. \A j \in Used : co'[j] = IF j = id THEN C ELSE co[j]
  BY <1>2, SlotsAre
<1>6. \A j \in Used : co'[j] \in CoroutineOf(made)
  BY <1>5, SlotsAre
<1>7. SlotsAreCounted'
  <2>1. \A j \in Used : co'[j].who = co[j].who
    BY <1>5
  <2>2. nco' = Cardinality(Used')
    BY <1>4, SlotsAre
  <2>3. \A j, k \in Used' : co'[j].who = co'[k].who => j = k
    BY <1>4, <2>1 DEF StackInv, SlotsAreCounted
  <2> QED BY <2>2, <2>3 DEF SlotsAreCounted
<1> QED BY <1>1, <1>4, <1>5, <1>6, <1>7

\* coroutine_new finds a slot when one is free: its assert(0) is not reached.
LEMMA FreeSlotIsFree ==
  ASSUME StackInv, nco < S_cap
  PROVE  FreeSlot \in DOMAIN co /\ co[FreeSlot] = NoCo
<1> DEFINE n == S_cap
           J == {j \in 0..S_cap - 1 : co[(j + nco) % S_cap] = NoCo}
<1>1. n \in Nat \ {0} /\ DOMAIN co = 0..n - 1 /\ nco \in 0..n - 1
  BY SlotsAre, FS_CardinalityType
<1>2. PICK d \in DOMAIN co : co[d] = NoCo
  <2>1. Cardinality(DOMAIN co) = n
    BY DEF S_cap
  <2>2. Used # DOMAIN co
    BY <2>1, <1>1, SlotsAre
  <2> QED BY <2>2 DEF Used
<1>3. J \in SUBSET Nat /\ J # {}
  <2>1. PICK j \in 0..n - 1 : (j + nco) % n = d
    BY <1>1, <1>2, AroundTheArray
  <2>2. j \in J
    BY <2>1, <1>2
  <2>3. J \subseteq 0..n - 1 /\ 0..n - 1 \subseteq Nat
    BY <1>1
  <2> QED BY <2>2, <2>3
<1>4. Min(J) \in J
  BY <1>3, LeastExists DEF Min
<1>5. FreeSlot = (Min(J) + nco) % n
  BY DEF FreeSlot
<1> HIDE DEF n
<1>6. \A j \in 0..n - 1 : (j + nco) % n \in 0..n - 1
  BY <1>1
<1> QED BY <1>1, <1>4, <1>5, <1>6 DEF n

\* Where coroutine_new puts the new one: a free slot of the array, which was
\* doubled when it was full.
LEMMA NewSlot ==
  ASSUME StackInv, NEW id, NEW slots,
         id = IF nco >= S_cap THEN S_cap ELSE FreeSlot,
         slots = IF nco >= S_cap THEN 0..2 * S_cap - 1 ELSE DOMAIN co
  PROVE  /\ \E n \in Nat \ {0} : /\ slots = 0..n - 1 /\ Cardinality(slots) = n
                                 /\ S_cap <= n /\ nco + 1 <= n
         /\ id \in slots /\ id \notin Used /\ DOMAIN co \subseteq slots
<1>1. S_cap \in Nat \ {0} /\ DOMAIN co = 0..S_cap - 1 /\ nco \in 0..S_cap
  BY SlotsAre DEF StackInv, StackTypeOK
<1>2. CASE nco >= S_cap
  <2>1. nco = S_cap /\ id = S_cap /\ slots = 0..2 * S_cap - 1
    BY <1>1, <1>2
  <2>2. Cardinality(slots) = 2 * S_cap
    BY <1>1, <2>1, FS_Interval
  <2>3. id \in slots /\ id \notin DOMAIN co /\ DOMAIN co \subseteq slots
    BY <1>1, <2>1
  <2>4. 2 * S_cap \in Nat \ {0} /\ S_cap <= 2 * S_cap /\ nco + 1 <= 2 * S_cap
    BY <1>1, <2>1
  <2> QED BY <2>1, <2>2, <2>3, <2>4 DEF Used
<1>3. CASE ~(nco >= S_cap)
  <2>1. nco < S_cap /\ id = FreeSlot /\ slots = DOMAIN co
    BY <1>1, <1>3
  <2>2. id \in DOMAIN co /\ id \notin Used
    BY <2>1, FreeSlotIsFree DEF Used
  <2>3. Cardinality(slots) = S_cap
    BY <2>1 DEF S_cap
  <2>4. S_cap <= S_cap /\ nco + 1 <= S_cap
    BY <1>1, <2>1
  <2>5. \E n \in Nat \ {0} : /\ slots = 0..n - 1 /\ Cardinality(slots) = n
                             /\ S_cap <= n /\ nco + 1 <= n
    BY <1>1, <2>1, <2>3, <2>4
  <2> QED BY <2>1, <2>2, <2>5
<1> QED BY <1>2, <1>3

-----------------------------------------------------------------------------
(* The invariant holds at first and is kept, action by action.             *)

LEMMA StackInitHolds ==
  StackInit => StackInv
<1> SUFFICES ASSUME StackInit PROVE StackInv
  OBVIOUS
<1> USE DEF StackInit
<1>1. S_cap = FirstCap /\ S_cap \in Nat \ {0} /\ DOMAIN co = 0..S_cap - 1
  <2>1. DOMAIN co = 0..FirstCap - 1 /\ FirstCap \in Nat \ {0}
    BY StackAssumption
  <2>2. Cardinality(0..FirstCap - 1) = FirstCap
    BY <2>1, 0 \in Int, FirstCap - 1 \in Int, FS_Interval
  <2> QED BY <2>1, <2>2 DEF S_cap
<1>2. Used = {}
  BY DEF Used
<1>3. stack \in Seq(Cells) /\ Len(stack) = StackSize
  <2>1. <<1, 0>> \in Cells
    BY StackAssumption DEF Cells
  <2> QED BY <2>1, StackAssumption
<1>4. mine \in Seq(Seq(Cells)) /\ Len(mine) = 0 /\ DOMAIN mine = 1..0
  OBVIOUS
<1>5. StackTypeOK
  BY <1>1, <1>2, <1>3, <1>4, StackAssumption DEF StackTypeOK
<1>6. SlotsInUse
  BY <1>1, <1>3, <1>4 DEF SlotsInUse
<1>7. SlotsAreCounted
  BY <1>2, FS_EmptySet DEF SlotsAreCounted
<1> QED BY <1>2, <1>5, <1>6, <1>7 DEF StackInv, RestingAreSaved, StackIsOwn

LEMMA NewKeeps ==
  ASSUME StackInv, New
  PROVE  StackInv'
<1> DEFINE full == nco >= S_cap
           id == IF full THEN S_cap ELSE FreeSlot
           slots == IF full THEN 0..2 * S_cap - 1 ELSE DOMAIN co
           C == [who |-> made + 1, status |-> READY, ctx |-> 0, cap |-> 0, saved |-> << >>]
<1>1. /\ co' = [j \in slots |-> IF j = id THEN C ELSE IF j \in DOMAIN co THEN co[j] ELSE NoCo]
      /\ nco' = nco + 1 /\ made' = made + 1 /\ mine' = Append(mine, << >>) /\ made < MaxMade
      /\ UNCHANGED <<running, stack, sp>>
  BY DEF New
<1>2. PICK n \in Nat \ {0} : /\ slots = 0..n - 1 /\ Cardinality(slots) = n
                             /\ S_cap <= n /\ nco + 1 <= n
  BY NewSlot
<1>3. id \in slots /\ id \notin Used /\ DOMAIN co \subseteq slots
  BY NewSlot
<1>4. C \in CoroutineOf(made + 1) /\ C.who = made + 1 /\ C.status = READY
  BY SlotsAre, StackAssumption DEF CoroutineOf, READY
<1> HIDE DEF full, id, slots, C
<1>5. DOMAIN co' = slots /\ S_cap' = n
  BY <1>1, <1>2 DEF S_cap
<1>6. C # NoCo /\ made + 1 \in 0..MaxMade
  BY <1>1, <1>4, NotNull, SlotsAre, StackAssumption
<1>7. Used' = Used \cup {id}
  BY <1>1, <1>3, <1>5, <1>6 DEF Used
<1>8. co'[id] = C /\ \A j \in Used : co'[j] = co[j]
  BY <1>1, <1>3, SlotsAre
<1>9. \A j \in Used : co[j] \in CoroutineOf(made + 1) /\ co[j].who \in 1..made
  BY SlotsAre DEF CoroutineOf
<1>10. /\ mine' \in Seq(Seq(Cells)) /\ Len(mine') = made + 1 /\ DOMAIN mine' = 1..made + 1
       /\ mine'[made + 1] = << >> /\ \A t \in 1..made : mine'[t] = mine[t]
  <2>1. mine \in Seq(Seq(Cells)) /\ Len(mine) = made /\ << >> \in Seq(Cells)
    BY DEF StackInv, SlotsInUse
  <2> QED BY <1>1, <2>1, AppendProperties, LenProperties
<1>11. nco \in Nat /\ running \in -1..S_cap - 1 /\ (running # -1 => running \in Used)
  BY SlotsAre, FS_CardinalityType DEF StackInv, StackTypeOK, SlotsInUse
<1>12. StackTypeOK'
  <2>1. \A j \in Used' : co'[j] \in CoroutineOf(made')
    BY <1>1, <1>4, <1>7, <1>8, <1>9
  <2>2. nco' \in 0..S_cap' /\ running' \in -1..S_cap' - 1
    BY <1>1, <1>2, <1>5, <1>11, SlotsAre
  <2>3. Len(stack') = StackSize /\ sp' \in 0..StackSize
    BY <1>1 DEF StackInv, StackTypeOK
  <2> QED BY <1>1, <1>2, <1>5, <1>6, <1>10, <2>1, <2>2, <2>3 DEF StackTypeOK, CoroutineOf
<1>13. SlotsInUse'
  BY <1>1, <1>2, <1>5, <1>7, <1>10, <1>11 DEF StackInv, SlotsInUse
<1>14. RestingAreSaved'
  <2> SUFFICES ASSUME NEW j \in Used', j # running' PROVE Resting(j)'
    BY DEF RestingAreSaved
  <2>1. CASE j = id
    BY <1>1, <1>4, <1>8, <1>10, <2>1 DEF Resting
  <2>2. CASE j \in Used
    <3>1. Resting(j) /\ co'[j] = co[j] /\ mine'[co[j].who] = mine[co[j].who]
      BY <1>1, <1>8, <1>9, <1>10, <2>2 DEF StackInv, RestingAreSaved
    <3> QED BY <3>1 DEF Resting
  <2> QED BY <1>7, <2>1, <2>2
<1>15. StackIsOwn'
  <2> SUFFICES ASSUME running # -1
               PROVE  SubSeq(stack, 1, sp) = mine'[co'[running].who]
    BY <1>1 DEF StackIsOwn
  <2>1. SubSeq(stack, 1, sp) = mine[co[running].who]
    BY DEF StackInv, StackIsOwn
  <2>2. running \in Used /\ co'[running] = co[running] /\ co[running].who \in 1..made
    BY <1>8, <1>9, <1>11
  <2> QED BY <1>10, <2>1, <2>2
<1>16. SlotsAreCounted'
  <2>1. nco' = Cardinality(Used')
    BY <1>1, <1>3, <1>7, SlotsAre, FS_AddElement
  <2>2. \A j \in Used : co'[j].who # co'[id].who
    BY <1>4, <1>8, <1>9, SlotsAre
  <2>3. \A j, k \in Used : co'[j].who = co'[k].who => j = k
    BY <1>8 DEF StackInv, SlotsAreCounted
  <2>4. \A j, k \in Used' : co'[j].who = co'[k].who => j = k
    BY <1>7, <2>2, <2>3
  <2> QED BY <2>1, <2>4 DEF SlotsAreCounted
<1> QED BY <1>12, <1>13, <1>14, <1>15, <1>16 DEF StackInv

\* What a prefix of the shared stack is.
LEMMA PrefixIs ==
  ASSUME NEW S, NEW s \in Seq(S), NEW t \in Seq(S), Len(t) <= Len(s),
         \A i \in 1..Len(t) : s[i] = t[i]
  PROVE  SubSeq(s, 1, Len(t)) = t
<1>1. Len(s) \in Nat /\ Len(t) \in Nat /\ \A i \in 1..Len(t) : s[i] \in S
  BY LenProperties, ElementOfSeq
<1>2. /\ SubSeq(s, 1, Len(t)) \in Seq(S) /\ Len(SubSeq(s, 1, Len(t))) = Len(t)
      /\ \A i \in 1..Len(t) : SubSeq(s, 1, Len(t))[i] = s[i]
  BY <1>1, SubSeqProperties
<1> QED BY <1>2, SeqEqual

\* Whoever is resumed goes on with its stack, the others rest on.
LEMMA ResumeKeeps ==
  ASSUME StackInv, NEW id \in Used, NEW status \in Nat, running = -1,
         running' = id, co' = [co EXCEPT ![id].status = status],
         UNCHANGED <<nco, made, mine>>,
         stack' \in Seq(Cells), Len(stack') = StackSize, sp' \in 0..StackSize,
         SubSeq(stack', 1, sp') = mine[co[id].who]
  PROVE  StackInv'
<1> DEFINE C == [co[id] EXCEPT !.status = status]
<1>1. co' = [co EXCEPT ![id] = C]
  OBVIOUS
<1>2. C \in CoroutineOf(made) /\ C.who = co[id].who
  BY SlotsAre DEF CoroutineOf
<1> HIDE DEF C
<1>3. /\ DOMAIN co' = DOMAIN co /\ S_cap' = S_cap /\ Used' = Used
      /\ \A j \in Used : co'[j] = IF j = id THEN C ELSE co[j]
      /\ \A j \in Used : co'[j] \in CoroutineOf(made)
      /\ SlotsAreCounted'
  BY <1>1, <1>2, ReplaceKeeps
<1>4. id \in 0..S_cap - 1 /\ S_cap \in Nat \ {0}
  BY SlotsAre
<1>5. StackTypeOK'
  <2>1. DOMAIN co' = 0..S_cap' - 1 /\ nco' \in 0..S_cap' /\ running' \in -1..S_cap' - 1
    BY <1>3, <1>4 DEF StackInv, StackTypeOK
  <2>2. \A j \in Used' : co'[j] \in CoroutineOf(made')
    BY <1>3
  <2>3. made' \in 0..MaxMade /\ DOMAIN mine' = 1..made'
    BY DEF StackInv, StackTypeOK
  <2> QED BY <2>1, <2>2, <2>3 DEF StackTypeOK, CoroutineOf
<1>6. SlotsInUse'
  BY <1>3, <1>4 DEF StackInv, SlotsInUse
<1>7. RestingAreSaved'
  <2> SUFFICES ASSUME NEW j \in Used, j # id PROVE Resting(j)'
    BY <1>3 DEF RestingAreSaved
  <2>1. Resting(j)
    BY SlotsAre DEF StackInv, RestingAreSaved
  <2> QED BY <1>3, <2>1 DEF Resting
<1>8. StackIsOwn'
  BY <1>2, <1>3 DEF StackIsOwn
<1> QED BY <1>3, <1>5, <1>6, <1>7, <1>8 DEF StackInv

LEMMA ResumeReadyKeeps ==
  ASSUME StackInv, NEW id \in DOMAIN co, ResumeReady(id)
  PROVE  StackInv'
<1> USE DEF ResumeReady
<1>1. id \in Used /\ id \in Nat /\ running = -1
  BY SlotsAre DEF Used
<1>2. mine[co[id].who] = << >>
  BY <1>1 DEF StackInv, RestingAreSaved, Resting, READY, SUSPEND
<1>3. SubSeq(stack, 1, 0) = << >>
  BY SubSeqEmpty
<1>4. stack \in Seq(Cells) /\ Len(stack) = StackSize /\ 0 \in 0..StackSize
  BY StackAssumption DEF StackInv, StackTypeOK, SlotsInUse
<1> QED BY <1>1, <1>2, <1>3, <1>4, ResumeKeeps

LEMMA ResumeSuspendedKeeps ==
  ASSUME StackInv, NEW id \in DOMAIN co, ResumeSuspended(id)
  PROVE  StackInv'
<1> DEFINE copy == co[id].saved
           restored == [i \in 1..StackSize |-> IF i <= Len(copy) THEN copy[i] ELSE stack[i]]
<1>1. /\ running = -1 /\ running' = id /\ co' = [co EXCEPT ![id].status = RUNNING]
      /\ sp' = co[id].ctx /\ stack' = restored /\ UNCHANGED <<nco, made, mine>>
  BY DEF ResumeSuspended
<1>2. id \in Used /\ id \in Nat
  BY SlotsAre DEF Used, ResumeSuspended
<1>3. mine[co[id].who] = copy /\ co[id].ctx = Len(copy)
  BY <1>1, <1>2 DEF StackInv, RestingAreSaved, Resting, READY, SUSPEND, ResumeSuspended
<1>4. copy \in Seq(Cells) /\ Len(copy) \in 0..StackSize
  BY <1>2, <1>3, SlotsAre DEF CoroutineOf
<1>5. stack \in Seq(Cells) /\ Len(stack) = StackSize /\ StackSize \in Nat
  BY StackAssumption DEF StackInv, StackTypeOK, SlotsInUse
<1> HIDE DEF copy
<1>6. restored \in Seq(Cells) /\ Len(restored) = StackSize
  <2>1. \A i \in 1..StackSize : restored[i] \in Cells
    BY <1>4, <1>5, ElementOfSeq
  <2>2. restored \in [1..StackSize -> Cells]
    BY <2>1
  <2> QED BY <1>5, <2>2, SeqDef
<1>7. \A i \in 1..Len(copy) : restored[i] = copy[i]
  BY <1>4, <1>5
<1> HIDE DEF restored
<1>8. SubSeq(restored, 1, Len(copy)) = copy
  BY <1>4, <1>5, <1>6, <1>7, PrefixIs
<1> QED BY <1>1, <1>2, <1>3, <1>4, <1>6, <1>8, ResumeKeeps DEF RUNNING

\* A step of whoever runs on its own stack: nobody else's changes.
LEMMA WorkKeeps ==
  ASSUME StackInv, running # -1, NEW now \in Seq(Cells),
         mine' = [mine EXCEPT ![co[running].who] = now],
         stack' \in Seq(Cells), Len(stack') = StackSize, sp' \in 0..StackSize,
         SubSeq(stack', 1, sp') = now, UNCHANGED <<co, nco, running, made>>
  PROVE  StackInv'
<1> DEFINE t == co[running].who
<1>1. running \in Used /\ t \in 1..made
  BY MineAre DEF StackInv, SlotsInUse
<1>2. S_cap' = S_cap /\ Used' = Used
  BY DEF S_cap, Used
<1>3. /\ mine' \in Seq(Seq(Cells)) /\ Len(mine') = made /\ mine'[t] = now
      /\ \A k \in 1..made : k # t => mine'[k] = mine[k]
  <2>1. mine \in Seq(Seq(Cells)) /\ Len(mine) = made
    BY DEF StackInv, SlotsInUse
  <2> QED BY <1>1, <2>1, ExceptSeq
<1> HIDE DEF t
<1>4. DOMAIN mine' = 1..made
  BY <1>3, LenProperties
<1>5. StackTypeOK'
  BY <1>2, <1>4 DEF StackInv, StackTypeOK
<1>6. SlotsInUse'
  BY <1>2, <1>3 DEF StackInv, SlotsInUse
<1>7. RestingAreSaved'
  <2> SUFFICES ASSUME NEW j \in Used, j # running PROVE Resting(j)'
    BY <1>2 DEF RestingAreSaved
  <2>1. co[j].who # t /\ co[j].who \in 1..made
    BY <1>1, MineAre DEF t, StackInv, SlotsAreCounted
  <2>2. Resting(j)
    BY DEF StackInv, RestingAreSaved
  <2> QED BY <1>3, <2>1, <2>2 DEF Resting
<1>8. StackIsOwn'
  BY <1>3 DEF StackIsOwn, t
<1>9. SlotsAreCounted'
  BY <1>2 DEF StackInv, SlotsAreCounted
<1> QED BY <1>5, <1>6, <1>7, <1>8, <1>9 DEF StackInv

LEMMA OwnStack ==
  ASSUME StackInv, running # -1
  PROVE  /\ running \in Used /\ co[running].who \in 1..made
         /\ mine[co[running].who] = SubSeq(stack, 1, sp)
         /\ SubSeq(stack, 1, sp) \in Seq(Cells) /\ Len(SubSeq(stack, 1, sp)) = sp
         /\ \A i \in 1..sp : SubSeq(stack, 1, sp)[i] = stack[i]
         /\ stack \in Seq(Cells) /\ Len(stack) = StackSize /\ StackSize \in Nat
         /\ sp \in 0..StackSize
<1>1. running \in Used /\ mine[co[running].who] = SubSeq(stack, 1, sp)
  BY DEF StackInv, SlotsInUse, StackIsOwn
<1>2. stack \in Seq(Cells) /\ Len(stack) = StackSize /\ StackSize \in Nat /\ sp \in 0..StackSize
  BY StackAssumption DEF StackInv, SlotsInUse, StackTypeOK
<1>3. \A i \in 1..sp : stack[i] \in Cells
  BY <1>2, ElementOfSeq
<1>4. /\ SubSeq(stack, 1, sp) \in Seq(Cells) /\ Len(SubSeq(stack, 1, sp)) = sp
      /\ \A i \in 1..sp : SubSeq(stack, 1, sp)[i] = stack[i]
  BY <1>2, <1>3, SubSeqProperties
<1> QED BY <1>1, <1>2, <1>4, MineAre

LEMMA CallsKeeps ==
  ASSUME StackInv, NEW v \in {0, 1}, CallsWith(v)
  PROVE  StackInv'
<1> DEFINE e == <<co[running].who, v>>
           was == SubSeq(stack, 1, sp)
           now == Append(was, e)
           pushed == [stack EXCEPT ![sp + 1] = e]
<1>1. /\ running # -1 /\ sp < StackSize /\ sp' = sp + 1 /\ stack' = pushed
      /\ mine' = [mine EXCEPT ![co[running].who] = Append(@, e)]
      /\ UNCHANGED <<co, nco, running, made>>
  BY DEF CallsWith
<1>2. /\ mine[co[running].who] = was /\ was \in Seq(Cells) /\ Len(was) = sp
      /\ \A i \in 1..sp : was[i] = stack[i]
      /\ stack \in Seq(Cells) /\ Len(stack) = StackSize /\ StackSize \in Nat
      /\ sp \in 0..StackSize
  BY <1>1, OwnStack
<1>3. mine' = [mine EXCEPT ![co[running].who] = now]
  BY <1>1, <1>2
<1>4. e \in Cells
  <2>1. co[running].who \in 1..made
    BY <1>1, OwnStack
  <2>2. co[running].who \in 1..MaxMade
    BY <2>1, SlotsAre, StackAssumption
  <2> QED BY <2>2 DEF Cells
<1>5. sp + 1 \in 1..Len(stack)
  BY <1>1, <1>2
<1> HIDE DEF e, was
<1>6. /\ now \in Seq(Cells) /\ Len(now) = sp + 1 /\ now[sp + 1] = e
      /\ \A i \in 1..sp : now[i] = was[i]
  BY <1>2, <1>4, AppendProperties
<1>7. /\ pushed \in Seq(Cells) /\ Len(pushed) = StackSize
      /\ \A i \in 1..StackSize : pushed[i] = IF i = sp + 1 THEN e ELSE stack[i]
  BY <1>2, <1>4, <1>5, ExceptSeq
<1> HIDE DEF now, pushed
<1>8. \A i \in 1..sp + 1 : pushed[i] = now[i]
  BY <1>1, <1>2, <1>6, <1>7
<1>9. SubSeq(pushed, 1, sp + 1) = now
  <2>1. Len(now) <= Len(pushed) /\ \A i \in 1..Len(now) : pushed[i] = now[i]
    BY <1>2, <1>5, <1>6, <1>7, <1>8
  <2>2. now \in Seq(Cells) /\ pushed \in Seq(Cells)
    BY <1>6, <1>7
  <2>3. SubSeq(pushed, 1, Len(now)) = now
    BY <2>1, <2>2, PrefixIs
  <2> QED BY <1>6, <2>3
<1>10. sp + 1 \in 0..StackSize
  BY <1>1, <1>2
<1> QED BY <1>1, <1>3, <1>6, <1>7, <1>9, <1>10, WorkKeeps

LEMMA ReturnsKeeps ==
  ASSUME StackInv, ReturnsFrom
  PROVE  StackInv'
<1> DEFINE was == SubSeq(stack, 1, sp)
           now == SubSeq(was, 1, sp - 1)
<1>1. /\ running # -1 /\ sp > 0 /\ sp' = sp - 1
      /\ mine' = [mine EXCEPT ![co[running].who] = SubSeq(@, 1, sp - 1)]
      /\ UNCHANGED <<co, nco, running, stack, made>>
  BY DEF ReturnsFrom
<1>2. /\ mine[co[running].who] = was /\ was \in Seq(Cells) /\ Len(was) = sp
      /\ \A i \in 1..sp : was[i] = stack[i]
      /\ stack \in Seq(Cells) /\ Len(stack) = StackSize /\ StackSize \in Nat
      /\ sp \in 0..StackSize
  BY <1>1, OwnStack
<1>3. mine' = [mine EXCEPT ![co[running].who] = now]
  BY <1>1, <1>2
<1> HIDE DEF was
<1>4. sp - 1 \in 0..StackSize
  BY <1>1, <1>2
<1>5. /\ now \in Seq(Cells) /\ Len(now) = sp - 1
      /\ \A i \in 1..sp - 1 : now[i] = was[i]
  <2>1. \A i \in 1..sp - 1 : was[i] \in Cells
    BY <1>2, ElementOfSeq
  <2> QED BY <1>1, <1>2, <2>1, SubSeqProperties
<1> HIDE DEF now
<1>6. \A i \in 1..sp - 1 : stack[i] = now[i]
  BY <1>2, <1>5
<1>7. SubSeq(stack, 1, sp - 1) = now
  BY <1>2, <1>4, <1>5, <1>6, PrefixIs
<1> QED BY <1>1, <1>2, <1>3, <1>4, <1>5, <1>7, WorkKeeps

LEMMA YieldKeeps ==
  ASSUME StackInv, Yield
  PROVE  StackInv'
<1> DEFINE was == SubSeq(stack, 1, sp)
           C == [SaveStack(co[running]) EXCEPT !.status = SUSPEND, !.ctx = sp]
<1>1. /\ running # -1 /\ running' = -1 /\ co' = [co EXCEPT ![running] = C]
      /\ UNCHANGED <<nco, stack, sp, made, mine>>
  BY DEF Yield
<1>2. /\ running \in Used /\ mine[co[running].who] = was
      /\ was \in Seq(Cells) /\ Len(was) = sp /\ sp \in 0..StackSize
  BY <1>1, OwnStack
<1>3. co[running] \in CoroutineOf(made)
  BY <1>2, SlotsAre
<1> HIDE DEF was
<1>4. /\ C \in CoroutineOf(made) /\ C.who = co[running].who
      /\ C.status = SUSPEND /\ C.ctx = sp /\ C.saved = was
  BY <1>2, <1>3 DEF was, CoroutineOf, SaveStack, SUSPEND
<1> HIDE DEF C
<1>5. /\ DOMAIN co' = DOMAIN co /\ S_cap' = S_cap /\ Used' = Used
      /\ \A j \in Used : co'[j] = IF j = running THEN C ELSE co[j]
      /\ \A j \in Used : co'[j] \in CoroutineOf(made)
      /\ SlotsAreCounted'
  BY <1>1, <1>2, <1>4, ReplaceKeeps
<1>6. StackTypeOK'
  <2>1. DOMAIN co' = 0..S_cap' - 1 /\ nco' \in 0..S_cap' /\ running' \in -1..S_cap' - 1
    BY <1>1, <1>5, SlotsAre DEF StackInv, StackTypeOK
  <2>2. \A j \in Used' : co'[j] \in CoroutineOf(made')
    BY <1>1, <1>5
  <2>3. /\ made' \in 0..MaxMade /\ DOMAIN mine' = 1..made'
        /\ Len(stack') = StackSize /\ sp' \in 0..StackSize
    BY <1>1 DEF StackInv, StackTypeOK
  <2> QED BY <2>1, <2>2, <2>3 DEF StackTypeOK, CoroutineOf
<1>7. SlotsInUse'
  BY <1>1, <1>5 DEF StackInv, SlotsInUse
<1>8. RestingAreSaved'
  <2> SUFFICES ASSUME NEW j \in Used PROVE Resting(j)'
    BY <1>5 DEF RestingAreSaved
  <2>1. CASE j = running
    BY <1>1, <1>2, <1>4, <1>5, <2>1 DEF Resting
  <2>2. CASE j # running
    <3>1. Resting(j)
      BY <2>2 DEF StackInv, RestingAreSaved
    <3> QED BY <1>1, <1>5, <2>2, <3>1 DEF Resting
  <2> QED BY <2>1, <2>2
<1> QED BY <1>1, <1>5, <1>6, <1>7, <1>8 DEF StackInv, StackIsOwn

LEMMA EndsKeeps ==
  ASSUME StackInv, Ends
  PROVE  StackInv'
<1>1. /\ running # -1 /\ running' = -1 /\ co' = [co EXCEPT ![running] = NoCo]
      /\ nco' = nco - 1 /\ UNCHANGED <<stack, sp, made, mine>>
  BY DEF Ends
<1>2. running \in Used
  BY <1>1, OwnStack
<1>3. DOMAIN co' = DOMAIN co /\ S_cap' = S_cap
  BY <1>1 DEF S_cap
<1>4. \A j \in DOMAIN co : co'[j] = IF j = running THEN NoCo ELSE co[j]
  BY <1>1
<1>5. Used' = Used \ {running} /\ \A j \in Used' : j \in Used /\ co'[j] = co[j]
  BY <1>3, <1>4 DEF Used
<1>6. nco' = Cardinality(Used') /\ nco' \in 0..S_cap'
  <2>1. nco' = Cardinality(Used')
    BY <1>1, <1>2, <1>5, SlotsAre, FS_RemoveElement
  <2>2. nco' \in Nat
    BY <2>1, <1>5, SlotsAre, FS_RemoveElement, FS_CardinalityType
  <2>3. nco \in 0..S_cap /\ S_cap \in Nat
    BY SlotsAre DEF StackInv, StackTypeOK
  <2> QED BY <1>1, <1>3, <2>1, <2>2, <2>3
<1>7. StackTypeOK'
  <2>1. DOMAIN co' = 0..S_cap' - 1 /\ running' \in -1..S_cap' - 1
    BY <1>1, <1>3, SlotsAre
  <2>2. \A j \in Used' : co'[j] \in CoroutineOf(made')
    BY <1>1, <1>5, SlotsAre
  <2>3. /\ made' \in 0..MaxMade /\ DOMAIN mine' = 1..made'
        /\ Len(stack') = StackSize /\ sp' \in 0..StackSize
    BY <1>1 DEF StackInv, StackTypeOK
  <2> QED BY <1>6, <2>1, <2>2, <2>3 DEF StackTypeOK, CoroutineOf
<1>8. SlotsInUse'
  BY <1>1, <1>3 DEF StackInv, SlotsInUse
<1>9. RestingAreSaved'
  BY <1>1, <1>5 DEF StackInv, RestingAreSaved, Resting
<1>10. SlotsAreCounted'
  BY <1>5, <1>6 DEF StackInv, SlotsAreCounted
<1> QED BY <1>1, <1>7, <1>8, <1>9, <1>10 DEF StackInv, StackIsOwn

-----------------------------------------------------------------------------
(* The theorems.                                                           *)

\* coroutine_new, coroutine_resume, coroutine_yield and the end of a coroutine
\* keep the invariant, and so does all that a coroutine does on its stack.
THEOREM StackInvariance == StackSpec => []StackInv
<1>1. StackInit => StackInv
  BY StackInitHolds
<1>2. ASSUME StackInv, [StackNext]_stackVars
      PROVE  StackInv'
  <2>1. CASE New
    BY <1>2, <2>1, NewKeeps
  <2>2. CASE \E id \in DOMAIN co : ResumeReady(id)
    BY <1>2, <2>2, ResumeReadyKeeps
  <2>3. CASE \E id \in DOMAIN co : ResumeSuspended(id)
    BY <1>2, <2>3, ResumeSuspendedKeeps
  <2>4. CASE \E v \in {0, 1} : CallsWith(v)
    BY <1>2, <2>4, CallsKeeps
  <2>5. CASE ReturnsFrom
    BY <1>2, <2>5, ReturnsKeeps
  <2>6. CASE Yield
    BY <1>2, <2>6, YieldKeeps
  <2>7. CASE Ends
    BY <1>2, <2>7, EndsKeeps
  <2>8. CASE UNCHANGED stackVars
    <3>1. S_cap' = S_cap /\ Used' = Used
      BY <2>8 DEF stackVars, S_cap, Used
    <3>2. StackTypeOK' /\ SlotsInUse'
      BY <1>2, <2>8, <3>1 DEF StackInv, stackVars, StackTypeOK, SlotsInUse
    <3>3. RestingAreSaved'
      BY <1>2, <2>8, <3>1 DEF StackInv, stackVars, RestingAreSaved, Resting
    <3>4. StackIsOwn' /\ SlotsAreCounted'
      BY <1>2, <2>8, <3>1 DEF StackInv, stackVars, StackIsOwn, SlotsAreCounted
    <3> QED BY <3>2, <3>3, <3>4 DEF StackInv
  <2> QED BY <1>2, <2>1, <2>2, <2>3, <2>4, <2>5, <2>6, <2>7, <2>8 DEF StackNext
<1> QED BY <1>1, <1>2, PTL DEF StackSpec

\* Coroutines that take turns on one stack keep theirs: whoever runs finds what
\* it had there, and the slots in use are counted (coroutine.c:168, 192, 124).
THEOREM StacksAlwaysKept == StackSpec => []StacksAreKept
<1>1. StackInv => StacksAreKept
  BY DEF StackInv, StacksAreKept
<1> QED BY <1>1, StackInvariance, PTL

\* Whenever a coroutine is made and the array is not full, the search from slot
\* nco on around the array ends at a free one: assert(0) is not reached
\* (coroutine.c:110 to 124).
THEOREM NewFindsASlot == StackSpec => [](nco < S_cap => co[FreeSlot] = NoCo)
<1>1. StackInv => (nco < S_cap => co[FreeSlot] = NoCo)
  BY FreeSlotIsFree
<1> QED BY <1>1, StackInvariance, PTL

-----------------------------------------------------------------------------
(* The chat server.                                                        *)

\* The replies of redis, with what their callbacks know.
Infos == {NoAccount} \cup SUBSET Messages
AccountReplies == [cb : {"registerUser", "loginUser"}, s : Sockets, u : Users, info : Infos]
RoomReplies == [cb : {"registerRoom", "loginRoom"}, s : Sockets, u : Users, info : SUBSET Users]
SendReplies == [cb : {"sendFrom", "sendTo"}, u : Users, info : Infos,
                peer : Users, id : 1..MaxSent]
ReadReplies == [cb : {"read"}, u : Users, info : Infos, peer : Users]
LeaveReplies == [cb : {"leave"}, u : SUBSET Users, info : SUBSET Users]
Replies == AccountReplies \cup RoomReplies \cup SendReplies \cup ReadReplies \cup LeaveReplies

SocketsOK ==
  /\ ended \subseteq Sockets /\ stranded \subseteq Users
  /\ asks \in [Sockets -> Nat] /\ answers \in [Sockets -> Nat] /\ sent \in 0..MaxSent
  /\ DOMAIN online \subseteq Users /\ \A u \in DOMAIN online : online[u] \in Sockets

RedisOK ==
  /\ accounts \in [Users -> Infos] /\ saved \in [Users -> SUBSET (1..MaxSent)]
  /\ room \subseteq Users /\ overlapped \subseteq Users
  /\ replies \in Seq(Replies)

\* Who has no account has nothing saved.
SavedInAccounts ==
  \A u \in Users :
    /\ accounts[u] = NoAccount => saved[u] = {}
    /\ accounts[u] # NoAccount /\ u \notin overlapped => saved[u] = {m.id : m \in accounts[u]}

-----------------------------------------------------------------------------
(* The queue of replies.                                                   *)

Waits(q, s) == {i \in DOMAIN q : q[i].cb \in Asking /\ q[i].s = s}
Count(q, s) == Cardinality(Waits(q, s))

Leaves(r, u) == r.cb = "leave" /\ u \in r.u \cap r.info
Leaving(q, u) == \E i \in DOMAIN q : Leaves(q[i], u)

AnswersDue == \A s \in Sockets : asks[s] = answers[s] + Count(replies, s)
Here(u) == u \in DOMAIN online /\ (online[u] \in ended => u \in stranded)
InRoom == \A u \in room : Here(u) \/ Leaving(replies, u)

ChatInv == SocketsOK /\ RedisOK /\ SavedInAccounts /\ AnswersDue /\ InRoom

LEMMA CountIsFinite ==
  ASSUME NEW S, NEW q \in Seq(S), NEW s
  PROVE  IsFiniteSet(Waits(q, s)) /\ Count(q, s) \in Nat
<1>1. DOMAIN q = 1..Len(q) /\ Len(q) \in Nat
  BY LenProperties
<1>2. IsFiniteSet(1..Len(q))
  BY <1>1, FS_Interval
<1>3. Waits(q, s) \subseteq 1..Len(q)
  BY <1>1 DEF Waits
<1>4. IsFiniteSet(Waits(q, s))
  BY <1>2, <1>3, FS_Subset
<1> QED BY <1>4, FS_CardinalityType DEF Count

\* A command is sent: its reply will be the last.
LEMMA Appended ==
  ASSUME NEW S, NEW q \in Seq(S), NEW r \in S
  PROVE  /\ Append(q, r) \in Seq(S)
         /\ \A s : /\ r.cb \in Asking /\ r.s = s => Count(Append(q, r), s) = Count(q, s) + 1
                   /\ ~(r.cb \in Asking /\ r.s = s) => Count(Append(q, r), s) = Count(q, s)
         /\ \A u : Leaving(Append(q, r), u) <=> Leaving(q, u) \/ Leaves(r, u)
<1> DEFINE t == Append(q, r)
           n == Len(q)
<1>1. /\ n \in Nat /\ DOMAIN q = 1..n
      /\ t \in Seq(S) /\ DOMAIN t = 1..n + 1 /\ t[n + 1] = r
      /\ \A i \in 1..n : t[i] = q[i]
  BY AppendProperties, LenProperties
<1> HIDE DEF t, n
<1>2. 1..n + 1 = 1..n \cup {n + 1} /\ n + 1 \notin 1..n
  BY <1>1
<1>3. ASSUME NEW s
      PROVE  /\ r.cb \in Asking /\ r.s = s => Count(t, s) = Count(q, s) + 1
             /\ ~(r.cb \in Asking /\ r.s = s) => Count(t, s) = Count(q, s)
  <2>1. CASE r.cb \in Asking /\ r.s = s
    <3>1. Waits(t, s) = Waits(q, s) \cup {n + 1} /\ n + 1 \notin Waits(q, s)
      BY <1>1, <1>2, <2>1 DEF Waits
    <3> QED BY <2>1, <3>1, CountIsFinite, FS_AddElement DEF Count
  <2>2. CASE ~(r.cb \in Asking /\ r.s = s)
    <3>1. Waits(t, s) = Waits(q, s)
      BY <1>1, <1>2, <2>2 DEF Waits
    <3> QED BY <2>2, <3>1 DEF Count
  <2> QED BY <2>1, <2>2
<1>4. ASSUME NEW u
      PROVE  Leaving(t, u) <=> Leaving(q, u) \/ Leaves(r, u)
  BY <1>1, <1>2 DEF Leaving
<1> QED BY <1>1, <1>3, <1>4 DEF t

\* A reply arrives: the first callback of the queue runs.
LEMMA Arrived ==
  ASSUME NEW S, NEW q \in Seq(S), q # << >>
  PROVE  /\ Tail(q) \in Seq(S) /\ Head(q) \in S
         /\ \A s : /\ Head(q).cb \in Asking /\ Head(q).s = s => Count(q, s) = Count(Tail(q), s) + 1
                   /\ ~(Head(q).cb \in Asking /\ Head(q).s = s) => Count(q, s) = Count(Tail(q), s)
         /\ \A u : Leaving(q, u) <=> Leaves(Head(q), u) \/ Leaving(Tail(q), u)
<1> DEFINE t == Tail(q)
           n == Len(t)
<1>1. /\ n \in Nat /\ DOMAIN t = 1..n /\ DOMAIN q = 1..n + 1
      /\ t \in Seq(S) /\ Head(q) \in S /\ q[1] = Head(q)
      /\ \A i \in 1..n : t[i] = q[i + 1]
  <2>1. t \in Seq(S) /\ n = Len(q) - 1 /\ Head(q) \in S /\ \A i \in 1..n : t[i] = q[i + 1]
    BY HeadTailProperties
  <2>2. Len(q) \in Nat \ {0} /\ DOMAIN q = 1..Len(q) /\ q[1] = Head(q)
    BY EmptySeq, LenProperties
  <2>3. DOMAIN t = 1..n
    BY <2>1, LenProperties
  <2> HIDE DEF t
  <2> QED BY <2>1, <2>2, <2>3
<1> HIDE DEF t, n
<1>2. \A i \in 1..n + 1 : i = 1 \/ (i - 1 \in 1..n /\ t[i - 1] = q[i])
  BY <1>1
<1>3. ASSUME NEW s
      PROVE  /\ Head(q).cb \in Asking /\ Head(q).s = s => Count(q, s) = Count(t, s) + 1
             /\ ~(Head(q).cb \in Asking /\ Head(q).s = s) => Count(q, s) = Count(t, s)
  <2> DEFINE later == Waits(q, s) \ {1}
             back == [i \in later |-> i - 1]
  <2>1. \A i \in later : i \in 1..n + 1 /\ i # 1 /\ i - 1 \in Waits(t, s)
    BY <1>1, <1>2 DEF Waits
  <2>2. back \in [later -> Waits(t, s)]
    BY <2>1
  <2>3. \A i, j \in later : back[i] = back[j] => i = j
    BY <2>1
  <2>4. \A j \in Waits(t, s) : j + 1 \in later /\ back[j + 1] = j
    BY <1>1 DEF Waits
  <2>5. back \in Bijection(later, Waits(t, s))
    BY <2>2, <2>3, <2>4 DEF Bijection, Injection, Surjection, IsInjective
  <2>6. IsFiniteSet(Waits(q, s))
    BY CountIsFinite
  <2>7. IsFiniteSet(later)
    BY <2>6, FS_RemoveElement
  <2>8. Cardinality(later) = Count(t, s)
    BY <2>5, <2>7, FS_Bijection DEF ExistsBijection, Count
  <2>9. 1 \in Waits(q, s) <=> Head(q).cb \in Asking /\ Head(q).s = s
    BY <1>1 DEF Waits
  <2>10. /\ 1 \in Waits(q, s) => Cardinality(later) = Count(q, s) - 1
         /\ 1 \notin Waits(q, s) => Cardinality(later) = Count(q, s)
    BY <2>6, FS_RemoveElement DEF Count
  <2>11. Count(q, s) \in Nat /\ Count(t, s) \in Nat
    BY <1>1, CountIsFinite
  <2> QED BY <2>8, <2>9, <2>10, <2>11
<1>4. ASSUME NEW u
      PROVE  Leaving(q, u) <=> Leaves(Head(q), u) \/ Leaving(t, u)
  <2>1. Leaving(t, u) => Leaving(q, u)
    <3>1. \A i \in 1..n : i + 1 \in 1..n + 1
      BY <1>1
    <3> QED BY <1>1, <3>1 DEF Leaving
  <2>2. Leaves(Head(q), u) => Leaving(q, u)
    BY <1>1 DEF Leaving
  <2>3. Leaving(q, u) => Leaves(Head(q), u) \/ Leaving(t, u)
    BY <1>1, <1>2 DEF Leaving
  <2> QED BY <2>1, <2>2, <2>3
<1> QED BY <1>1, <1>3, <1>4 DEF t

-----------------------------------------------------------------------------
(* Events of the sockets.                                                  *)

LEMMA ChatInitHolds ==
  ChatInit => ChatInv
<1> SUFFICES ASSUME ChatInit PROVE ChatInv
  OBVIOUS
<1> USE DEF ChatInit
<1>1. SocketsOK
  BY ChatAssumption DEF SocketsOK
<1>2. RedisOK
  <2>1. accounts \in [Users -> Infos]
    BY DEF Infos
  <2> QED BY <2>1 DEF RedisOK
<1>3. SavedInAccounts
  BY DEF SavedInAccounts
<1>4. \A s : Count(replies, s) = 0
  <2>1. \A s : Waits(replies, s) = {}
    BY DEF Waits
  <2> QED BY <2>1, FS_EmptySet DEF Count
<1>5. AnswersDue /\ InRoom
  BY <1>4 DEF AnswersDue, InRoom
<1> QED BY <1>1, <1>2, <1>3, <1>5 DEF ChatInv

\* A command that asks for nothing that must be answered is sent.
LEMMA SentKeeps ==
  ASSUME ChatInv, NEW r \in Replies, r.cb \notin Asking,
         replies' = Append(replies, r), Kept, SocketsOK',
         UNCHANGED <<asks, answers>>,
         \A u \in room : Here(u) => Here(u)' \/ Leaves(r, u)
  PROVE  ChatInv'
<1> USE DEF Kept
<1>1. /\ replies' \in Seq(Replies)
      /\ \A s : Count(replies', s) = Count(replies, s)
      /\ \A u : Leaving(replies', u) <=> Leaving(replies, u) \/ Leaves(r, u)
  BY Appended DEF ChatInv, RedisOK
<1>2. RedisOK'
  BY <1>1 DEF ChatInv, RedisOK
<1>3. SavedInAccounts'
  BY DEF ChatInv, SavedInAccounts
<1>4. AnswersDue'
  BY <1>1 DEF ChatInv, AnswersDue
<1>5. InRoom'
  BY <1>1 DEF ChatInv, InRoom
<1> QED BY <1>2, <1>3, <1>4, <1>5 DEF ChatInv

LEMMA AskKeeps ==
  ASSUME ChatInv, NEW s \in Sockets, NEW cb \in {"registerUser", "loginUser"},
         NEW v \in Users, Ask(s, cb, v)
  PROVE  ChatInv'
<1> DEFINE r == UserReply(cb, s, v)
<1>1. /\ asks' = [asks EXCEPT ![s] = @ + 1] /\ replies' = Append(replies, r)
      /\ UNCHANGED <<accounts, room, saved, overlapped>>
      /\ UNCHANGED <<online, ended, answers, sent, reads, stranded>>
  BY DEF Ask, Kept
<1>2. r \in Replies /\ r.s = s /\ r.cb \in Asking /\ r.cb # "leave"
  BY <1>1 DEF UserReply, ChatInv, SocketsOK, RedisOK, Replies, AccountReplies, Asking
<1> HIDE DEF r
<1>3. /\ replies' \in Seq(Replies)
      /\ Count(replies', s) = Count(replies, s) + 1
      /\ \A k : k # s => Count(replies', k) = Count(replies, k)
      /\ \A u : Leaving(replies, u) => Leaving(replies', u)
  BY <1>1, <1>2, Appended DEF ChatInv, RedisOK
<1>4. /\ asks' \in [Sockets -> Nat] /\ asks'[s] = asks[s] + 1
      /\ \A k \in Sockets : k # s => asks'[k] = asks[k]
  BY <1>1 DEF ChatInv, SocketsOK
<1>5. SocketsOK'
  BY <1>1, <1>4 DEF ChatInv, SocketsOK
<1>6. RedisOK'
  BY <1>1, <1>3 DEF ChatInv, RedisOK
<1>7. SavedInAccounts'
  BY <1>1 DEF ChatInv, SavedInAccounts
<1>8. AnswersDue'
  <2> SUFFICES ASSUME NEW k \in Sockets
               PROVE  asks'[k] = answers[k] + Count(replies', k)
    BY <1>1 DEF AnswersDue
  <2>1. asks[k] = answers[k] + Count(replies, k) /\ asks[k] \in Nat /\ answers[k] \in Nat
    BY DEF ChatInv, AnswersDue, SocketsOK
  <2>2. Count(replies, k) \in Nat
    BY CountIsFinite DEF ChatInv, RedisOK
  <2> QED BY <1>3, <1>4, <2>1, <2>2
<1>9. InRoom'
  BY <1>1, <1>3 DEF ChatInv, InRoom, Here
<1> QED BY <1>5, <1>6, <1>7, <1>8, <1>9 DEF ChatInv

LEMMA SendMsgKeeps ==
  ASSUME ChatInv, NEW from \in Users, NEW to \in Users, SendMsg(from, to)
  PROVE  ChatInv'
<1> DEFINE r == SendReply("sendFrom", from, to, sent + 1)
<1>1. /\ sent < MaxSent /\ sent' = sent + 1 /\ replies' = Append(replies, r) /\ Kept
      /\ UNCHANGED <<online, ended, asks, answers, reads, stranded>>
  BY DEF SendMsg
<1>2. sent \in 0..MaxSent /\ sent + 1 \in 1..MaxSent /\ sent + 1 \in 0..MaxSent
  BY <1>1, ChatAssumption DEF ChatInv, SocketsOK
<1>3. accounts'[from] \in Infos
  BY <1>1 DEF ChatInv, RedisOK, Kept
<1>4. r \in SendReplies
  BY <1>2, <1>3 DEF SendReply, SendReplies
<1>5. r \in Replies /\ r.cb \notin Asking
  BY <1>4 DEF Replies, SendReply, Asking
<1>6. SocketsOK'
  BY <1>1, <1>2 DEF ChatInv, SocketsOK
<1>7. \A u \in room : Here(u) => Here(u)'
  BY <1>1 DEF Here
<1> HIDE DEF r
<1> QED BY <1>1, <1>5, <1>6, <1>7, SentKeeps

LEMMA ReadAllKeeps ==
  ASSUME ChatInv, NEW from \in Users, NEW to \in Users, ReadAll(from, to)
  PROVE  ChatInv'
<1> DEFINE r1 == ReadReply(to, from)
           r2 == ReadReply(from, to)
           q1 == Append(replies, r1)
<1>1. /\ replies' = Append(q1, r2) /\ UNCHANGED <<accounts, room, saved, overlapped>>
      /\ UNCHANGED <<online, ended, asks, answers, sent, stranded>>
  BY DEF ReadAll, Kept
<1>2. accounts'[to] \in Infos /\ accounts'[from] \in Infos
  BY <1>1 DEF ChatInv, SocketsOK, RedisOK
<1>3. r1 \in ReadReplies /\ r2 \in ReadReplies
  BY <1>2 DEF ReadReply, ReadReplies
<1>4. /\ r1 \in Replies /\ r1.cb \notin Asking /\ r1.cb # "leave"
      /\ r2 \in Replies /\ r2.cb \notin Asking /\ r2.cb # "leave"
  BY <1>3 DEF Replies, ReadReply, Asking
<1> HIDE DEF r1, r2
<1>5. /\ q1 \in Seq(Replies)
      /\ \A k : Count(q1, k) = Count(replies, k)
      /\ \A u : Leaving(replies, u) => Leaving(q1, u)
  BY <1>4, Appended DEF ChatInv, RedisOK
<1> HIDE DEF q1
<1>6. /\ replies' \in Seq(Replies)
      /\ \A k : Count(replies', k) = Count(replies, k)
      /\ \A u : Leaving(replies, u) => Leaving(replies', u)
  BY <1>1, <1>4, <1>5, Appended
<1>7. SocketsOK'
  BY <1>1 DEF ChatInv, SocketsOK
<1>8. RedisOK'
  BY <1>1, <1>6 DEF ChatInv, RedisOK
<1>9. SavedInAccounts'
  BY <1>1 DEF ChatInv, SavedInAccounts
<1>10. AnswersDue'
  BY <1>1, <1>6 DEF ChatInv, AnswersDue
<1>11. InRoom'
  BY <1>1, <1>6 DEF ChatInv, InRoom, Here
<1> QED BY <1>7, <1>8, <1>9, <1>10, <1>11 DEF ChatInv

LEMMA DisconnectKeeps ==
  ASSUME ChatInv, NEW s \in Sockets, Disconnect(s)
  PROVE  ChatInv'
<1> DEFINE names == {u \in DOMAIN online : online[u] = s}
<1>1. PICK gone \in (IF names = {} THEN {{}} ELSE {{u} : u \in names}) :
        /\ online' = [u \in DOMAIN online \ gone |-> online[u]]
        /\ replies' = Append(replies, [cb |-> "leave", u |-> gone, info |-> room])
        /\ stranded' = stranded \cup (names \ gone)
  BY DEF Disconnect
<1> DEFINE r == [cb |-> "leave", u |-> gone, info |-> room]
<1>2. ended' = ended \cup {s} /\ Kept /\ UNCHANGED <<asks, answers, sent>>
  BY DEF Disconnect
<1>3. gone \subseteq Users
  <2>1. gone = {} \/ \E u \in names : gone = {u}
    BY <1>1
  <2> QED BY <2>1 DEF ChatInv, SocketsOK
<1>4. r \in Replies /\ r.cb \notin Asking
  BY <1>3 DEF Replies, LeaveReplies, Asking, ChatInv, RedisOK
<1>5. ASSUME NEW u \in room, Here(u)
      PROVE  Here(u)' \/ Leaves(r, u)
  <2>1. CASE u \in gone
    BY <2>1 DEF Leaves
  <2>2. CASE u \notin gone
    <3>1. u \in DOMAIN online' /\ online'[u] = online[u]
      BY <1>1, <1>5, <2>2 DEF Here
    <3>2. online[u] = s => u \in stranded'
      BY <1>1, <1>5, <2>2 DEF Here
    <3> QED BY <1>1, <1>2, <1>5, <3>1, <3>2 DEF Here
  <2> QED BY <2>1, <2>2
<1>6. SocketsOK'
  <2>1. ended' \subseteq Sockets /\ stranded' \subseteq Users
    BY <1>1, <1>2 DEF ChatInv, SocketsOK
  <2>2. DOMAIN online' \subseteq Users /\ \A u \in DOMAIN online' : online'[u] \in Sockets
    BY <1>1 DEF ChatInv, SocketsOK
  <2> QED BY <1>2, <2>1, <2>2 DEF ChatInv, SocketsOK
<1>7. replies' = Append(replies, r) /\ UNCHANGED <<asks, answers>>
  BY <1>1, <1>2
<1> HIDE DEF r
<1> QED BY <1>2, <1>4, <1>5, <1>6, <1>7, SentKeeps

-----------------------------------------------------------------------------
(* Callbacks.                                                              *)

\* What the first reply of the queue is, by its callback.
LEMMA HeadIs ==
  ASSUME ChatInv, replies # << >>
  PROVE  /\ R \in Replies
         /\ R.cb \in Asking => R.s \in Sockets
         /\ R.cb \in {"registerUser", "loginUser"} => R.u \in Users /\ R.info \in Infos
         /\ R.cb \in {"registerRoom", "loginRoom"} => R.u \in Users /\ R.info \subseteq Users
         /\ R.cb \in {"sendFrom", "sendTo"} =>
              R.u \in Users /\ R.info \in Infos /\ R.peer \in Users /\ R.id \in 1..MaxSent
         /\ R.cb = "read" => R.u \in Users /\ R.info \in Infos /\ R.peer \in Users
         /\ R.cb = "leave" => R.u \subseteq Users /\ R.info \subseteq Users
<1>1. R \in Replies
  BY Arrived DEF ChatInv, RedisOK, R
<1>2. CASE R \in AccountReplies
  BY <1>1, <1>2 DEF AccountReplies, Asking
<1>3. CASE R \in RoomReplies
  BY <1>1, <1>3 DEF RoomReplies, Asking
<1>4. CASE R \in SendReplies
  BY <1>1, <1>4 DEF SendReplies, Asking
<1>5. CASE R \in ReadReplies
  BY <1>1, <1>5 DEF ReadReplies, Asking
<1>6. CASE R \in LeaveReplies
  BY <1>1, <1>6 DEF LeaveReplies, Asking
<1> QED BY <1>1, <1>2, <1>3, <1>4, <1>5, <1>6 DEF Replies

\* The queue after a callback that sends nothing, and after one that goes on.
LEMMA AfterDone ==
  ASSUME ChatInv, replies # << >>, Done
  PROVE  /\ replies' \in Seq(Replies)
         /\ \A s : /\ R.cb \in Asking /\ R.s = s => Count(replies, s) = Count(replies', s) + 1
                   /\ ~(R.cb \in Asking /\ R.s = s) => Count(replies, s) = Count(replies', s)
         /\ \A s : Count(replies', s) \in Nat
         /\ \A u : Leaving(replies, u) <=> Leaves(R, u) \/ Leaving(replies', u)
BY Arrived, CountIsFinite DEF ChatInv, RedisOK, R, Done

LEMMA AfterGoesOn ==
  ASSUME ChatInv, replies # << >>, NEW r \in Replies, GoesOn(r), r.cb \in Asking => r.s = R.s,
         r.cb \in Asking <=> R.cb \in Asking, r.cb # "leave", R.cb # "leave"
  PROVE  /\ replies' \in Seq(Replies)
         /\ \A s : Count(replies', s) = Count(replies, s)
         /\ \A u : Leaving(replies, u) <=> Leaving(replies', u)
<1> DEFINE t == Tail(replies)
<1>1. /\ t \in Seq(Replies)
      /\ \A s : /\ R.cb \in Asking /\ R.s = s => Count(replies, s) = Count(t, s) + 1
                /\ ~(R.cb \in Asking /\ R.s = s) => Count(replies, s) = Count(t, s)
      /\ \A u : Leaving(replies, u) <=> Leaves(R, u) \/ Leaving(t, u)
  BY Arrived DEF ChatInv, RedisOK, R
<1>2. replies' = Append(t, r)
  BY DEF GoesOn
<1> HIDE DEF t
<1>3. /\ replies' \in Seq(Replies)
      /\ \A s : /\ r.cb \in Asking /\ r.s = s => Count(replies', s) = Count(t, s) + 1
                /\ ~(r.cb \in Asking /\ r.s = s) => Count(replies', s) = Count(t, s)
      /\ \A u : Leaving(replies', u) <=> Leaving(t, u) \/ Leaves(r, u)
  BY <1>1, <1>2, Appended
<1>4. \A s : Count(replies', s) = Count(replies, s)
  BY <1>1, <1>3
<1>5. \A u : Leaving(replies, u) <=> Leaving(replies', u)
  BY <1>1, <1>3 DEF Leaves
<1> QED BY <1>3, <1>4, <1>5

\* The answer to whoever asked.
LEMMA AnsweredDue ==
  ASSUME ChatInv, replies # << >>, R.cb \in Asking, Done, Answer(R.s), UNCHANGED asks
  PROVE  AnswersDue' /\ answers' \in [Sockets -> Nat]
<1>1. R.s \in Sockets
  BY HeadIs
<1>2. /\ answers' \in [Sockets -> Nat] /\ answers'[R.s] = answers[R.s] + 1
      /\ \A k \in Sockets : k # R.s => answers'[k] = answers[k]
  BY <1>1 DEF Answer, ChatInv, SocketsOK
<1>3. /\ Count(replies, R.s) = Count(replies', R.s) + 1
      /\ \A k : k # R.s => Count(replies, k) = Count(replies', k)
      /\ \A k : Count(replies', k) \in Nat
  BY AfterDone
<1>4. ASSUME NEW k \in Sockets
      PROVE  asks[k] = answers'[k] + Count(replies', k)
  <2>1. asks[k] = answers[k] + Count(replies, k) /\ answers[k] \in Nat
    BY DEF ChatInv, AnswersDue, SocketsOK
  <2> QED BY <1>2, <1>3, <2>1
<1> QED BY <1>2, <1>4 DEF AnswersDue

LEMMA RefuseKeeps ==
  ASSUME ChatInv, replies # << >>, R.cb \in Asking, Refuse(R.s), Kept,
         UNCHANGED <<online, ended, asks, sent, stranded>>
  PROVE  ChatInv'
<1> USE DEF Refuse, Kept
<1>1. AnswersDue' /\ answers' \in [Sockets -> Nat]
  BY AnsweredDue
<1>2. replies' \in Seq(Replies) /\ \A u : Leaving(replies, u) => Leaving(replies', u)
  <2>1. \A u : ~Leaves(R, u)
    BY DEF Leaves, Asking
  <2> QED BY <2>1, AfterDone
<1>3. SocketsOK'
  BY <1>1 DEF ChatInv, SocketsOK
<1>4. RedisOK'
  BY <1>2 DEF ChatInv, RedisOK
<1>5. SavedInAccounts'
  BY DEF ChatInv, SavedInAccounts
<1>6. InRoom'
  BY <1>2 DEF ChatInv, InRoom, Here
<1> QED BY <1>1, <1>3, <1>4, <1>5, <1>6 DEF ChatInv

\* A callback goes on to ask for the room.
LEMMA OnToRoomKeeps ==
  ASSUME ChatInv, replies # << >>, R.cb \in {"registerUser", "loginUser"},
         NEW cb \in {"registerRoom", "loginRoom"}, GoesOn(RoomReply(cb, R.s, R.u)), Kept,
         UNCHANGED <<online, ended, asks, answers, sent, stranded>>
  PROVE  ChatInv'
<1> DEFINE r == RoomReply(cb, R.s, R.u)
<1> USE DEF Kept
<1>1. R.s \in Sockets /\ R.u \in Users
  BY HeadIs DEF Asking
<1>2. r \in Replies /\ r.s = R.s /\ r.cb \in Asking /\ r.cb # "leave"
  BY <1>1 DEF RoomReply, RoomReplies, Replies, Asking, ChatInv, RedisOK
<1>3. R.cb \in Asking /\ R.cb # "leave"
  BY DEF Asking
<1> HIDE DEF r
<1>4. /\ replies' \in Seq(Replies)
      /\ \A s : Count(replies', s) = Count(replies, s)
      /\ \A u : Leaving(replies, u) <=> Leaving(replies', u)
  BY <1>2, <1>3, AfterGoesOn DEF r
<1>5. SocketsOK'
  BY DEF ChatInv, SocketsOK
<1>6. RedisOK'
  BY <1>4 DEF ChatInv, RedisOK
<1>7. SavedInAccounts'
  BY DEF ChatInv, SavedInAccounts
<1>8. AnswersDue' /\ InRoom'
  BY <1>4 DEF ChatInv, AnswersDue, InRoom, Here
<1> QED BY <1>5, <1>6, <1>7, <1>8 DEF ChatInv

LEMMA AskedUserKeeps ==
  ASSUME ChatInv, RegisterUser \/ LoginUser
  PROVE  ChatInv'
<1>1. CASE RegisterUser
  <2>1. /\ replies # << >> /\ R.cb = "registerUser" /\ Kept
        /\ UNCHANGED <<online, ended, asks, sent, stranded>>
    BY <1>1 DEF RegisterUser, Reply, R
  <2>2. Refuse(R.s) \/ (GoesOn(RoomReply("registerRoom", R.s, R.u)) /\ UNCHANGED answers)
    BY <1>1 DEF RegisterUser
  <2> QED BY <2>1, <2>2, RefuseKeeps, OnToRoomKeeps DEF Asking
<1>2. CASE LoginUser
  <2>1. /\ replies # << >> /\ R.cb = "loginUser" /\ Kept
        /\ UNCHANGED <<online, ended, asks, sent, stranded>>
    BY <1>2 DEF LoginUser, Reply, R
  <2>2. Refuse(R.s) \/ (GoesOn(RoomReply("loginRoom", R.s, R.u)) /\ UNCHANGED answers)
    BY <1>2 DEF LoginUser
  <2> QED BY <2>1, <2>2, RefuseKeeps, OnToRoomKeeps DEF Asking
<1> QED BY <1>1, <1>2

\* Somebody comes into the room, and into the registry.
LEMMA ComesInKeeps ==
  ASSUME ChatInv, replies # << >>, R.cb \in {"registerRoom", "loginRoom"}, ComesIn,
         UNCHANGED <<ended, asks, sent>>
  PROVE  /\ SocketsOK' /\ AnswersDue' /\ InRoom'
         /\ room' \subseteq Users /\ replies' \in Seq(Replies)
<1>1. /\ room' = room \cup {R.u}
      /\ online' = [u \in DOMAIN online \cup {R.u} |-> IF u = R.u THEN R.s ELSE online[u]]
      /\ stranded' = IF R.s \in ended THEN stranded \cup {R.u} ELSE stranded \ {R.u}
      /\ Answer(R.s) /\ Done
  BY DEF ComesIn
<1>2. R.s \in Sockets /\ R.u \in Users /\ R.cb \in Asking /\ R.cb # "leave"
  BY HeadIs DEF Asking
<1>3. AnswersDue' /\ answers' \in [Sockets -> Nat]
  BY <1>1, <1>2, AnsweredDue
<1>4. replies' \in Seq(Replies) /\ \A u : Leaving(replies, u) => Leaving(replies', u)
  BY <1>1, <1>2, AfterDone DEF Leaves
<1>5. /\ DOMAIN online' = DOMAIN online \cup {R.u}
      /\ \A u \in DOMAIN online' : online'[u] = IF u = R.u THEN R.s ELSE online[u]
  BY <1>1
<1>6. stranded' \subseteq Users
  BY <1>1, <1>2 DEF ChatInv, SocketsOK
<1>7. SocketsOK'
  <2>1. DOMAIN online' \subseteq Users /\ \A u \in DOMAIN online' : online'[u] \in Sockets
    BY <1>2, <1>5 DEF ChatInv, SocketsOK
  <2> QED BY <1>3, <1>6, <2>1 DEF ChatInv, SocketsOK
<1>8. InRoom'
  <2>1. \A u : u = R.u => Here(u)'
    BY <1>1, <1>5 DEF Here
  <2>2. \A u : u # R.u /\ Here(u) => Here(u)'
    BY <1>1, <1>5, <1>6 DEF Here
  <2> QED BY <1>1, <1>4, <2>1, <2>2 DEF ChatInv, InRoom
<1>9. room' \subseteq Users
  BY <1>1, <1>2 DEF ChatInv, RedisOK
<1> QED BY <1>3, <1>4, <1>7, <1>8, <1>9

\* What is written into an account, from what the callback had read of it.
LEMMA WriteKeeps ==
  ASSUME ChatInv, NEW u \in Users, NEW info \in Infos, NEW messages \in SUBSET Messages,
         NEW ids \in SUBSET (1..MaxSent), Writes(u, messages, ids), Overlaps(u, info),
         info = NoAccount => {m.id : m \in messages} = ids,
         info # NoAccount => {m.id : m \in messages} = {m.id : m \in info} \cup ids
  PROVE  /\ accounts' \in [Users -> Infos] /\ saved' \in [Users -> SUBSET (1..MaxSent)]
         /\ overlapped' \subseteq Users /\ SavedInAccounts'
<1> DEFINE known == {m.id : m \in messages}
<1>1. messages # NoAccount /\ messages \in Infos
  BY ChatAssumption DEF Messages, Infos
<1>2. /\ accounts \in [Users -> Infos] /\ saved \in [Users -> SUBSET (1..MaxSent)]
      /\ overlapped \subseteq Users
  BY DEF ChatInv, RedisOK
<1>3. /\ accounts' \in [Users -> Infos] /\ accounts'[u] = messages
      /\ \A v \in Users : v # u => accounts'[v] = accounts[v]
  BY <1>1, <1>2 DEF Writes
<1>4. /\ saved' \in [Users -> SUBSET (1..MaxSent)] /\ saved'[u] = saved[u] \cup ids
      /\ \A v \in Users : v # u => saved'[v] = saved[v]
  BY <1>2 DEF Writes
<1>5. /\ overlapped' \subseteq Users /\ overlapped \subseteq overlapped'
      /\ accounts[u] # info => u \in overlapped'
  BY <1>2 DEF Overlaps
<1>6. SavedInAccounts'
  <2> SUFFICES ASSUME NEW v \in Users
               PROVE  /\ accounts'[v] = NoAccount => saved'[v] = {}
                      /\ accounts'[v] # NoAccount /\ v \notin overlapped' =>
                           saved'[v] = {m.id : m \in accounts'[v]}
    BY DEF SavedInAccounts
  <2>1. CASE v # u
    BY <1>3, <1>4, <1>5, <2>1 DEF ChatInv, SavedInAccounts
  <2>2. CASE v = u
    <3> SUFFICES ASSUME u \notin overlapped' PROVE saved'[u] = known
      BY <1>1, <1>3, <2>2
    <3>1. accounts[u] = info /\ u \notin overlapped
      BY <1>5
    <3>2. CASE info = NoAccount
      <4>1. saved[u] = {}
        BY <3>1, <3>2 DEF ChatInv, SavedInAccounts
      <4> QED BY <1>4, <3>2, <4>1
    <3>3. CASE info # NoAccount
      <4>1. saved[u] = {m.id : m \in info}
        BY <3>1, <3>3 DEF ChatInv, SavedInAccounts
      <4> QED BY <1>4, <3>3, <4>1
    <3> QED BY <3>2, <3>3
  <2> QED BY <2>1, <2>2
<1> QED BY <1>3, <1>4, <1>5, <1>6

LEMMA AskedRoomKeeps ==
  ASSUME ChatInv, RegisterRoom \/ LoginRoom
  PROVE  ChatInv'
<1>1. CASE RegisterRoom
  <2>1. /\ replies # << >> /\ R.cb = "registerRoom" /\ ComesIn
        /\ Writes(R.u, {}, {}) /\ Overlaps(R.u, NoAccount) /\ UNCHANGED <<ended, asks, sent>>
    BY <1>1 DEF RegisterRoom, Reply, R
  <2>2. R.u \in Users /\ NoAccount \in Infos /\ {} \in SUBSET Messages
    BY <2>1, HeadIs DEF Infos
  <2>3. /\ accounts' \in [Users -> Infos] /\ saved' \in [Users -> SUBSET (1..MaxSent)]
        /\ overlapped' \subseteq Users /\ SavedInAccounts'
    <3>1. {m.id : m \in {}} = {}
      OBVIOUS
    <3> QED BY <2>1, <2>2, <3>1, WriteKeeps
  <2> QED BY <2>1, <2>3, ComesInKeeps DEF ChatInv, RedisOK
<1>2. CASE LoginRoom
  <2>1. /\ replies # << >> /\ R.cb = "loginRoom" /\ UNCHANGED <<accounts, saved, overlapped>>
        /\ UNCHANGED <<ended, asks, sent>>
        /\ (Refuse(R.s) /\ UNCHANGED <<room, online, stranded>>) \/ ComesIn
    BY <1>2 DEF LoginRoom, Reply, R
  <2>2. CASE Refuse(R.s) /\ UNCHANGED <<room, online, stranded>>
    BY <2>1, <2>2, RefuseKeeps DEF Asking, Kept
  <2>3. CASE ComesIn
    <3>1. SavedInAccounts'
      BY <2>1 DEF ChatInv, SavedInAccounts
    <3> QED BY <2>1, <2>3, <3>1, ComesInKeeps DEF ChatInv, RedisOK
  <2> QED BY <2>1, <2>2, <2>3
<1> QED BY <1>1, <1>2

\* A message goes into the account that the callback had read.
LEMMA SaveKeeps ==
  ASSUME ChatInv, replies # << >>, R.cb \in {"sendFrom", "sendTo"}, SaveMessage
  PROVE  /\ accounts' \in [Users -> Infos] /\ saved' \in [Users -> SUBSET (1..MaxSent)]
         /\ overlapped' \subseteq Users /\ SavedInAccounts'
<1>1. R.u \in Users /\ R.info \in Infos /\ R.peer \in Users /\ R.id \in 1..MaxSent
  BY HeadIs
<1>2. CASE R.info = NoAccount
  <2>1. UNCHANGED <<accounts, saved, overlapped>>
    BY <1>2 DEF SaveMessage
  <2> QED BY <2>1 DEF ChatInv, RedisOK, SavedInAccounts
<1>3. CASE R.info # NoAccount
  <2> DEFINE m == [id |-> R.id, peer |-> R.peer, read |-> FALSE]
             messages == Pushed(R.info, m)
  <2>1. Writes(R.u, messages, {R.id}) /\ Overlaps(R.u, R.info)
    BY <1>3 DEF SaveMessage
  <2>2. R.info \in SUBSET Messages
    BY <1>1, <1>3 DEF Infos
  <2>3. m \in Messages /\ m.id = R.id
    BY <1>1 DEF Messages
  <2> HIDE DEF m
  <2>4. messages \in SUBSET Messages
    BY <2>2, <2>3 DEF Pushed
  <2>5. {k.id : k \in messages} = {k.id : k \in R.info} \cup {R.id}
    BY <2>3 DEF Pushed
  <2> HIDE DEF messages
  <2> QED BY <1>1, <1>3, <2>1, <2>4, <2>5, WriteKeeps
<1> QED BY <1>2, <1>3

\* A callback that answers nobody and leaves the room alone.
LEMMA QuietKeeps ==
  ASSUME ChatInv,
         /\ accounts' \in [Users -> Infos] /\ saved' \in [Users -> SUBSET (1..MaxSent)]
         /\ overlapped' \subseteq Users /\ SavedInAccounts',
         replies' \in Seq(Replies), \A s : Count(replies', s) = Count(replies, s),
         \A u : Leaving(replies, u) => Leaving(replies', u),
         UNCHANGED <<room, online, ended, asks, answers, sent, stranded>>
  PROVE  ChatInv'
<1>1. SocketsOK' /\ RedisOK'
  BY DEF ChatInv, SocketsOK, RedisOK
<1>2. AnswersDue' /\ InRoom'
  BY DEF ChatInv, AnswersDue, InRoom, Here
<1> QED BY <1>1, <1>2 DEF ChatInv

LEMMA SendKeeps ==
  ASSUME ChatInv, SendFrom \/ SendTo
  PROVE  ChatInv'
<1>1. /\ replies # << >> /\ R.cb \in {"sendFrom", "sendTo"} /\ SaveMessage
      /\ UNCHANGED <<room, online, ended, asks, answers, sent, stranded>>
  BY DEF SendFrom, SendTo, Reply, R
<1>2. /\ accounts' \in [Users -> Infos] /\ saved' \in [Users -> SUBSET (1..MaxSent)]
      /\ overlapped' \subseteq Users /\ SavedInAccounts'
  BY <1>1, SaveKeeps
<1>3. /\ R.u \in Users /\ R.peer \in Users /\ R.id \in 1..MaxSent
      /\ R.cb \notin Asking /\ R.cb # "leave"
  BY <1>1, HeadIs DEF Asking
<1> DEFINE r == SendReply("sendTo", R.peer, R.u, R.id)
<1>4. Done \/ GoesOn(r)
  BY DEF SendFrom, SendTo
<1>5. r \in Replies /\ r.cb \notin Asking /\ r.cb # "leave"
  <2>1. accounts'[R.peer] \in Infos
    BY <1>2, <1>3
  <2>2. r \in SendReplies
    BY <1>3, <2>1 DEF SendReply, SendReplies
  <2> QED BY <2>2 DEF Replies, SendReply, Asking
<1> HIDE DEF r
<1>6. /\ replies' \in Seq(Replies) /\ \A s : Count(replies', s) = Count(replies, s)
      /\ \A u : Leaving(replies, u) => Leaving(replies', u)
  <2>1. CASE Done
    BY <1>1, <1>3, <2>1, AfterDone DEF Leaves
  <2>2. CASE GoesOn(r)
    BY <1>1, <1>3, <1>5, <2>2, AfterGoesOn
  <2> QED BY <1>4, <2>1, <2>2
<1> QED BY <1>1, <1>2, <1>6, QuietKeeps

LEMMA MarkReadKeeps ==
  ASSUME ChatInv, MarkRead
  PROVE  ChatInv'
<1> DEFINE session == {m \in R.info : m.peer = R.peer}
           marked == {IF m \in session THEN [m EXCEPT !.read = TRUE] ELSE m : m \in R.info}
<1>1. /\ replies # << >> /\ R.cb = "read" /\ Done
      /\ UNCHANGED <<room, online, ended, asks, answers, sent, stranded>>
  BY DEF MarkRead, Reply, R
<1>2. \/ R.info # NoAccount /\ Writes(R.u, marked, {}) /\ Overlaps(R.u, R.info)
      \/ UNCHANGED <<accounts, saved, overlapped>>
  BY DEF MarkRead
<1>3. R.u \in Users /\ R.info \in Infos /\ R.peer \in Users
  BY <1>1, HeadIs
<1>4. /\ accounts' \in [Users -> Infos] /\ saved' \in [Users -> SUBSET (1..MaxSent)]
      /\ overlapped' \subseteq Users /\ SavedInAccounts'
  <2>1. CASE R.info # NoAccount /\ Writes(R.u, marked, {}) /\ Overlaps(R.u, R.info)
    <3>1. R.info \in SUBSET Messages
      BY <1>3, <2>1 DEF Infos
    <3>2. \A m \in Messages : /\ [m EXCEPT !.read = TRUE] \in Messages
                              /\ [m EXCEPT !.read = TRUE].id = m.id
      BY DEF Messages
    <3>3. marked \in SUBSET Messages
      BY <3>1, <3>2
    <3>4. {m.id : m \in marked} = {m.id : m \in R.info} \cup {}
      <4>1. \A m \in R.info : (IF m \in session THEN [m EXCEPT !.read = TRUE] ELSE m).id = m.id
        BY <3>1, <3>2
      <4> QED BY <4>1
    <3> HIDE DEF marked
    <3> QED BY <1>3, <2>1, <3>3, <3>4, WriteKeeps
  <2>2. CASE UNCHANGED <<accounts, saved, overlapped>>
    BY <2>2 DEF ChatInv, RedisOK, SavedInAccounts
  <2> QED BY <1>2, <2>1, <2>2
<1>5. /\ replies' \in Seq(Replies) /\ \A s : Count(replies', s) = Count(replies, s)
      /\ \A u : Leaving(replies, u) => Leaving(replies', u)
  BY <1>1, AfterDone DEF Asking, Leaves
<1> QED BY <1>1, <1>4, <1>5, QuietKeeps

LEMMA LeaveKeeps ==
  ASSUME ChatInv, Leave
  PROVE  ChatInv'
<1>1. /\ replies # << >> /\ R.cb = "leave" /\ Done /\ room' = room \ (R.u \cap R.info)
      /\ UNCHANGED <<accounts, online, ended, asks, answers, sent, stranded, saved, overlapped>>
  BY DEF Leave, LeftBy, Reply, R
<1>2. /\ replies' \in Seq(Replies) /\ \A s : Count(replies', s) = Count(replies, s)
      /\ \A u \in room' : Leaving(replies, u) => Leaving(replies', u)
  BY <1>1, AfterDone DEF Asking, Leaves
<1>3. SocketsOK' /\ RedisOK'
  BY <1>1, <1>2 DEF ChatInv, SocketsOK, RedisOK
<1>4. SavedInAccounts'
  BY <1>1 DEF ChatInv, SavedInAccounts
<1>5. AnswersDue'
  BY <1>1, <1>2 DEF ChatInv, AnswersDue
<1>6. InRoom'
  BY <1>1, <1>2 DEF ChatInv, InRoom, Here
<1> QED BY <1>3, <1>4, <1>5, <1>6 DEF ChatInv

-----------------------------------------------------------------------------
(* The theorems.                                                           *)

\* The handlers of server.js and their callbacks keep the invariant, in any
\* order in which redis replies and sockets come and go.
THEOREM ChatInvariance == ChatSpec => []ChatInv
<1>1. ChatInit => ChatInv
  BY ChatInitHolds
<1>2. ChatInv /\ [ChatNext]_chatVars => ChatInv'
  <2> SUFFICES ASSUME ChatInv, [ChatNext]_chatVars PROVE ChatInv'
    OBVIOUS
  <2>1. CASE \E s \in Sockets, cb \in {"registerUser", "loginUser"}, u \in Users : Ask(s, cb, u)
    BY <2>1, AskKeeps
  <2>2. CASE \E from, to \in Users : SendMsg(from, to)
    BY <2>2, SendMsgKeeps
  <2>3. CASE \E from, to \in Users : ReadAll(from, to)
    BY <2>3, ReadAllKeeps
  <2>4. CASE \E s \in Sockets : Disconnect(s)
    BY <2>4, DisconnectKeeps
  <2>5. CASE Callback
    BY <2>5, AskedUserKeeps, AskedRoomKeeps, SendKeeps, MarkReadKeeps, LeaveKeeps DEF Callback
  <2>6. CASE UNCHANGED chatVars
    BY <2>6 DEF chatVars, ChatInv, SocketsOK, RedisOK, SavedInAccounts, AnswersDue, InRoom, Here
  <2> QED BY <2>1, <2>2, <2>3, <2>4, <2>5, <2>6 DEF ChatNext
<1> QED BY <1>1, <1>2, PTL DEF ChatSpec

\* Every registration and login is answered once or waits for redis, and whoever
\* is in the room is about to leave it or has an entry in the registry: of a socket
\* that is connected, unless the answer came after the end of the socket or its
\* end took out another of its names (server.js:76 to 194).
THEOREM LoginsAlwaysAccountedFor == ChatSpec => []LoginsAreAccountedFor
<1>1. ChatInv => LoginsAreAccountedFor
  <2> SUFFICES ASSUME ChatInv PROVE LoginsAreAccountedFor
    OBVIOUS
  <2>1. ChatTypeOK
    <3>1. \A r \in Replies : r.cb \in Asking \cup {"sendFrom", "sendTo", "read", "leave"}
      <4>1. \A r \in AccountReplies \cup RoomReplies : r.cb \in Asking
        BY DEF AccountReplies, RoomReplies, Asking
      <4>2. \A r \in SendReplies \cup ReadReplies \cup LeaveReplies :
              r.cb \in {"sendFrom", "sendTo", "read", "leave"}
        BY DEF SendReplies, ReadReplies, LeaveReplies
      <4> QED BY <4>1, <4>2 DEF Replies
    <3>2. \A i \in DOMAIN replies : replies[i] \in Replies
      BY LenProperties, ElementOfSeq DEF ChatInv, RedisOK
    <3>3. \A i \in DOMAIN replies :
            replies[i].cb \in Asking \cup {"sendFrom", "sendTo", "read", "leave"}
      BY <3>1, <3>2
    <3>4. \A u \in Users : accounts[u] = NoAccount \/ accounts[u] \subseteq Messages
      BY DEF ChatInv, RedisOK, Infos
    <3>5. \A u \in Users : saved[u] \subseteq 1..MaxSent
      BY DEF ChatInv, RedisOK
    <3> QED BY <3>3, <3>4, <3>5 DEF ChatInv, SocketsOK, RedisOK, ChatTypeOK
  <2>2. OneAnswerEach
    BY DEF ChatInv, AnswersDue, Count, Waits, OneAnswerEach
  <2>3. RoomIsAccountedFor
    BY DEF ChatInv, InRoom, Here, Leaving, Leaves, RoomIsAccountedFor, IsLeaving
  <2> QED BY <2>1, <2>2, <2>3 DEF LoginsAreAccountedFor
<1> QED BY <1>1, ChatInvariance, PTL

\* No message is lost from an account unless a callback wrote back what it had
\* read before another one wrote (server.js:50 to 74, 198 to 272).
THEOREM MessagesAlwaysKept == ChatSpec => []MessagesAreKept
<1>1. ChatInv => MessagesAreKept
  BY DEF ChatInv, SavedInAccounts, MessagesAreKept
<1> QED BY <1>1, ChatInvariance, PTL

-----------------------------------------------------------------------------
(* The skip list: a level as a chain of nodes.                             *)

\* The nodes L, of keys k, in order along the pointers f of level i.
IsChain(k, f, L, i) ==
  /\ 0 \in L /\ L \subseteq DOMAIN f
  /\ \A n \in L : f[n][i] \in L \cup {NULL} /\ k[0] <= k[n]
  /\ \A n, m \in L : k[n] = k[m] => n = m
  /\ \A n, m \in L : k[n] < k[m] <=> f[n][i] # NULL /\ k[f[n][i]] <= k[m]

\* Before a key comes the node with the greatest smaller one.
LEMMA NodeBefore ==
  ASSUME NEW k, NEW L, \A n \in L : k[n] \in Nat, NEW c \in Nat, NEW some \in L, k[some] < c
  PROVE  \E p \in L : k[p] < c /\ \A m \in L : k[m] < c => k[m] <= k[p]
<1> DEFINE back == {c - k[m] : m \in {n \in L : k[n] < c}}
<1>1. back \subseteq Nat /\ back # {}
  <2>1. ASSUME NEW m \in L, k[m] < c
        PROVE  c - k[m] \in Nat
    <3>1. k[m] \in Nat
      OBVIOUS
    <3> QED BY <2>1, <3>1
  <2>2. c - k[some] \in back
    OBVIOUS
  <2> QED BY <2>1, <2>2
<1>2. PICK b \in back : \A x \in back : b <= x
  BY <1>1, LeastExists
<1>3. PICK p \in L : k[p] < c /\ b = c - k[p]
  OBVIOUS
<1>4. ASSUME NEW m \in L, k[m] < c
      PROVE  k[m] <= k[p]
  <2>1. c - k[p] <= c - k[m]
    BY <1>2, <1>3, <1>4
  <2>2. k[m] \in Nat /\ k[p] \in Nat
    OBVIOUS
  <2> QED BY <2>1, <2>2
<1> QED BY <1>3, <1>4

\* A chain is all that its pointers reach.
LEMMA ChainIsLinked ==
  ASSUME NEW k, NEW f, NEW L, NEW i, IsChain(k, f, L, i), \A n \in L : k[n] \in Nat, NULL \notin L
  PROVE  LinkedBy(f, i) = L
<1> DEFINE linked(S) == 0 \in S /\ \A n \in S : f[n][i] \in S \cup {NULL}
<1>1. LinkedBy(f, i) = {n \in DOMAIN f : \A S \in SUBSET DOMAIN f : linked(S) => n \in S}
  BY DEF LinkedBy
<1>2. linked(L) /\ L \in SUBSET DOMAIN f
  BY DEF IsChain
<1>3. ASSUME NEW S \in SUBSET DOMAIN f, linked(S)
      PROVE  L \subseteq S
  <2> SUFFICES ASSUME ~(L \subseteq S)
               PROVE  FALSE
    OBVIOUS
  <2> DEFINE out == {k[n] : n \in L \ S}
  <2>1. out \subseteq Nat /\ out # {}
    OBVIOUS
  <2>2. PICK b \in out : \A x \in out : b <= x
    BY <2>1, LeastExists
  <2>3. PICK n \in L \ S : b = k[n]
    OBVIOUS
  <2>4. k[n] \in Nat /\ k[0] \in Nat /\ 0 \in L /\ 0 \in S
    BY <1>3 DEF IsChain
  <2>5. k[0] < k[n]
    <3>1. k[0] <= k[n] /\ (k[0] = k[n] => 0 = n)
      BY <2>4 DEF IsChain
    <3> QED BY <2>3, <2>4, <3>1
  <2>6. PICK p \in L : k[p] < k[n] /\ \A m \in L : k[m] < k[n] => k[m] <= k[p]
    BY <2>4, <2>5, NodeBefore
  <2>7. p \in S
    <3>1. p \notin S => k[n] <= k[p]
      BY <2>2, <2>3
    <3>2. k[p] \in Nat
      OBVIOUS
    <3> QED BY <2>4, <2>6, <3>1, <3>2
  <2>8. PICK q : q = f[p][i]
    OBVIOUS
  <2>9. q # NULL /\ k[q] <= k[n] /\ q \in L
    BY <2>6, <2>8 DEF IsChain
  <2>10. k[p] < k[q]
    <3>1. k[q] <= k[q]
      BY <2>9
    <3> QED BY <2>8, <2>9, <3>1 DEF IsChain
  <2>11. ~(k[q] < k[n])
    <3>1. k[q] < k[n] => k[q] <= k[p]
      BY <2>6, <2>9
    <3>2. k[p] \in Nat /\ k[q] \in Nat
      BY <2>9
    <3> QED BY <2>10, <3>1, <3>2
  <2>12. k[q] = k[n]
    <3>1. k[q] \in Nat
      BY <2>9
    <3> QED BY <2>4, <2>9, <2>11, <3>1
  <2>13. q = n
    BY <2>9, <2>12 DEF IsChain
  <2>14. q \in S \cup {NULL}
    BY <1>3, <2>7, <2>8
  <2> QED BY <2>3, <2>9, <2>13, <2>14
<1> QED BY <1>1, <1>2, <1>3

\* Only the pointers of its own nodes matter to a chain.
LEMMA ChainSame ==
  ASSUME NEW k, NEW f, NEW L, NEW i, IsChain(k, f, L, i), NEW l, NEW g,
         DOMAIN f \subseteq DOMAIN g, \A n \in L : l[n] = k[n] /\ g[n][i] = f[n][i]
  PROVE  IsChain(l, g, L, i)
<1>1. 0 \in L /\ L \subseteq DOMAIN g
  BY DEF IsChain
<1>2. \A n \in L : g[n][i] \in L \cup {NULL} /\ l[0] <= l[n]
  BY <1>1 DEF IsChain
<1>3. \A n, m \in L : l[n] = l[m] => n = m
  BY DEF IsChain
<1>4. \A n, m \in L : l[n] < l[m] <=> g[n][i] # NULL /\ l[g[n][i]] <= l[m]
  <2> SUFFICES ASSUME NEW n \in L, NEW m \in L
               PROVE  l[n] < l[m] <=> g[n][i] # NULL /\ l[g[n][i]] <= l[m]
    OBVIOUS
  <2>1. k[n] < k[m] <=> f[n][i] # NULL /\ k[f[n][i]] <= k[m]
    BY DEF IsChain
  <2>2. f[n][i] # NULL => l[f[n][i]] = k[f[n][i]]
    BY DEF IsChain
  <2> QED BY <2>1, <2>2
<1> QED BY <1>1, <1>2, <1>3, <1>4 DEF IsChain

\* Linking a node behind the one before it.
LEMMA ChainInsert ==
  ASSUME NEW k, NEW f, NEW L, NEW i, IsChain(k, f, L, i), NULL \notin L, \A n \in L : k[n] \in Nat,
         NEW node, node # NULL, node \notin L, k[node] \in Nat, \A n \in L : k[n] # k[node],
         NEW p \in L, k[p] < k[node], \A m \in L : k[m] < k[node] => k[m] <= k[p],
         NEW g, L \cup {node} \subseteq DOMAIN g, g[node][i] = f[p][i], g[p][i] = node,
         \A n \in L : n # p => g[n][i] = f[n][i]
  PROVE  IsChain(k, g, L \cup {node}, i)
<1>1. 0 \in L /\ k[0] <= k[p] /\ k[0] \in Nat /\ k[p] \in Nat
  BY DEF IsChain
<1>2. \A n \in L \cup {node} : g[n][i] \in (L \cup {node}) \cup {NULL} /\ k[0] <= k[n]
  <2>1. k[0] <= k[node]
    BY <1>1
  <2>2. f[p][i] \in L \cup {NULL} /\ \A n \in L : f[n][i] \in L \cup {NULL} /\ k[0] <= k[n]
    BY DEF IsChain
  <2> QED BY <2>1, <2>2
<1>3. \A n, m \in L \cup {node} : k[n] = k[m] => n = m
  BY DEF IsChain
<1>4. ASSUME NEW n \in L \cup {node}, NEW m \in L \cup {node}
      PROVE  k[n] < k[m] <=> g[n][i] # NULL /\ k[g[n][i]] <= k[m]
  <2>0. k[n] \in Nat /\ k[m] \in Nat
    OBVIOUS
  <2>1. CASE n = p
    <3>1. m = node \/ (m \in L /\ k[m] # k[node])
      OBVIOUS
    <3>2. k[p] < k[m] <=> k[node] <= k[m]
      BY <1>1, <2>0, <3>1
    <3> QED BY <2>1, <3>2
  <2>2. CASE n = node
    <3>1. f[p][i] # NULL => f[p][i] \in L /\ k[f[p][i]] \in Nat /\ k[p] < k[f[p][i]]
      <4>1. f[p][i] # NULL => f[p][i] \in L
        BY DEF IsChain
      <4>2. f[p][i] # NULL => k[f[p][i]] <= k[f[p][i]]
        BY <4>1
      <4> QED BY <4>1, <4>2 DEF IsChain
    <3>2. f[p][i] # NULL => k[node] < k[f[p][i]]
      BY <1>1, <3>1
    <3>3. CASE m = node
      BY <2>0, <2>2, <3>1, <3>2, <3>3
    <3>4. CASE m \in L
      <4>1. k[p] < k[m] <=> f[p][i] # NULL /\ k[f[p][i]] <= k[m]
        BY <3>4 DEF IsChain
      <4>2. k[node] < k[m] <=> k[p] < k[m]
        BY <1>1, <2>0, <3>4
      <4> QED BY <2>2, <4>1, <4>2
    <3> QED BY <3>3, <3>4
  <2>3. CASE n # p /\ n # node
    <3>1. n \in L /\ g[n][i] = f[n][i] /\ k[n] # k[p]
      BY <2>3 DEF IsChain
    <3>2. CASE m \in L
      BY <3>1, <3>2 DEF IsChain
    <3>3. CASE m = node
      <4>1. k[n] < k[p] <=> f[n][i] # NULL /\ k[f[n][i]] <= k[p]
        BY <3>1 DEF IsChain
      <4>2. k[n] < k[node] <=> k[n] < k[p]
        BY <1>1, <2>0, <3>1
      <4>3. f[n][i] # NULL => f[n][i] \in L /\ k[f[n][i]] \in Nat /\ k[f[n][i]] # k[node]
        BY <3>1 DEF IsChain
      <4>4. f[n][i] # NULL => (k[f[n][i]] <= k[node] <=> k[f[n][i]] <= k[p])
        BY <1>1, <4>3
      <4> QED BY <3>1, <3>3, <4>1, <4>2, <4>4
    <3> QED BY <3>2, <3>3
  <2> QED BY <2>1, <2>2, <2>3
<1> QED BY <1>1, <1>2, <1>3, <1>4 DEF IsChain

\* Pointers g are f without the node behind p.
Unlinked(f, g, L, i, p, node) ==
  /\ p \in L /\ node \in L /\ node # 0 /\ f[p][i] = node
  /\ DOMAIN f \subseteq DOMAIN g /\ g[p][i] = f[node][i]
  /\ \A n \in L : n # p => g[n][i] = f[n][i]

LEMMA ChainRemove ==
  ASSUME NEW k, NEW f, NEW L, NEW i, IsChain(k, f, L, i), NULL \notin L, \A n \in L : k[n] \in Nat,
         NEW p, NEW node, NEW g, Unlinked(f, g, L, i, p, node)
  PROVE  IsChain(k, g, L \ {node}, i) /\ p # node /\ f[node][i] # node
<1> USE DEF Unlinked
<1>1. k[p] \in Nat /\ k[node] \in Nat /\ k[p] < k[node]
  <2>1. k[f[p][i]] <= k[node] /\ f[p][i] # NULL
    OBVIOUS
  <2> QED BY <2>1 DEF IsChain
<1>2. \A m \in L : k[p] < k[m] <=> k[node] <= k[m]
  BY DEF IsChain
<1>3. \A m \in L : k[node] < k[m] <=> f[node][i] # NULL /\ k[f[node][i]] <= k[m]
  BY DEF IsChain
<1>4. f[node][i] # node /\ p # node
  <2>1. ~(k[node] < k[node])
    BY <1>1
  <2>2. k[node] <= k[node]
    BY <1>1
  <2>3. node # NULL
    OBVIOUS
  <2> QED BY <1>1, <1>3, <2>1, <2>2, <2>3
<1>5. \A n \in L : f[n][i] = node => n = p
  <2> SUFFICES ASSUME NEW n \in L, f[n][i] = node
               PROVE  n = p
    OBVIOUS
  <2>1. k[n] < k[p] <=> k[node] <= k[p]
    BY DEF IsChain
  <2>2. k[n] < k[node] <=> k[node] <= k[node]
    BY DEF IsChain
  <2>3. k[p] < k[n] <=> k[node] <= k[n]
    BY <1>2
  <2>4. k[n] \in Nat
    OBVIOUS
  <2>5. k[n] = k[p]
    BY <1>1, <2>1, <2>2, <2>3, <2>4
  <2> QED BY <2>5 DEF IsChain
<1>6. \A n \in L \ {node} : g[n][i] \in (L \ {node}) \cup {NULL} /\ k[0] <= k[n]
  <2>1. \A n \in L : f[n][i] \in L \cup {NULL} /\ k[0] <= k[n]
    BY DEF IsChain
  <2> QED BY <1>4, <1>5, <2>1
<1>7. ASSUME NEW n \in L \ {node}, NEW m \in L \ {node}
      PROVE  k[n] < k[m] <=> g[n][i] # NULL /\ k[g[n][i]] <= k[m]
  <2>1. CASE n # p
    BY <2>1 DEF IsChain
  <2>2. CASE n = p
    <3>1. k[m] # k[node] /\ k[m] \in Nat
      BY DEF IsChain
    <3>2. k[p] < k[m] <=> k[node] < k[m]
      BY <1>1, <1>2, <3>1
    <3> QED BY <1>3, <2>2, <3>2
  <2> QED BY <2>1, <2>2
<1>8. 0 \in L \ {node} /\ L \ {node} \subseteq DOMAIN g /\ \A n, m \in L \ {node} : k[n] = k[m] => n = m
  BY DEF IsChain
<1> QED BY <1>4, <1>6, <1>7, <1>8 DEF IsChain

-----------------------------------------------------------------------------
(* The invariant of the skip list.                                         *)

\* the lists as a function, to name all of them at once
OnLevels == [i \in Levels |-> OnLevel(i)]

\* types: numbered nodes, positive keys but for header_, pointers to nodes
SkipShape ==
  /\ \E m \in Nat : SkipNodes = 0..m
  /\ key \in [SkipNodes -> Nat] /\ key[0] = 0
  /\ \A n \in SkipNodes \ {0} : key[n] \in SkipKeys
  /\ forward \in [SkipNodes -> [Levels -> SkipNodes \cup {NULL}]]
  /\ skip_list_level \in Levels /\ element_count \in Nat

\* the node that is being taken from its levels, from the lowest one up
Deleting == IF writer.op = "delete" THEN {writer.node} ELSE {}

\* Every level is a chain, those above the top are empty, a list is part of the
\* ones below it, and a node is on a level if it has a successor there.
SkipLists ==
  /\ OnLevels \in [Levels -> SUBSET SkipNodes]
  /\ \A i \in Levels : IsChain(key, forward, OnLevels[i], i)
  /\ \A i \in Levels : i > skip_list_level => OnLevels[i] = {0}
  /\ \A i, j \in Levels : i <= j => OnLevels[j] \subseteq OnLevels[i] \cup Deleting
  /\ \A n \in OnLevels[0], i \in Levels : n \in OnLevels[i] \/ forward[n][i] = NULL

\* p is where the search for key c leaves the list L.
IsBefore(p, L, c) == p \in L /\ key[p] < c /\ \A m \in L : key[m] < c => key[m] <= key[p]

SkipWriters ==
  {Idle, [op |-> "lower"]}
    \cup [op : {"insert"}, node : SkipNodes \ {0}, top : 1..TopLevel, level : Nat, update : [Levels -> SkipNodes]]
    \cup [op : {"delete"}, node : SkipNodes \ {0}, level : Nat \ {0}, update : [Levels -> SkipNodes]]

\* an insert: the node is on the levels linked so far, its places are still right
Inserting ==
  /\ writer.top <= skip_list_level /\ writer.level <= writer.top + 1
  /\ \A i \in Levels :
       /\ writer.node \in OnLevels[i] <=> i < writer.level
       /\ \A n \in OnLevels[i] : key[n] = key[writer.node] => n = writer.node
       /\ IsBefore(writer.update[i], OnLevels[i], key[writer.node])
       /\ i >= writer.level => forward[writer.node][i] = NULL
  /\ skip_list_level > writer.top => OnLevels[skip_list_level] # {0}

\* a delete: the node has left the levels below and still points into the lists
Unlinking ==
  /\ writer.level <= skip_list_level + 1
  /\ \A i \in Levels :
       /\ i < writer.level => writer.node \notin OnLevels[i]
       /\ IsBefore(writer.update[i], OnLevels[i], key[writer.node])
       /\ forward[writer.node][i] \in OnLevels[i] \cup {NULL}
  /\ \A i, j \in Levels :
       writer.level <= i /\ i <= j /\ writer.node \in OnLevels[j] => writer.node \in OnLevels[i]

\* what the count has not seen yet
Ahead == IF writer.op = "insert" /\ writer.level > 0 THEN 1 ELSE 0
Behind == IF writer.op \in {"delete", "lower"} THEN 1 ELSE 0

SkipWork ==
  /\ writer \in SkipWriters
  /\ writer.op = "insert" => Inserting
  /\ writer.op = "delete" => Unlinking
  /\ writer = Idle /\ skip_list_level > 0 => OnLevels[skip_list_level] # {0}
  /\ Cardinality(OnLevels[0]) + Behind = element_count + 1 + Ahead

\* The nodes F that a search can reach: from those that were deleted while it
\* ran it finds only what was there meanwhile.
Fresh(F) ==
  /\ \A i \in Levels : OnLevels[i] \subseteq F
  /\ writer.op = "insert" => writer.node \in F
  /\ \A n \in F, i \in Levels : forward[n][i] \in F \cup {NULL}
  /\ \A n \in F \ OnLevels[0] :
       forward[n][0] # NULL /\ key[forward[n][0]] = search.key => TRUE \in search.was

\* the searches that have begun
SkipSearches ==
  [pc : {"test", "compare", "move", "last", "found", "missed", "crashed"}, key : SkipKeys, level : Levels,
   current : SkipNodes, was : SUBSET BOOLEAN, deletes : BOOLEAN, inserts : BOOLEAN]

\* what holds of every search that runs
SoFar ==
  /\ search.key \in Present => TRUE \in search.was
  /\ search.key \notin Present => FALSE \in search.was
  /\ writer.op \in {"delete", "lower"} => search.deletes
  /\ search.pc = "last" => search.level = 0
  /\ \E F \in SUBSET SkipNodes : Fresh(F) /\ search.current \in F

\* where a search is that no delete has disturbed
Undisturbed ==
  /\ search.current \in OnLevels[search.level] /\ key[search.current] < search.key
  /\ search.pc \in {"compare", "move"} => Read # NULL
  /\ search.pc = "move" => key[Read] < search.key
  /\ search.pc = "last" /\ ~search.inserts /\ FALSE \notin search.was => Read # NULL /\ key[Read] = search.key

SkipSearch ==
  /\ search \in SkipSearches \cup {[pc |-> "none"]}
  /\ Searching => SoFar /\ (search.deletes \/ Undisturbed)
  /\ SearchesAreLinearizable

SkipInv == SkipShape /\ SkipLists /\ SkipWork /\ SkipSearch

-----------------------------------------------------------------------------
(* Linking and unlinking a node at a level.                                *)

\* What follows the last node before another one is that one.
LEMMA ChainNext ==
  ASSUME NEW k, NEW f, NEW L, NEW i, IsChain(k, f, L, i), NULL \notin L, \A n \in L : k[n] \in Nat,
         NEW p \in L, NEW node \in L, k[p] < k[node], \A m \in L : k[m] < k[node] => k[m] <= k[p]
  PROVE  f[p][i] = node
<1> PICK q : q = f[p][i]
  OBVIOUS
<1>1. q \in L /\ k[q] <= k[node]
  BY DEF IsChain
<1>2. k[p] < k[q]
  <2>1. k[q] <= k[q]
    BY <1>1
  <2> QED BY <1>1, <2>1 DEF IsChain
<1>3. ~(k[q] < k[node])
  <2>1. k[q] < k[node] => k[q] <= k[p]
    BY <1>1
  <2> QED BY <1>1, <1>2, <2>1
<1>4. k[q] = k[node]
  BY <1>1, <1>3
<1> QED BY <1>1, <1>4 DEF IsChain

\* what the proofs below use of the shape
ShapeTypes ==
  /\ SkipNodes \subseteq Nat /\ 0 \in SkipNodes /\ NULL \notin SkipNodes /\ IsFiniteSet(SkipNodes)
  /\ \A n \in SkipNodes : key[n] \in Nat
  /\ DOMAIN forward = SkipNodes
  /\ Cardinality(SkipNodes) \in Nat \ {0} /\ SkipNodes = 0..Cardinality(SkipNodes) - 1
  /\ 0 \in Levels /\ Levels \subseteq Nat

LEMMA ShapeFacts == SkipShape => ShapeTypes
<1> SUFFICES ASSUME SkipShape
             PROVE  ShapeTypes
  OBVIOUS
<1>1. PICK m \in Nat : SkipNodes = 0..m
  BY DEF SkipShape
<1>2. Cardinality(0..m) = m - 0 + 1 /\ IsFiniteSet(0..m)
  BY FS_Interval
<1>3. NULL \notin 0..m /\ 0..m \subseteq Nat /\ 0 \in 0..m
  BY SkipAssumption
<1>4. DOMAIN forward = SkipNodes /\ \A n \in SkipNodes : key[n] \in Nat
  BY DEF SkipShape
<1>5. m + 1 \in Nat \ {0} /\ 0..m = 0..(m + 1) - 1
  OBVIOUS
<1>6. Cardinality(SkipNodes) = m + 1
  BY <1>1, <1>2
<1>7. 0 \in Levels /\ Levels \subseteq Nat
  BY SkipAssumption DEF Levels
<1> QED BY <1>1, <1>2, <1>3, <1>4, <1>5, <1>6, <1>7 DEF ShapeTypes

\* Chains are the lists, before a step and after it.
LEMMA ListsAre ==
  ASSUME SkipShape, NEW M \in [Levels -> SUBSET SkipNodes], \A i \in Levels : IsChain(key, forward, M[i], i)
  PROVE  OnLevels = M
<1>1. ASSUME NEW i \in Levels
      PROVE  OnLevel(i) = M[i]
  <2>1. \A n \in M[i] : key[n] \in Nat
    BY ShapeFacts DEF ShapeTypes
  <2>2. NULL \notin M[i]
    BY ShapeFacts DEF ShapeTypes
  <2>3. LinkedBy(forward, i) = M[i]
    BY <2>1, <2>2, ChainIsLinked
  <2> QED BY <2>3 DEF OnLevel
<1> QED BY <1>1 DEF OnLevels

LEMMA ListsBecome ==
  ASSUME SkipShape', NEW M \in [Levels -> SUBSET SkipNodes'], \A i \in Levels : IsChain(key', forward', M[i], i)
  PROVE  OnLevels' = M
<1>0. ShapeTypes'
  BY ShapeFacts, PTL
<1>1. ASSUME NEW i \in Levels
      PROVE  OnLevel(i)' = M[i]
  <2>1. \A n \in M[i] : key'[n] \in Nat
    BY <1>0 DEF ShapeTypes
  <2>2. NULL \notin M[i]
    BY <1>0 DEF ShapeTypes
  <2>3. LinkedBy(forward', i) = M[i]
    BY <2>1, <2>2, ChainIsLinked
  <2> QED BY <2>3 DEF OnLevel, LinkedBy
<1> QED BY <1>1 DEF OnLevels, Levels

\* update[] has, of every level, the node behind which the key belongs.
LEMMA UpdateIsRight ==
  ASSUME SkipShape, SkipLists, NEW k \in SkipKeys
  PROVE  /\ Update(k) \in [Levels -> SkipNodes]
         /\ \A i \in Levels : IsBefore(Update(k)[i], OnLevels[i], k)
<1>0. k \in Nat /\ 0 < k
  BY SkipAssumption
<1>1. ASSUME NEW i \in Levels
      PROVE  IsBefore(Update(k)[i], OnLevels[i], k)
  <2>1. OnLevel(i) = OnLevels[i] /\ 0 \in OnLevels[i] /\ key[0] = 0
    BY <1>1 DEF OnLevels, SkipLists, IsChain, SkipShape
  <2>2. CASE i > skip_list_level
    <3>1. OnLevels[i] = {0}
      BY <2>2 DEF SkipLists
    <3>2. Update(k)[i] = 0
      BY <2>2 DEF Update
    <3> QED BY <1>0, <2>1, <3>1, <3>2 DEF IsBefore
  <2>3. CASE ~(i > skip_list_level)
    <3>1. Update(k)[i] = CHOOSE n \in OnLevel(i) :
                           key[n] < k /\ \A m \in OnLevel(i) : key[m] < k => key[m] <= key[n]
      BY <2>3 DEF Update
    <3>2. \A n \in OnLevels[i] : key[n] \in Nat
      BY ShapeFacts DEF ShapeTypes, SkipLists
    <3>3. \E n \in OnLevels[i] : key[n] < k /\ \A m \in OnLevels[i] : key[m] < k => key[m] <= key[n]
      BY <1>0, <2>1, <3>2, NodeBefore
    <3> QED BY <2>1, <3>1, <3>3 DEF IsBefore
  <2> QED BY <2>2, <2>3
<1>2. \A i \in Levels : Update(k)[i] \in SkipNodes
  BY <1>1 DEF IsBefore, SkipLists
<1>3. DOMAIN Update(k) = Levels /\ Update(k) = [i \in Levels |-> Update(k)[i]]
  BY DEF Update
<1> QED BY <1>1, <1>2, <1>3

SkipWrites == SkipShape /\ SkipLists /\ SkipWork

LEMMA MaxOfTwo ==
  ASSUME NEW a \in Nat, NEW b \in Nat
  PROVE  Max({a, b}) \in {a, b} /\ a <= Max({a, b}) /\ b <= Max({a, b})
<1>1. \E x \in {a, b} : \A y \in {a, b} : x >= y
  OBVIOUS
<1> QED BY <1>1 DEF Max

\* one pointer changes
LEMMA OnePointer ==
  ASSUME NEW A, NEW B, NEW C, NEW f \in [A -> [B -> C]], NEW a \in A, NEW b \in B, NEW c \in C
  PROVE  LET g == [f EXCEPT ![a][b] = c]
         IN  /\ g \in [A -> [B -> C]] /\ g[a][b] = c
             /\ \A n \in A, j \in B : n # a \/ j # b => g[n][j] = f[n][j]
<1> DEFINE g == [f EXCEPT ![a][b] = c]
<1>1. g = [f EXCEPT ![a] = [f[a] EXCEPT ![b] = c]] /\ f[a] \in [B -> C]
  OBVIOUS
<1>2. PICK h : h = [f[a] EXCEPT ![b] = c]
  OBVIOUS
<1>3. h \in [B -> C] /\ h[b] = c /\ \A j \in B : j # b => h[j] = f[a][j]
  BY <1>1, <1>2
<1>4. g \in [A -> [B -> C]] /\ g[a] = h /\ \A n \in A : n # a => g[n] = f[n]
  BY <1>1, <1>2, <1>3
<1> HIDE DEF g
<1>5. g[a][b] = c /\ \A n \in A, j \in B : n # a \/ j # b => g[n][j] = f[n][j]
  BY <1>3, <1>4
<1>6. g \in [A -> [B -> C]]
  BY <1>4
<1> QED BY <1>5, <1>6 DEF g

LEMMA TwoPointers ==
  ASSUME NEW A, NEW B, NEW C, NEW f \in [A -> [B -> C]], NEW a \in A, NEW d \in A, a # d, NEW b \in B,
         NEW c \in C, NEW e \in C, NEW g, g = [f EXCEPT ![a][b] = c, ![d][b] = e]
  PROVE  g \in [A -> [B -> C]]
<1>1. ASSUME NEW n \in A
      PROVE  g[n] \in [B -> C]
  <2>1. CASE n = a
    BY <2>1
  <2>2. CASE n = d
    BY <2>2
  <2>3. CASE n \notin {a, d}
    BY <2>3
  <2> QED BY <2>1, <2>2, <2>3
<1>2. DOMAIN g = A /\ g = [x \in A |-> g[x]]
  OBVIOUS
<1> QED BY <1>1, <1>2

\* Pointers of one level change, of node and p: the rest of forward stays.
Spliced(i, p, node) ==
  /\ forward'[p][i] = node /\ forward'[node][i] = forward[p][i]
  /\ forward' \in [SkipNodes -> [Levels -> SkipNodes \cup {NULL}]]
  /\ \A n \in SkipNodes, j \in Levels :
       (j = i => n \notin {p, node}) => forward'[n][j] = forward[n][j]

LEMMA Splicing ==
  ASSUME SkipShape, NEW i \in Levels, NEW p \in SkipNodes, NEW node \in SkipNodes, p # node,
         forward' = [forward EXCEPT ![node][i] = forward[p][i], ![p][i] = node]
  PROVE  Spliced(i, p, node)
<1>1. forward \in [SkipNodes -> [Levels -> SkipNodes \cup {NULL}]]
  BY DEF SkipShape
<1>2. forward[p][i] \in SkipNodes \cup {NULL} /\ node \in SkipNodes \cup {NULL}
  BY <1>1
<1>3. forward'[p][i] = node
  BY <1>1, <1>2
<1>4. forward'[node][i] = forward[p][i]
  BY <1>1, <1>2
<1>5. forward' \in [SkipNodes -> [Levels -> SkipNodes \cup {NULL}]]
  BY <1>1, <1>2, TwoPointers
<1>6. ASSUME NEW n \in SkipNodes, NEW j \in Levels, j = i => n \notin {p, node}
      PROVE  forward'[n][j] = forward[n][j]
  BY <1>1, <1>2, <1>6
<1> QED BY <1>3, <1>4, <1>5, <1>6 DEF Spliced

\* A level gains a node, the others stay.
LEMMA Linking ==
  ASSUME SkipShape, SkipLists, NEW i \in Levels, NEW node \in SkipNodes \ {0}, node \notin OnLevels[i],
         \A n \in OnLevels[i] : key[n] # key[node],
         NEW p, IsBefore(p, OnLevels[i], key[node]),
         Spliced(i, p, node), UNCHANGED <<key, skip_list_level, element_count>>
  PROVE  /\ SkipShape'
         /\ OnLevels' = [OnLevels EXCEPT ![i] = @ \cup {node}]
         /\ \A j \in Levels : IsChain(key', forward', OnLevels'[j], j)
         /\ p # node
<1>0. ShapeTypes
  BY ShapeFacts
<1>1. p \in OnLevels[i] /\ p \in SkipNodes /\ p # node /\ key[p] < key[node]
  BY DEF IsBefore, SkipLists
<1>2. /\ forward'[p][i] = node /\ forward'[node][i] = forward[p][i]
      /\ forward' \in [SkipNodes -> [Levels -> SkipNodes \cup {NULL}]]
      /\ \A n \in SkipNodes, j \in Levels :
           (j = i => n \notin {p, node}) => forward'[n][j] = forward[n][j]
  BY DEF Spliced
<1>3. SkipShape'
  BY <1>2 DEF SkipShape, SkipNodes, Levels
<1> DEFINE M == [OnLevels EXCEPT ![i] = @ \cup {node}]
<1>4. M \in [Levels -> SUBSET SkipNodes'] /\ SkipNodes' = SkipNodes
  <2>1. SkipNodes' = SkipNodes /\ OnLevels \in [Levels -> SUBSET SkipNodes]
    BY DEF SkipNodes, SkipLists
  <2>2. OnLevels[i] \cup {node} \in SUBSET SkipNodes
    BY <2>1
  <2> QED BY <2>1, <2>2
<1>5. OnLevels \in [Levels -> SUBSET SkipNodes] /\ \A j \in Levels : IsChain(key, forward, OnLevels[j], j)
  BY DEF SkipLists
<1>6. ASSUME NEW j \in Levels
      PROVE  IsChain(key', forward', M[j], j)
  <2>1. CASE j # i
    <3>1. M[j] = OnLevels[j]
      BY <1>5, <2>1
    <3>2. \A n \in OnLevels[j] : key'[n] = key[n] /\ forward'[n][j] = forward[n][j]
      BY <1>2, <1>5, <2>1
    <3>3. DOMAIN forward \subseteq DOMAIN forward'
      BY <1>0, <1>2 DEF ShapeTypes
    <3>4. IsChain(key', forward', OnLevels[j], j)
      BY <1>5, <3>2, <3>3, ChainSame
    <3> QED BY <3>1, <3>4
  <2>2. CASE j = i
    <3>1. M[j] = OnLevels[i] \cup {node}
      BY <1>5, <2>2
    <3>2. NULL \notin OnLevels[i] /\ (\A n \in OnLevels[i] : key[n] \in Nat) /\ node # NULL /\ key[node] \in Nat
      BY <1>0, <1>5 DEF ShapeTypes
    <3>3. \A m \in OnLevels[i] : key[m] < key[node] => key[m] <= key[p]
      BY DEF IsBefore
    <3>4. OnLevels[i] \cup {node} \subseteq DOMAIN forward'
      BY <1>2, <1>5
    <3>5. \A n \in OnLevels[i] : n # p => forward'[n][i] = forward[n][i]
      BY <1>2, <1>5
    <3>6. IsChain(key, forward, OnLevels[i], i)
      BY <1>5
    <3>7. IsChain(key, forward', OnLevels[i] \cup {node}, i)
      <4>1. PICK L : L = OnLevels[i]
        OBVIOUS
      <4>2. PICK g : g = forward'
        OBVIOUS
      <4>3. IsChain(key, g, L \cup {node}, i)
        <5>1. IsChain(key, forward, L, i) /\ NULL \notin L /\ \A n \in L : key[n] \in Nat
          BY <3>2, <3>6, <4>1
        <5>2. node # NULL /\ node \notin L /\ key[node] \in Nat /\ \A n \in L : key[n] # key[node]
          BY <3>2, <4>1
        <5>3. p \in L /\ key[p] < key[node] /\ \A m \in L : key[m] < key[node] => key[m] <= key[p]
          BY <1>1, <3>3, <4>1
        <5>4. L \cup {node} \subseteq DOMAIN g /\ g[node][i] = forward[p][i] /\ g[p][i] = node
          BY <1>2, <3>4, <4>1, <4>2
        <5>5. \A n \in L : n # p => g[n][i] = forward[n][i]
          BY <3>5, <4>1, <4>2
        <5> QED BY <5>1, <5>2, <5>3, <5>4, <5>5, ChainInsert
      <4> QED BY <4>1, <4>2, <4>3
    <3> QED BY <2>2, <3>1, <3>7
  <2> QED BY <2>1, <2>2
<1>7. OnLevels' = M
  BY <1>3, <1>4, <1>6, ListsBecome
<1> QED BY <1>1, <1>2, <1>3, <1>6, <1>7

\* One pointer of a level changes, of p, to the node after node.
Bypassed(i, p, node) ==
  /\ forward'[p][i] = forward[node][i]
  /\ forward' \in [SkipNodes -> [Levels -> SkipNodes \cup {NULL}]]
  /\ \A n \in SkipNodes, j \in Levels : n # p \/ j # i => forward'[n][j] = forward[n][j]

LEMMA Bypassing ==
  ASSUME SkipShape, NEW i \in Levels, NEW p \in SkipNodes, NEW node \in SkipNodes,
         forward' = [forward EXCEPT ![p][i] = forward[node][i]]
  PROVE  Bypassed(i, p, node)
<1>1. forward \in [SkipNodes -> [Levels -> SkipNodes \cup {NULL}]]
  BY DEF SkipShape
<1>2. forward[node][i] \in SkipNodes \cup {NULL}
  BY <1>1
<1> QED BY <1>1, <1>2, OnePointer DEF Bypassed

\* A level loses a node, the others stay.
LEMMA UnlinkingOne ==
  ASSUME SkipShape, SkipLists, NEW i \in Levels, NEW node \in OnLevels[i] \ {0},
         NEW p \in OnLevels[i], forward[p][i] = node,
         Bypassed(i, p, node), UNCHANGED <<key, skip_list_level, element_count>>
  PROVE  /\ SkipShape'
         /\ OnLevels' = [OnLevels EXCEPT ![i] = @ \ {node}]
         /\ \A j \in Levels : IsChain(key', forward', OnLevels'[j], j)
         /\ p # node /\ forward[node][i] # node
<1>0. ShapeTypes
  BY ShapeFacts
<1>1. p \in SkipNodes /\ node \in SkipNodes
  BY DEF SkipLists
<1>2. /\ forward'[p][i] = forward[node][i]
      /\ forward' \in [SkipNodes -> [Levels -> SkipNodes \cup {NULL}]]
      /\ \A n \in SkipNodes, j \in Levels : n # p \/ j # i => forward'[n][j] = forward[n][j]
  BY DEF Bypassed
<1>3. SkipShape'
  BY <1>2 DEF SkipShape, SkipNodes, Levels
<1> DEFINE M == [OnLevels EXCEPT ![i] = @ \ {node}]
<1>5. OnLevels \in [Levels -> SUBSET SkipNodes] /\ \A j \in Levels : IsChain(key, forward, OnLevels[j], j)
  BY DEF SkipLists
<1>4. M \in [Levels -> SUBSET SkipNodes'] /\ SkipNodes' = SkipNodes
  <2>1. SkipNodes' = SkipNodes
    BY DEF SkipNodes
  <2>2. OnLevels[i] \ {node} \in SUBSET SkipNodes
    BY <1>5
  <2> QED BY <1>5, <2>1, <2>2
<1>6. ASSUME NEW j \in Levels
      PROVE  IsChain(key', forward', M[j], j) /\ (j = i => p # node /\ forward[node][i] # node)
  <2>3. DOMAIN forward \subseteq DOMAIN forward'
    BY <1>0, <1>2 DEF ShapeTypes
  <2>1. CASE j # i
    <3>1. M[j] = OnLevels[j]
      BY <1>5, <2>1
    <3>2. \A n \in OnLevels[j] : key'[n] = key[n] /\ forward'[n][j] = forward[n][j]
      BY <1>2, <1>5, <2>1
    <3>4. IsChain(key', forward', OnLevels[j], j)
      BY <1>5, <2>3, <3>2, ChainSame
    <3> QED BY <2>1, <3>1, <3>4
  <2>2. CASE j = i
    <3>1. M[j] = OnLevels[i] \ {node}
      BY <1>5, <2>2
    <3>2. NULL \notin OnLevels[i] /\ \A n \in OnLevels[i] : key[n] \in Nat
      BY <1>0, <1>5 DEF ShapeTypes
    <3>5. \A n \in OnLevels[i] : n # p => forward'[n][i] = forward[n][i]
      BY <1>2, <1>5
    <3>6. IsChain(key, forward, OnLevels[i], i)
      BY <1>5
    <3>7. IsChain(key, forward', OnLevels[i] \ {node}, i) /\ p # node /\ forward[node][i] # node
      <4>1. PICK L : L = OnLevels[i]
        OBVIOUS
      <4>2. PICK g : g = forward'
        OBVIOUS
      <4>3. IsChain(key, g, L \ {node}, i) /\ p # node /\ forward[node][i] # node
        <5>1. IsChain(key, forward, L, i) /\ NULL \notin L /\ \A n \in L : key[n] \in Nat
          BY <3>2, <3>6, <4>1
        <5>2. p \in L /\ node \in L /\ node # 0 /\ forward[p][i] = node
          BY <4>1
        <5>3. DOMAIN forward \subseteq DOMAIN g /\ g[p][i] = forward[node][i]
          BY <1>2, <2>3, <4>2
        <5>4. \A n \in L : n # p => g[n][i] = forward[n][i]
          BY <3>5, <4>1, <4>2
        <5>5. Unlinked(forward, g, L, i, p, node)
          BY <5>2, <5>3, <5>4 DEF Unlinked
        <5> QED BY <5>1, <5>5, ChainRemove
      <4> QED BY <4>1, <4>2, <4>3
    <3> QED BY <2>2, <3>1, <3>7
  <2> QED BY <2>1, <2>2
<1>7. OnLevels' = M
  BY <1>3, <1>4, <1>6, ListsBecome
<1> QED BY <1>3, <1>6, <1>7

-----------------------------------------------------------------------------
(* Writers.                                                                *)

\* what a writer is by its op
LEMMA WriterKinds ==
  ASSUME writer \in SkipWriters
  PROVE  /\ writer.op \in {"none", "insert", "delete", "lower"}
         /\ writer.op = "none" <=> writer = Idle
         /\ writer.op = "insert" =>
              writer \in [op : {"insert"}, node : SkipNodes \ {0}, top : 1..TopLevel, level : Nat,
                          update : [Levels -> SkipNodes]]
         /\ writer.op = "delete" =>
              writer \in [op : {"delete"}, node : SkipNodes \ {0}, level : Nat \ {0}, update : [Levels -> SkipNodes]]
BY DEF SkipWriters, Idle

\* Now one lemma per action of a writer.
LEMMA InsertNewKeeps ==
  ASSUME SkipWrites, NEW k \in SkipKeys, NEW top \in 1..TopLevel, InsertNew(k, top)
  PROVE  SkipWrites' /\ OnLevels' = OnLevels
<1> PICK node : node = Cardinality(SkipNodes)
  OBVIOUS
<1>1. /\ writer = Idle /\ k \notin Present
      /\ key' = [n \in SkipNodes \cup {node} |-> IF n = node THEN k ELSE key[n]]
      /\ forward' = [n \in SkipNodes \cup {node} |->
                       IF n = node THEN [i \in Levels |-> NULL] ELSE forward[n]]
      /\ writer' = [op |-> "insert", node |-> node, top |-> top, level |-> 0, update |-> Update(k)]
      /\ skip_list_level' = Max({top, skip_list_level}) /\ element_count' = element_count
  BY DEF InsertNew
<1>2. SkipShape /\ SkipLists /\ SkipWork
  BY DEF SkipWrites
<1>3. ShapeTypes
  BY <1>2, ShapeFacts
<1>4. node \in Nat \ {0} /\ SkipNodes = 0..node - 1 /\ node \notin SkipNodes /\ 0 \in SkipNodes
  BY <1>3 DEF ShapeTypes
<1>5. SkipNodes' = SkipNodes \cup {node}
  BY <1>1 DEF SkipNodes
<1>6. skip_list_level' \in Levels /\ top <= skip_list_level' /\ skip_list_level <= skip_list_level'
      /\ skip_list_level' \in {top, skip_list_level} /\ skip_list_level \in Levels /\ top \in Levels
  <2>1. skip_list_level \in Nat /\ top \in Nat /\ skip_list_level \in Levels /\ top \in Levels
    BY <1>2, SkipAssumption DEF SkipShape, Levels
  <2> QED BY <1>1, <2>1, MaxOfTwo
<1>7. key'[node] = k /\ \A n \in SkipNodes : key'[n] = key[n]
  BY <1>1, <1>4
<1>8. /\ \A i \in Levels : forward'[node][i] = NULL
      /\ \A n \in SkipNodes : forward'[n] = forward[n]
  BY <1>1, <1>4
<1>9. SkipShape'
  <2>1. (\E m \in Nat : SkipNodes = 0..m)'
    <3>1. SkipNodes \cup {node} = 0..node
      <4>1. (0..node - 1) \cup {node} = 0..node
        BY <1>4
      <4> QED BY <1>4, <4>1
    <3> QED BY <1>4, <1>5, <3>1
  <2>2. key' \in [SkipNodes' -> Nat] /\ key'[0] = 0
    <3>1. k \in Nat /\ key \in [SkipNodes -> Nat] /\ key[0] = 0
      BY <1>2, SkipAssumption DEF SkipShape
    <3> QED BY <1>1, <1>4, <1>5, <1>7, <3>1
  <2>3. \A n \in SkipNodes' \ {0} : key'[n] \in SkipKeys
    BY <1>2, <1>5, <1>7 DEF SkipShape
  <2>4. forward' \in [SkipNodes' -> [Levels -> SkipNodes' \cup {NULL}]]
    <3>1. forward \in [SkipNodes -> [Levels -> SkipNodes \cup {NULL}]]
      BY <1>2 DEF SkipShape
    <3>2. \A n \in SkipNodes : forward[n] \in [Levels -> SkipNodes' \cup {NULL}]
      BY <1>5, <3>1
    <3>3. [i \in Levels |-> NULL] \in [Levels -> SkipNodes' \cup {NULL}]
      OBVIOUS
    <3> QED BY <1>1, <1>5, <3>2, <3>3
  <2> QED BY <1>1, <1>2, <1>6, <2>1, <2>2, <2>3, <2>4 DEF SkipShape, Levels
<1>10. OnLevels \in [Levels -> SUBSET SkipNodes] /\ \A i \in Levels : IsChain(key, forward, OnLevels[i], i)
  BY <1>2 DEF SkipLists
<1>11. \A i \in Levels : IsChain(key', forward', OnLevels[i], i)
  <2> SUFFICES ASSUME NEW i \in Levels
               PROVE  IsChain(key', forward', OnLevels[i], i)
    OBVIOUS
  <2>1. \A n \in OnLevels[i] : key'[n] = key[n] /\ forward'[n][i] = forward[n][i]
    BY <1>7, <1>8, <1>10
  <2>2. DOMAIN forward \subseteq DOMAIN forward'
    BY <1>1, <1>3 DEF ShapeTypes
  <2> QED BY <1>10, <2>1, <2>2, ChainSame
<1>12. OnLevels' = OnLevels
  <2>1. OnLevels \in [Levels -> SUBSET SkipNodes']
    BY <1>5, <1>10
  <2> QED BY <1>9, <1>11, <2>1, ListsBecome
<1>13. Deleting = {} /\ writer'.op = "insert" /\ writer.op = "none"
  BY <1>1 DEF Deleting, Idle
<1>14. SkipLists'
  <2>1. (OnLevels \in [Levels -> SUBSET SkipNodes])'
    BY <1>5, <1>10, <1>12 DEF Levels
  <2>2. (\A i \in Levels : IsChain(key, forward, OnLevels[i], i))'
    BY <1>11, <1>12 DEF Levels
  <2>3. (\A i \in Levels : i > skip_list_level => OnLevels[i] = {0})'
    <3>1. \A i \in Levels : i > skip_list_level' => i > skip_list_level
      BY <1>6 DEF Levels
    <3> QED BY <1>2, <1>12, <3>1 DEF SkipLists, Levels
  <2>4. (\A i, j \in Levels : i <= j => OnLevels[j] \subseteq OnLevels[i] \cup Deleting)'
    BY <1>2, <1>12, <1>13 DEF SkipLists, Levels
  <2>5. (\A n \in OnLevels[0], i \in Levels : n \in OnLevels[i] \/ forward[n][i] = NULL)'
    <3>1. OnLevels[0] \subseteq SkipNodes
      BY <1>3, <1>10 DEF ShapeTypes
    <3> QED BY <1>2, <1>8, <1>12, <3>1 DEF SkipLists, Levels
  <2> QED BY <2>1, <2>2, <2>3, <2>4, <2>5 DEF SkipLists
<1>15. Update(k) \in [Levels -> SkipNodes] /\ \A i \in Levels : IsBefore(Update(k)[i], OnLevels[i], k)
  BY <1>2, UpdateIsRight
<1>16. writer' \in SkipWriters'
  <2>1. Update(k) \in [Levels -> SkipNodes']
    BY <1>5, <1>15
  <2> QED BY <1>1, <1>4, <1>5, <2>1 DEF SkipWriters, Levels
<1>17. Inserting'
  <2>1. writer'.node = node /\ writer'.top = top /\ writer'.level = 0 /\ writer'.update = Update(k)
    BY <1>1
  <2>2. (writer.top <= skip_list_level /\ writer.level <= writer.top + 1)'
    BY <1>6, <2>1
  <2>3. ASSUME NEW i \in Levels
        PROVE  /\ node \notin OnLevels[i] /\ ~(i < 0)
               /\ \A n \in OnLevels[i] : key'[n] = k => n = node
               /\ Update(k)[i] \in OnLevels[i] /\ key'[Update(k)[i]] < k
               /\ \A m \in OnLevels[i] : key'[m] < k => key'[m] <= key'[Update(k)[i]]
               /\ forward'[node][i] = NULL
    <3>1. node \notin OnLevels[i] /\ ~(i < 0)
      BY <1>4, <1>10 DEF Levels
    <3>2. \A n \in OnLevels[i] : key'[n] # k
      <4>1. OnLevels[i] \subseteq OnLevels[0] /\ OnLevels[0] = OnLevel(0)
        BY <1>2, <1>3, <1>13 DEF SkipLists, ShapeTypes, Levels, OnLevels
      <4>2. \A n \in OnLevel(0) \ {0} : key[n] # k
        BY <1>1 DEF Present
      <4>3. key[0] # k
        BY <1>2, SkipAssumption DEF SkipShape
      <4>4. \A n \in OnLevels[i] : key'[n] = key[n]
        BY <1>7, <1>10
      <4> QED BY <4>1, <4>2, <4>3, <4>4
    <3>3. /\ Update(k)[i] \in OnLevels[i] /\ key'[Update(k)[i]] < k
          /\ \A m \in OnLevels[i] : key'[m] < k => key'[m] <= key'[Update(k)[i]]
      <4>1. PICK p : p = Update(k)[i]
        OBVIOUS
      <4>2. IsBefore(p, OnLevels[i], k)
        BY <1>15, <4>1
      <4>3. \A n \in OnLevels[i] : key'[n] = key[n]
        BY <1>7, <1>10
      <4>4. p \in OnLevels[i] /\ key'[p] < k /\ \A m \in OnLevels[i] : key'[m] < k => key'[m] <= key'[p]
        BY <4>2, <4>3 DEF IsBefore
      <4> QED BY <4>1, <4>4
    <3> QED BY <1>8, <3>1, <3>2, <3>3
  <2>4. (skip_list_level > writer.top => OnLevels[skip_list_level] # {0})'
    <3>1. skip_list_level' > top => skip_list_level' = skip_list_level /\ skip_list_level > 0
      BY <1>6 DEF Levels
    <3> QED BY <1>1, <1>2, <1>12, <2>1, <3>1 DEF SkipWork
  <2>5. (\A i \in Levels :
          /\ writer.node \in OnLevels[i] <=> i < writer.level
          /\ \A n \in OnLevels[i] : key[n] = key[writer.node] => n = writer.node
          /\ IsBefore(writer.update[i], OnLevels[i], key[writer.node])
          /\ i >= writer.level => forward[writer.node][i] = NULL)'
    <3> SUFFICES ASSUME NEW i \in Levels'
                 PROVE  (/\ writer.node \in OnLevels[i] <=> i < writer.level
                         /\ \A n \in OnLevels[i] : key[n] = key[writer.node] => n = writer.node
                         /\ IsBefore(writer.update[i], OnLevels[i], key[writer.node])
                         /\ i >= writer.level => forward[writer.node][i] = NULL)'
      OBVIOUS
    <3>1. i \in Levels
      BY DEF Levels
    <3> QED BY <1>7, <1>12, <2>1, <2>3, <3>1 DEF IsBefore
  <2> QED BY <2>2, <2>4, <2>5 DEF Inserting
<1>18. SkipWork'
  <2>1. Ahead = 0 /\ Ahead' = 0 /\ Behind = 0 /\ Behind' = 0
    BY <1>1, <1>13 DEF Ahead, Behind
  <2>2. (Cardinality(OnLevels[0]) + Behind = element_count + 1 + Ahead)'
    BY <1>1, <1>2, <1>12, <2>1 DEF SkipWork
  <2>3. writer'.op # "delete" /\ writer' # Idle
    BY <1>13 DEF Idle
  <2> QED BY <1>16, <1>17, <2>2, <2>3 DEF SkipWork
<1> QED BY <1>9, <1>12, <1>14, <1>18 DEF SkipWrites

\* what LinkLevel does to the lists
LEMMA LinkLevelLinks ==
  ASSUME SkipWrites, LinkLevel
  PROVE  LET i == writer.level
             node == writer.node
             p == writer.update[i]
         IN  /\ i \in Levels /\ i <= skip_list_level /\ node \in SkipNodes \ {0} /\ IsBefore(p, OnLevels[i], key[node])
             /\ node \notin OnLevels[i] /\ (\A n \in OnLevels[i] : key[n] # key[node])
             /\ SkipShape'
             /\ OnLevels' = [OnLevels EXCEPT ![i] = @ \cup {node}]
             /\ \A j \in Levels : IsChain(key', forward', OnLevels'[j], j)
             /\ p # node /\ Spliced(i, p, node)
<1> PICK i : i = writer.level
  OBVIOUS
<1> PICK node : node = writer.node
  OBVIOUS
<1> PICK p : p = writer.update[i]
  OBVIOUS
<1>1. SkipShape /\ SkipLists /\ SkipWork /\ Inserting
  BY DEF SkipWrites, SkipWork, LinkLevel
<1>2. writer \in [op : {"insert"}, node : SkipNodes \ {0}, top : 1..TopLevel, level : Nat,
                  update : [Levels -> SkipNodes]]
  BY <1>1, WriterKinds DEF SkipWork, LinkLevel
<1>3. node \in SkipNodes \ {0} /\ i \in Nat /\ writer.top \in 1..TopLevel /\ i <= writer.top
  BY <1>2 DEF LinkLevel
<1>4. i \in Levels
  BY <1>3, SkipAssumption DEF Levels
<1>11. i <= skip_list_level
  <2>1. writer.top <= skip_list_level /\ skip_list_level \in Nat
    BY <1>1 DEF Inserting, SkipShape, Levels
  <2> QED BY <1>3, <2>1
<1>5. IsBefore(p, OnLevels[i], key[node]) /\ node \notin OnLevels[i]
      /\ \A n \in OnLevels[i] : key[n] = key[node] => n = node
  BY <1>1, <1>3, <1>4 DEF Inserting
<1>6. \A n \in OnLevels[i] : key[n] # key[node]
  BY <1>5
<1>7. forward' = [forward EXCEPT ![node][i] = forward[p][i], ![p][i] = node]
  BY DEF LinkLevel, Linked
<1>8. UNCHANGED <<key, skip_list_level, element_count>>
  BY DEF LinkLevel
<1>10. Spliced(i, p, node)
  <2>1. p \in SkipNodes /\ p # node
    BY <1>1, <1>4, <1>5 DEF IsBefore, SkipLists
  <2> QED BY <1>1, <1>3, <1>4, <1>7, <2>1, Splicing
<1>9. /\ SkipShape'
      /\ OnLevels' = [OnLevels EXCEPT ![i] = @ \cup {node}]
      /\ \A j \in Levels : IsChain(key', forward', OnLevels'[j], j)
      /\ p # node
  BY <1>1, <1>3, <1>4, <1>5, <1>6, <1>8, <1>10, Linking
<1> QED BY <1>3, <1>4, <1>5, <1>6, <1>9, <1>10, <1>11

LEMMA LinkLevelKeeps ==
  ASSUME SkipWrites, LinkLevel
  PROVE  SkipWrites'
<1> PICK i : i = writer.level
  OBVIOUS
<1> PICK node : node = writer.node
  OBVIOUS
<1> PICK p : p = writer.update[i]
  OBVIOUS
<1>1. /\ i \in Levels /\ i <= skip_list_level /\ node \in SkipNodes \ {0} /\ IsBefore(p, OnLevels[i], key[node])
      /\ node \notin OnLevels[i] /\ (\A n \in OnLevels[i] : key[n] # key[node])
      /\ SkipShape'
      /\ OnLevels' = [OnLevels EXCEPT ![i] = @ \cup {node}]
      /\ \A j \in Levels : IsChain(key', forward', OnLevels'[j], j)
      /\ p # node
      /\ \A n \in SkipNodes, j \in Levels : (j = i => n \notin {p, node}) => forward'[n][j] = forward[n][j]
  BY LinkLevelLinks DEF Spliced
<1>2. SkipShape /\ SkipLists /\ SkipWork /\ Inserting
  BY DEF SkipWrites, SkipWork, LinkLevel
<1>3. ShapeTypes
  BY <1>2, ShapeFacts
<1>4. writer \in [op : {"insert"}, node : SkipNodes \ {0}, top : 1..TopLevel, level : Nat,
                  update : [Levels -> SkipNodes]]
  BY <1>2, WriterKinds DEF SkipWork, LinkLevel
<1>5. /\ writer' = [writer EXCEPT !.level = @ + 1] /\ i <= writer.top
      /\ key' = key /\ skip_list_level' = skip_list_level /\ element_count' = element_count
  BY DEF LinkLevel
<1>6. /\ writer'.op = "insert" /\ writer'.node = node /\ writer'.top = writer.top
      /\ writer'.level = i + 1 /\ writer'.update = writer.update /\ i \in Nat
      /\ writer' \in [op : {"insert"}, node : SkipNodes \ {0}, top : 1..TopLevel, level : Nat,
                      update : [Levels -> SkipNodes]]
  BY <1>4, <1>5
<1>7. SkipNodes' = SkipNodes /\ Levels' = Levels
  BY <1>5 DEF SkipNodes, Levels
<1>8. OnLevels \in [Levels -> SUBSET SkipNodes]
  BY <1>2 DEF SkipLists
<1>9. /\ OnLevels'[i] = OnLevels[i] \cup {node}
      /\ \A j \in Levels : j # i => OnLevels'[j] = OnLevels[j]
      /\ OnLevels' \in [Levels -> SUBSET SkipNodes]
  <2>1. OnLevels[i] \cup {node} \in SUBSET SkipNodes
    BY <1>1, <1>8
  <2> QED BY <1>1, <1>8, <2>1
<1>10. Deleting = {} /\ Deleting' = {}
  BY <1>4, <1>6 DEF Deleting
<1>11. \A j \in Levels : node \in OnLevels[j] <=> j < i
  BY <1>2 DEF Inserting
<1>12. SkipLists'
  <2>1. \A j \in Levels' : IsChain(key', forward', OnLevels'[j], j)
    BY <1>1, <1>7
  <2>2. ASSUME NEW j \in Levels, j > skip_list_level
        PROVE  OnLevels'[j] = {0}
    <3>1. j # i
      BY <1>1, <2>2, <1>2 DEF SkipShape, Levels
    <3> QED BY <1>2, <1>9, <2>2, <3>1 DEF SkipLists
  <2>3. ASSUME NEW j \in Levels, NEW l \in Levels, j <= l
        PROVE  OnLevels'[l] \subseteq OnLevels'[j]
    <3>1. OnLevels[l] \subseteq OnLevels[j] /\ OnLevels[j] \subseteq OnLevels'[j]
      BY <1>2, <1>9, <1>10, <2>3 DEF SkipLists
    <3>2. l = i => node \in OnLevels'[j]
      <4>1. j \in Nat /\ l \in Nat
        BY DEF Levels
      <4> QED BY <1>9, <1>11, <2>3, <4>1
    <3> QED BY <1>9, <3>1, <3>2
  <2>4. ASSUME NEW n \in OnLevels'[0], NEW j \in Levels
        PROVE  n \in OnLevels'[j] \/ forward'[n][j] = NULL
    <3>0. 0 \in Levels
      BY <1>3 DEF ShapeTypes
    <3>1. CASE n = node
      <4>1. j <= i => n \in OnLevels'[j]
        BY <1>9, <1>11, <3>1, <1>6 DEF Levels
      <4>2. j >= i => forward[node][j] = NULL
        BY <1>2 DEF Inserting
      <4>3. j # i => forward'[node][j] = forward[node][j]
        BY <1>1
      <4> QED BY <1>6, <3>1, <4>1, <4>2, <4>3 DEF Levels
    <3>2. CASE n # node
      <4>1. n \in OnLevels[0] /\ n \in SkipNodes
        BY <1>8, <1>9, <3>0, <3>2
      <4>2. n \in OnLevels[j] \/ forward[n][j] = NULL
        BY <1>2, <4>1 DEF SkipLists
      <4>3. j = i /\ n = p => n \in OnLevels'[j]
        BY <1>1, <1>9 DEF IsBefore
      <4>4. n \in OnLevels[j] => n \in OnLevels'[j]
        BY <1>9
      <4>5. ~(j = i /\ n = p) => forward'[n][j] = forward[n][j]
        BY <1>1, <3>2, <4>1
      <4> QED BY <4>2, <4>3, <4>4, <4>5
    <3> QED BY <3>1, <3>2
  <2>5. (OnLevels \in [Levels -> SUBSET SkipNodes])'
    BY <1>7, <1>9
  <2>6. (\A j \in Levels : j > skip_list_level => OnLevels[j] = {0})'
    BY <1>5, <1>7, <2>2
  <2>7. (\A j, l \in Levels : j <= l => OnLevels[l] \subseteq OnLevels[j] \cup Deleting)'
    BY <1>7, <2>3
  <2>8. (\A n \in OnLevels[0], j \in Levels : n \in OnLevels[j] \/ forward[n][j] = NULL)'
    BY <1>7, <2>4
  <2> QED BY <2>1, <2>5, <2>6, <2>7, <2>8 DEF SkipLists
<1>13. Inserting'
  <2>1. (writer.top <= skip_list_level /\ writer.level <= writer.top + 1)'
    BY <1>2, <1>4, <1>5, <1>6 DEF Inserting
  <2>2. (skip_list_level > writer.top => OnLevels[skip_list_level] # {0})'
    <3>1. skip_list_level > writer.top => OnLevels[skip_list_level] # {0} /\ skip_list_level # i
      BY <1>2, <1>4, <1>5, <1>6 DEF Inserting, SkipShape, Levels
    <3> QED BY <1>2, <1>5, <1>6, <1>9, <3>1 DEF SkipShape
  <2>3. ASSUME NEW j \in Levels
        PROVE  /\ node \in OnLevels'[j] <=> j < i + 1
               /\ \A n \in OnLevels'[j] : key[n] = key[node] => n = node
               /\ IsBefore(writer.update[j], OnLevels'[j], key[node])
               /\ j >= i + 1 => forward'[node][j] = NULL
    <3>1. /\ node \in OnLevels[j] <=> j < i
          /\ \A n \in OnLevels[j] : key[n] = key[node] => n = node
          /\ IsBefore(writer.update[j], OnLevels[j], key[node])
          /\ j >= i => forward[node][j] = NULL
      BY <1>2 DEF Inserting
    <3>2. j \in Nat
      BY DEF Levels
    <3>3. ~(key[node] < key[node])
      BY <1>1, <1>3 DEF ShapeTypes
    <3>4. CASE j = i
      <4>1. OnLevels'[j] = OnLevels[j] \cup {node}
        BY <1>9, <3>4
      <4>2. IsBefore(writer.update[j], OnLevels'[j], key[node])
        BY <3>1, <3>3, <4>1 DEF IsBefore
      <4> QED BY <1>6, <3>1, <3>2, <3>4, <4>1, <4>2
    <3>5. CASE j # i
      <4>1. OnLevels'[j] = OnLevels[j] /\ forward'[node][j] = forward[node][j]
        BY <1>1, <1>9, <3>5
      <4>2. (j < i + 1 <=> j < i) /\ (j >= i + 1 => j >= i)
        BY <1>6, <3>2, <3>5
      <4> QED BY <3>1, <4>1, <4>2
    <3> QED BY <3>4, <3>5
  <2>4. (\A j \in Levels :
          /\ writer.node \in OnLevels[j] <=> j < writer.level
          /\ \A n \in OnLevels[j] : key[n] = key[writer.node] => n = writer.node
          /\ IsBefore(writer.update[j], OnLevels[j], key[writer.node])
          /\ j >= writer.level => forward[writer.node][j] = NULL)'
    BY <1>5, <1>6, <1>7, <2>3 DEF IsBefore
  <2> QED BY <2>1, <2>2, <2>4 DEF Inserting
<1>14. SkipWork'
  <2>1. writer' \in SkipWriters' /\ writer'.op # "delete" /\ writer' # Idle
    BY <1>6, <1>7 DEF SkipWriters, Idle
  <2>2. (Cardinality(OnLevels[0]) + Behind = element_count + 1 + Ahead)'
    <3>1. Behind = 0 /\ Behind' = 0 /\ Ahead' = 1 /\ (i = 0 => Ahead = 0) /\ (i # 0 => Ahead = 1)
      BY <1>4, <1>6 DEF Ahead, Behind
    <3>2. Cardinality(OnLevels[0]) + Behind = element_count + 1 + Ahead
      BY <1>2 DEF SkipWork
    <3>3. OnLevels[0] \subseteq SkipNodes /\ IsFiniteSet(SkipNodes) /\ 0 \in Levels
      BY <1>3, <1>8 DEF ShapeTypes
    <3>4. Cardinality(OnLevels[0]) \in Nat
      BY <3>3, FS_Subset, FS_CardinalityType
    <3>5. i = 0 => Cardinality(OnLevels'[0]) = Cardinality(OnLevels[0]) + 1
      <4>1. IsFiniteSet(OnLevels[0])
        BY <3>3, FS_Subset
      <4>2. i = 0 => Cardinality(OnLevels[0] \cup {node}) = Cardinality(OnLevels[0]) + 1
        BY <1>1, <4>1, FS_AddElement
      <4> QED BY <1>9, <4>2
    <3>6. i # 0 => OnLevels'[0] = OnLevels[0]
      BY <1>9, <3>3
    <3>7. element_count \in Nat
      BY <1>2 DEF SkipShape
    <3> QED BY <1>5, <3>1, <3>2, <3>4, <3>5, <3>6, <3>7
  <2> QED BY <1>13, <2>1, <2>2 DEF SkipWork
<1> QED BY <1>1, <1>12, <1>14 DEF SkipWrites

\* The lists depend on the nodes alone.
LEMMA ListsStay ==
  ASSUME UNCHANGED <<key, forward>>
  PROVE  OnLevels' = OnLevels /\ SkipNodes' = SkipNodes /\ Levels' = Levels
BY DEF OnLevels, OnLevel, LinkedBy, SkipNodes, Levels

LEMMA InsertedKeeps ==
  ASSUME SkipWrites, Inserted
  PROVE  SkipWrites'
<1>1. /\ writer.op = "insert" /\ writer.level > writer.top
      /\ element_count' = element_count + 1 /\ writer' = Idle
      /\ key' = key /\ forward' = forward /\ skip_list_level' = skip_list_level
  BY DEF Inserted
<1>2. SkipShape /\ SkipLists /\ SkipWork /\ Inserting
  BY <1>1 DEF SkipWrites, SkipWork
<1>3. OnLevels' = OnLevels /\ SkipNodes' = SkipNodes /\ Levels' = Levels
  BY <1>1, ListsStay
<1>4. writer \in [op : {"insert"}, node : SkipNodes \ {0}, top : 1..TopLevel, level : Nat,
                  update : [Levels -> SkipNodes]]
  BY <1>1, <1>2, WriterKinds DEF SkipWork
<1>5. writer.level = writer.top + 1
  BY <1>1, <1>2, <1>4 DEF Inserting
<1>6. SkipShape'
  BY <1>1, <1>2, <1>3 DEF SkipShape
<1>7. Deleting = {} /\ Deleting' = {}
  BY <1>1 DEF Deleting, Idle
<1>8. SkipLists'
  BY <1>1, <1>2, <1>3, <1>7 DEF SkipLists
<1>9. skip_list_level > 0 => OnLevels[skip_list_level] # {0}
  <2>1. CASE skip_list_level > writer.top
    BY <1>2, <2>1 DEF Inserting
  <2>2. CASE ~(skip_list_level > writer.top)
    <3>1. skip_list_level \in Levels /\ skip_list_level < writer.level
      BY <1>2, <1>4, <1>5, <2>2 DEF SkipShape, Levels
    <3>2. writer.node \in OnLevels[skip_list_level]
      BY <1>2, <3>1 DEF Inserting
    <3> QED BY <1>4, <3>2
  <2> QED BY <2>1, <2>2
<1>10. Ahead = 1 /\ Behind = 0 /\ Ahead' = 0 /\ Behind' = 0
  BY <1>1, <1>4, <1>5 DEF Ahead, Behind, Idle
<1>11. SkipWork'
  <2>1. (Cardinality(OnLevels[0]) + Behind = element_count + 1 + Ahead)'
    <3>1. Cardinality(OnLevels[0]) + 0 = element_count + 1 + 1 /\ element_count \in Nat
      BY <1>2, <1>10 DEF SkipWork, SkipShape
    <3>2. Cardinality(OnLevels[0]) \in Nat
      <4>1. OnLevels[0] \subseteq SkipNodes /\ IsFiniteSet(SkipNodes)
        BY <1>2, ShapeFacts DEF SkipLists, ShapeTypes
      <4> QED BY <4>1, FS_Subset, FS_CardinalityType
    <3> QED BY <1>1, <1>3, <1>10, <3>1, <3>2
  <2>2. writer' \in SkipWriters' /\ writer'.op = "none"
    BY <1>1 DEF SkipWriters, Idle
  <2> QED BY <1>1, <1>3, <1>9, <2>1, <2>2 DEF SkipWork
<1> QED BY <1>6, <1>8, <1>11 DEF SkipWrites

LEMMA LowerKeeps ==
  ASSUME SkipWrites, Lower
  PROVE  SkipWrites'
<1> PICK s : s = skip_list_level
  OBVIOUS
<1>1. /\ writer.op = "lower" /\ key' = key /\ forward' = forward
      /\ TopIsEmpty => skip_list_level' = s - 1 /\ element_count' = element_count /\ writer' = writer
      /\ ~TopIsEmpty => element_count' = element_count - 1 /\ writer' = Idle /\ skip_list_level' = s
  BY DEF Lower
<1>2. SkipShape /\ SkipLists /\ SkipWork
  BY DEF SkipWrites
<1>3. OnLevels' = OnLevels /\ SkipNodes' = SkipNodes /\ Levels' = Levels
  BY <1>1, ListsStay
<1>4. ShapeTypes /\ s \in Levels /\ s \in Nat /\ element_count \in Nat
  BY <1>2, ShapeFacts DEF SkipShape, Levels
<1>5. IsChain(key, forward, OnLevels[s], s) /\ OnLevels[s] \subseteq SkipNodes
  BY <1>2, <1>4 DEF SkipLists
<1>6. \A n \in OnLevels[s] : n # 0 => key[0] < key[n]
  <2> SUFFICES ASSUME NEW n \in OnLevels[s], n # 0
               PROVE  key[0] < key[n]
    OBVIOUS
  <2>1. 0 \in OnLevels[s] /\ key[0] <= key[n] /\ key[0] # key[n]
    BY <1>5 DEF IsChain
  <2>2. key[0] \in Nat /\ key[n] \in Nat
    BY <1>4, <1>5 DEF ShapeTypes
  <2> QED BY <2>1, <2>2
<1>7. TopIsEmpty => s > 0 /\ OnLevels[s] = {0}
  <2> SUFFICES ASSUME TopIsEmpty
               PROVE  s > 0 /\ OnLevels[s] = {0}
    OBVIOUS
  <2>1. s > 0 /\ forward[0][s] = NULL
    BY DEF TopIsEmpty
  <2>2. 0 \in OnLevels[s] /\ \A n \in OnLevels[s] : ~(key[0] < key[n])
    BY <1>5, <2>1 DEF IsChain
  <2> QED BY <1>6, <2>1, <2>2
<1>8. ~TopIsEmpty /\ s > 0 => OnLevels[s] # {0}
  <2> SUFFICES ASSUME ~TopIsEmpty, s > 0
               PROVE  OnLevels[s] # {0}
    OBVIOUS
  <2> PICK q : q = forward[0][s]
    OBVIOUS
  <2>1. q \in OnLevels[s]
    BY <1>5 DEF IsChain, TopIsEmpty
  <2>2. key[q] <= key[q] /\ ~(key[0] < key[0])
    BY <1>4, <1>5, <2>1 DEF ShapeTypes
  <2>3. key[0] < key[q]
    BY <1>5, <2>1, <2>2 DEF IsChain, TopIsEmpty
  <2> QED BY <2>1, <2>2, <2>3
<1>9. Deleting = {} /\ Deleting' = {}
  BY <1>1 DEF Deleting, Idle
<1>10. Cardinality(OnLevels[0]) \in Nat /\ Cardinality(OnLevels[0]) > 0
  <2>1. OnLevels[0] \subseteq SkipNodes /\ IsFiniteSet(SkipNodes) /\ 0 \in OnLevels[0]
    BY <1>2, <1>4 DEF SkipLists, ShapeTypes, IsChain
  <2>2. IsFiniteSet(OnLevels[0]) /\ OnLevels[0] # {}
    BY <2>1, FS_Subset
  <2>3. Cardinality(OnLevels[0]) \in Nat /\ Cardinality(OnLevels[0]) # 0
    BY <2>2, FS_CardinalityType, FS_EmptySet
  <2> QED BY <2>3
<1>11. Cardinality(OnLevels[0]) + 1 = element_count + 1
  <2>1. Behind = 1 /\ Ahead = 0
    BY <1>1 DEF Behind, Ahead
  <2>2. Cardinality(OnLevels[0]) + Behind = element_count + 1 + Ahead
    BY <1>2 DEF SkipWork
  <2> QED BY <1>4, <1>10, <2>1, <2>2
<1>12. SkipShape'
  <2>1. skip_list_level' \in Levels /\ element_count' \in Nat
    <3>1. CASE TopIsEmpty
      BY <1>1, <1>4, <1>7, <3>1, SkipAssumption DEF Levels
    <3>2. CASE ~TopIsEmpty
      BY <1>1, <1>4, <1>10, <1>11, <3>2
    <3> QED BY <3>1, <3>2
  <2> QED BY <1>1, <1>2, <1>3, <2>1 DEF SkipShape
<1>13. SkipLists'
  <2>1. \A i \in Levels : i > skip_list_level' => OnLevels[i] = {0}
    <3>1. \A i \in Levels : i > s => OnLevels[i] = {0}
      BY <1>2 DEF SkipLists
    <3>2. \A i \in Levels : i > s - 1 => i > s \/ i = s
      BY <1>4 DEF Levels
    <3> QED BY <1>1, <1>7, <3>1, <3>2
  <2> QED BY <1>1, <1>2, <1>3, <1>9, <2>1 DEF SkipLists
<1>14. SkipWork'
  <2>1. CASE TopIsEmpty
    <3>1. writer' \in SkipWriters' /\ writer'.op = "lower" /\ writer' # Idle
      BY <1>1, <1>2, <1>3, <2>1 DEF SkipWork, SkipWriters, Idle
    <3>2. Behind' = 1 /\ Ahead' = 0
      BY <3>1 DEF Behind, Ahead
    <3> QED BY <1>1, <1>3, <1>4, <1>10, <1>11, <2>1, <3>1, <3>2 DEF SkipWork
  <2>2. CASE ~TopIsEmpty
    <3>1. writer' \in SkipWriters' /\ writer'.op = "none"
      BY <1>1, <2>2 DEF SkipWriters, Idle
    <3>2. Behind' = 0 /\ Ahead' = 0
      BY <3>1 DEF Behind, Ahead
    <3>3. Cardinality(OnLevels[0]) + 0 = (element_count - 1) + 1 + 0
      BY <1>4, <1>10, <1>11
    <3>4. (Cardinality(OnLevels[0]) + Behind = element_count + 1 + Ahead)'
      BY <1>1, <1>3, <2>2, <3>2, <3>3
    <3> QED BY <1>1, <1>3, <1>8, <2>2, <3>1, <3>4 DEF SkipWork
  <2> QED BY <2>1, <2>2
<1> QED BY <1>12, <1>13, <1>14 DEF SkipWrites

\* the nodes of a list that are not after a node's key: IsBefore's next
LEMMA NextOfBefore ==
  ASSUME SkipShape, SkipLists, NEW i \in Levels, NEW p, NEW node \in OnLevels[i], IsBefore(p, OnLevels[i], key[node])
  PROVE  forward[p][i] = node /\ p \in OnLevels[i] /\ p \in SkipNodes
<1>1. ShapeTypes
  BY ShapeFacts
<1>2. OnLevels[i] \subseteq SkipNodes /\ IsChain(key, forward, OnLevels[i], i)
  BY DEF SkipLists
<1>3. NULL \notin OnLevels[i] /\ \A n \in OnLevels[i] : key[n] \in Nat
  BY <1>1, <1>2 DEF ShapeTypes
<1>4. p \in OnLevels[i] /\ key[p] < key[node] /\ \A m \in OnLevels[i] : key[m] < key[node] => key[m] <= key[p]
  BY DEF IsBefore
<1> QED BY <1>2, <1>3, <1>4, ChainNext

\* what is left of the invariant when a node leaves a level: for both steps
LEMMA UnlinkedLists ==
  ASSUME SkipShape, SkipLists, NEW i \in Levels, NEW node \in OnLevels[i] \ {0}, NEW p, NEW c, c = key[node],
         IsBefore(p, OnLevels[i], c),
         Bypassed(i, p, node), UNCHANGED <<key, skip_list_level, element_count>>
  PROVE  /\ SkipShape'
         /\ OnLevels' \in [Levels -> SUBSET SkipNodes]
         /\ OnLevels'[i] = OnLevels[i] \ {node}
         /\ \A j \in Levels : j # i => OnLevels'[j] = OnLevels[j]
         /\ \A j \in Levels : IsChain(key', forward', OnLevels'[j], j)
         /\ \A j \in Levels : j > skip_list_level => OnLevels'[j] = {0}
         /\ \A n \in SkipNodes, j \in Levels : n # p \/ j # i => forward'[n][j] = forward[n][j]
         /\ p # node /\ p \in SkipNodes /\ forward[node][i] # node
         /\ \A j \in Levels, q \in SkipNodes :
              IsBefore(q, OnLevels[j], c) => IsBefore(q, OnLevels'[j], c)
         /\ \A n \in OnLevels'[0], j \in Levels : n # node => n \in OnLevels'[j] \/ forward'[n][j] = NULL
<1>1. forward[p][i] = node /\ p \in OnLevels[i] /\ p \in SkipNodes
  BY NextOfBefore
<1>2. /\ SkipShape'
      /\ OnLevels' = [OnLevels EXCEPT ![i] = @ \ {node}]
      /\ \A j \in Levels : IsChain(key', forward', OnLevels'[j], j)
      /\ p # node /\ forward[node][i] # node
  BY <1>1, UnlinkingOne
<1>8. \A n \in SkipNodes, j \in Levels : n # p \/ j # i => forward'[n][j] = forward[n][j]
  BY DEF Bypassed
<1>3. OnLevels \in [Levels -> SUBSET SkipNodes] /\ ShapeTypes
  BY ShapeFacts DEF SkipLists
<1>4. /\ OnLevels' \in [Levels -> SUBSET SkipNodes]
      /\ OnLevels'[i] = OnLevels[i] \ {node}
      /\ \A j \in Levels : j # i => OnLevels'[j] = OnLevels[j]
  <2>1. OnLevels[i] \ {node} \in SUBSET SkipNodes
    BY <1>3
  <2> QED BY <1>2, <1>3, <2>1
<1>5. ASSUME NEW j \in Levels, j > skip_list_level
      PROVE  OnLevels'[j] = {0}
  <2>1. OnLevels[j] = {0}
    BY <1>5 DEF SkipLists
  <2>2. j # i
    BY <2>1
  <2> QED BY <1>4, <2>1, <2>2
<1>6. ASSUME NEW j \in Levels, NEW q \in SkipNodes, IsBefore(q, OnLevels[j], c)
      PROVE  IsBefore(q, OnLevels'[j], c)
  <2>1. q # node
    <3>1. key[q] < c /\ c \in Nat
      BY <1>3, <1>6 DEF IsBefore, ShapeTypes
    <3> QED BY <3>1
  <2>2. OnLevels'[j] \subseteq OnLevels[j] /\ (q \in OnLevels[j] => q \in OnLevels'[j])
    BY <1>4, <2>1
  <2> QED BY <1>6, <2>2 DEF IsBefore
<1>7. ASSUME NEW n \in OnLevels'[0], NEW j \in Levels, n # node
      PROVE  n \in OnLevels'[j] \/ forward'[n][j] = NULL
  <2>1. n \in OnLevels[0] /\ n \in SkipNodes
    BY <1>3, <1>4 DEF ShapeTypes
  <2>2. n \in OnLevels[j] \/ forward[n][j] = NULL
    BY <2>1 DEF SkipLists
  <2>3. n \in OnLevels[j] => n \in OnLevels'[j]
    BY <1>4, <1>7
  <2>4. n = p /\ j = i => n \in OnLevels'[j]
    BY <1>1, <1>2, <1>4
  <2>5. n # p \/ j # i => forward'[n][j] = forward[n][j]
    BY <1>8, <2>1
  <2> QED BY <2>2, <2>3, <2>4, <2>5
<1> QED BY <1>1, <1>2, <1>4, <1>5, <1>6, <1>7, <1>8

\* what DeleteStart does to the lists
LEMMA DeleteStartUnlinks ==
  ASSUME SkipWrites, NEW k \in SkipKeys, DeleteStart(k)
  PROVE  \E node \in OnLevels[0] \ {0}, p \in SkipNodes :
           /\ key[node] = k /\ p = Update(k)[0] /\ IsBefore(p, OnLevels[0], key[node])
           /\ writer' = [op |-> "delete", node |-> node, level |-> 1, update |-> Update(k)]
           /\ Bypassed(0, p, node)
<1>1. writer = Idle /\ k \in Present
  BY DEF DeleteStart
<1>2. SkipShape /\ SkipLists /\ ShapeTypes
  BY ShapeFacts DEF SkipWrites
<1>3. OnLevels[0] = OnLevel(0) /\ OnLevels[0] \subseteq SkipNodes
  BY <1>2 DEF ShapeTypes, SkipLists, OnLevels
<1> PICK node : node = CHOOSE n \in OnLevel(0) : key[n] = k
  OBVIOUS
<1>4. node \in OnLevels[0] /\ key[node] = k
  BY <1>1, <1>3 DEF Present
<1>5. node # 0
  BY <1>2, <1>4, SkipAssumption DEF SkipShape
<1> PICK p : p = Update(k)[0]
  OBVIOUS
<1>6. IsBefore(p, OnLevels[0], key[node])
  BY <1>2, <1>4, UpdateIsRight DEF ShapeTypes
<1>7. p \in SkipNodes
  BY <1>3, <1>6 DEF IsBefore
<1>8. /\ forward' = [forward EXCEPT ![p][0] = forward[node][0]]
      /\ writer' = [op |-> "delete", node |-> node, level |-> 1, update |-> Update(k)]
  BY DEF DeleteStart
<1>9. Bypassed(0, p, node)
  BY <1>2, <1>3, <1>4, <1>7, <1>8, Bypassing DEF ShapeTypes
<1> QED BY <1>4, <1>5, <1>6, <1>7, <1>8, <1>9

LEMMA DeleteStartKeeps ==
  ASSUME SkipWrites, NEW k \in SkipKeys, DeleteStart(k)
  PROVE  SkipWrites'
<1> PICK node \in OnLevels[0] \ {0}, p \in SkipNodes :
           /\ key[node] = k /\ p = Update(k)[0] /\ IsBefore(p, OnLevels[0], key[node])
           /\ writer' = [op |-> "delete", node |-> node, level |-> 1, update |-> Update(k)]
           /\ Bypassed(0, p, node)
  BY DeleteStartUnlinks
<1>1. /\ writer = Idle /\ writer.op = "none"
      /\ key' = key /\ skip_list_level' = skip_list_level /\ element_count' = element_count
  BY DEF DeleteStart, Idle
<1>2. SkipShape /\ SkipLists /\ SkipWork /\ ShapeTypes
  BY ShapeFacts DEF SkipWrites
<1>3. OnLevels \in [Levels -> SUBSET SkipNodes] /\ 0 \in Levels /\ Levels \subseteq Nat /\ node \in SkipNodes
  BY <1>2 DEF SkipLists, ShapeTypes
<1>4. /\ SkipShape'
      /\ OnLevels' \in [Levels -> SUBSET SkipNodes]
      /\ OnLevels'[0] = OnLevels[0] \ {node}
      /\ \A j \in Levels : j # 0 => OnLevels'[j] = OnLevels[j]
      /\ \A j \in Levels : IsChain(key', forward', OnLevels'[j], j)
      /\ \A j \in Levels : j > skip_list_level => OnLevels'[j] = {0}
      /\ \A n \in SkipNodes, j \in Levels : n # p \/ j # 0 => forward'[n][j] = forward[n][j]
      /\ p # node /\ forward[node][0] # node
      /\ \A j \in Levels, q \in SkipNodes :
           IsBefore(q, OnLevels[j], key[node]) => IsBefore(q, OnLevels'[j], key[node])
      /\ \A n \in OnLevels'[0], j \in Levels : n # node => n \in OnLevels'[j] \/ forward'[n][j] = NULL
  BY <1>1, <1>2, <1>3, UnlinkedLists
<1>5. SkipNodes' = SkipNodes /\ Levels' = Levels
  BY <1>1 DEF SkipNodes, Levels
<1>6. Deleting = {} /\ Deleting' = {node}
  BY <1>1 DEF Deleting
<1>7. SkipLists'
  <2>1. ASSUME NEW i \in Levels, NEW j \in Levels, i <= j
        PROVE  OnLevels'[j] \subseteq OnLevels'[i] \cup {node}
    <3>1. OnLevels[j] \subseteq OnLevels[i]
      BY <1>2, <1>6, <2>1 DEF SkipLists
    <3>2. OnLevels'[j] \subseteq OnLevels[j] /\ OnLevels[i] \subseteq OnLevels'[i] \cup {node}
      BY <1>4
    <3> QED BY <3>1, <3>2
  <2>2. \A n \in OnLevels'[0], j \in Levels : n \in OnLevels'[j] \/ forward'[n][j] = NULL
    BY <1>4
  <2>3. (\A i, j \in Levels : i <= j => OnLevels[j] \subseteq OnLevels[i] \cup Deleting)'
    BY <1>5, <1>6, <2>1
  <2>4. (\A n \in OnLevels[0], i \in Levels : n \in OnLevels[i] \/ forward[n][i] = NULL)'
    BY <1>5, <2>2
  <2>5. (OnLevels \in [Levels -> SUBSET SkipNodes])'
    BY <1>4, <1>5
  <2>6. (\A i \in Levels : IsChain(key, forward, OnLevels[i], i))'
    BY <1>4, <1>5
  <2>7. (\A i \in Levels : i > skip_list_level => OnLevels[i] = {0})'
    BY <1>1, <1>4, <1>5
  <2> QED BY <2>3, <2>4, <2>5, <2>6, <2>7 DEF SkipLists
<1>8. Update(k) \in [Levels -> SkipNodes] /\ \A i \in Levels : IsBefore(Update(k)[i], OnLevels[i], k)
  BY <1>2, UpdateIsRight
<1>9. writer'.op = "delete" /\ writer'.node = node /\ writer'.level = 1 /\ writer'.update = Update(k)
  OBVIOUS
<1>10. Unlinking'
  <2>1. 1 <= skip_list_level + 1
    BY <1>2 DEF SkipShape, Levels
  <2>2. ASSUME NEW i \in Levels
        PROVE  /\ i < 1 => node \notin OnLevels'[i]
               /\ IsBefore(Update(k)[i], OnLevels'[i], key[node])
               /\ forward'[node][i] \in OnLevels'[i] \cup {NULL}
    <3>1. i < 1 => i = 0
      BY <1>3
    <3>2. IsBefore(Update(k)[i], OnLevels'[i], key[node])
      <4>1. Update(k)[i] \in SkipNodes /\ IsBefore(Update(k)[i], OnLevels[i], key[node])
        BY <1>8
      <4> QED BY <1>4, <4>1
    <3>3. forward'[node][i] = forward[node][i]
      BY <1>3, <1>4
    <3>4. forward[node][i] \in OnLevels[i] \cup {NULL}
      <4>1. node \in OnLevels[i] => forward[node][i] \in OnLevels[i] \cup {NULL}
        BY <1>2 DEF SkipLists, IsChain
      <4>2. node \in OnLevels[i] \/ forward[node][i] = NULL
        BY <1>2 DEF SkipLists
      <4> QED BY <4>1, <4>2
    <3>5. forward'[node][i] \in OnLevels'[i] \cup {NULL}
      BY <1>4, <3>3, <3>4
    <3> QED BY <1>4, <3>1, <3>2, <3>5
  <2>3. ASSUME NEW i \in Levels, NEW j \in Levels, 1 <= i, i <= j, node \in OnLevels'[j]
        PROVE  node \in OnLevels'[i]
    <3>1. i # 0 /\ j # 0
      BY <1>3, <2>3
    <3> QED BY <1>2, <1>4, <1>6, <2>3, <3>1 DEF SkipLists
  <2>4. (\A i \in Levels :
           /\ i < writer.level => writer.node \notin OnLevels[i]
           /\ IsBefore(writer.update[i], OnLevels[i], key[writer.node])
           /\ forward[writer.node][i] \in OnLevels[i] \cup {NULL})'
    BY <1>1, <1>5, <1>9, <2>2 DEF IsBefore
  <2>5. (\A i, j \in Levels :
           writer.level <= i /\ i <= j /\ writer.node \in OnLevels[j] => writer.node \in OnLevels[i])'
    BY <1>5, <1>9, <2>3
  <2>6. (writer.level <= skip_list_level + 1)'
    BY <1>1, <1>9, <2>1
  <2> QED BY <2>4, <2>5, <2>6 DEF Unlinking
<1>11. SkipWork'
  <2>1. writer' \in SkipWriters' /\ writer' # Idle
    <3>1. writer' \in [op : {"delete"}, node : SkipNodes \ {0}, level : Nat \ {0}, update : [Levels -> SkipNodes]]
      BY <1>3, <1>8
    <3> QED BY <1>5, <1>9, <3>1 DEF SkipWriters, Idle
  <2>2. (Cardinality(OnLevels[0]) + Behind = element_count + 1 + Ahead)'
    <3>1. Behind = 0 /\ Ahead = 0 /\ Behind' = 1 /\ Ahead' = 0
      BY <1>1, <1>9 DEF Behind, Ahead
    <3>2. IsFiniteSet(OnLevels[0]) /\ Cardinality(OnLevels[0]) \in Nat
      <4>1. OnLevels[0] \subseteq SkipNodes /\ IsFiniteSet(SkipNodes)
        BY <1>2, <1>3 DEF ShapeTypes
      <4> QED BY <4>1, FS_Subset, FS_CardinalityType
    <3>3. Cardinality(OnLevels'[0]) = Cardinality(OnLevels[0]) - 1
      <4>1. Cardinality(OnLevels[0] \ {node}) = Cardinality(OnLevels[0]) - 1
        BY <3>2, FS_RemoveElement
      <4> QED BY <1>4, <4>1
    <3>4. Cardinality(OnLevels[0]) + 0 = element_count + 1 + 0 /\ element_count \in Nat
      BY <1>2, <3>1 DEF SkipWork, SkipShape
    <3> QED BY <1>1, <3>1, <3>2, <3>3, <3>4
  <2> QED BY <1>9, <1>10, <2>1, <2>2 DEF SkipWork
<1> QED BY <1>4, <1>7, <1>11 DEF SkipWrites

\* what UnlinkLevel does to the lists, if anything
LEMMA UnlinkLevelUnlinks ==
  ASSUME SkipWrites, UnlinkLevel
  PROVE  LET i == writer.level
             node == writer.node
             p == writer.update[i]
         IN  \/ /\ i \in Levels /\ i <= skip_list_level /\ node \in OnLevels[i] \ {0} /\ p \in SkipNodes
                /\ IsBefore(p, OnLevels[i], key[node])
                /\ writer' = [writer EXCEPT !.level = @ + 1]
                /\ Bypassed(i, p, node)
             \/ /\ writer' = [op |-> "lower"] /\ forward' = forward
                /\ \A j \in Levels : node \notin OnLevels[j]
<1> PICK i : i = writer.level
  OBVIOUS
<1> PICK node : node = writer.node
  OBVIOUS
<1> PICK p : p = writer.update[i]
  OBVIOUS
<1>1. SkipShape /\ SkipLists /\ SkipWork /\ ShapeTypes /\ Unlinking
  BY ShapeFacts DEF SkipWrites, SkipWork, UnlinkLevel
<1>2. writer \in [op : {"delete"}, node : SkipNodes \ {0}, level : Nat \ {0}, update : [Levels -> SkipNodes]]
  BY <1>1, WriterKinds DEF SkipWork, UnlinkLevel
<1>3. node \in SkipNodes \ {0} /\ i \in Nat \ {0} /\ skip_list_level \in Levels /\ Levels \subseteq Nat
  BY <1>1, <1>2 DEF SkipShape, ShapeTypes
<1>4. i <= skip_list_level => i \in Levels /\ p \in SkipNodes
  <2>1. i <= skip_list_level => i \in Levels
    BY <1>3, SkipAssumption DEF Levels
  <2> QED BY <1>2, <2>1
<1>5. OnLevels \in [Levels -> SUBSET SkipNodes] /\ \A j \in Levels : IsChain(key, forward, OnLevels[j], j)
  BY <1>1 DEF SkipLists
<1>6. CASE InUse(i) /\ forward[p][i] = node
  <2>1. i <= skip_list_level
    BY <1>6 DEF InUse
  <2>2. IsBefore(p, OnLevels[i], key[node])
    BY <1>1, <1>4, <2>1 DEF Unlinking
  <2>3. node \in OnLevels[i]
    <3>1. p \in OnLevels[i]
      BY <2>2 DEF IsBefore
    <3>2. forward[p][i] \in OnLevels[i] \cup {NULL} /\ node # NULL
      BY <1>1, <1>3, <1>4, <1>5, <2>1, <3>1 DEF IsChain, ShapeTypes
    <3> QED BY <1>6, <3>2
  <2>4. forward' = [forward EXCEPT ![p][i] = forward[node][i]] /\ writer' = [writer EXCEPT !.level = @ + 1]
    BY <1>6 DEF UnlinkLevel
  <2>5. Bypassed(i, p, node)
    BY <1>1, <1>3, <1>4, <2>1, <2>4, Bypassing
  <2> QED BY <1>3, <1>4, <2>1, <2>2, <2>3, <2>4, <2>5
<1>7. CASE ~(InUse(i) /\ forward[p][i] = node)
  <2>1. writer' = [op |-> "lower"] /\ forward' = forward
    BY <1>7 DEF UnlinkLevel
  <2>2. ASSUME NEW j \in Levels
        PROVE  node \notin OnLevels[j]
    <3>1. CASE j < i
      BY <1>1, <3>1 DEF Unlinking
    <3>2. CASE j > skip_list_level
      BY <1>1, <1>3, <3>2 DEF SkipLists
    <3>3. CASE ~(j < i) /\ ~(j > skip_list_level)
      <4>1. i <= skip_list_level /\ i <= j
        BY <1>3, <3>3
      <4>2. forward[p][i] # node /\ i \in Levels
        BY <1>4, <1>7, <4>1 DEF InUse
      <4>3. IsBefore(p, OnLevels[i], key[node])
        BY <1>1, <4>2 DEF Unlinking
      <4>4. node \notin OnLevels[i]
        BY <1>1, <4>2, <4>3, NextOfBefore
      <4>5. node \in OnLevels[j] => node \in OnLevels[i]
        <5>1. i <= i
          BY <1>3
        <5> QED BY <1>1, <4>1, <4>2, <5>1 DEF Unlinking
      <4> QED BY <4>4, <4>5
    <3> QED BY <3>1, <3>2, <3>3
  <2> QED BY <2>1, <2>2
<1> QED BY <1>6, <1>7

LEMMA UnlinkLevelKeeps ==
  ASSUME SkipWrites, UnlinkLevel
  PROVE  SkipWrites'
<1> PICK i : i = writer.level
  OBVIOUS
<1> PICK node : node = writer.node
  OBVIOUS
<1> PICK p : p = writer.update[i]
  OBVIOUS
<1>1. SkipShape /\ SkipLists /\ SkipWork /\ ShapeTypes /\ Unlinking
  BY ShapeFacts DEF SkipWrites, SkipWork, UnlinkLevel
<1>2. writer \in [op : {"delete"}, node : SkipNodes \ {0}, level : Nat \ {0}, update : [Levels -> SkipNodes]]
  BY <1>1, WriterKinds DEF SkipWork, UnlinkLevel
<1>3. node \in SkipNodes \ {0} /\ i \in Nat \ {0} /\ skip_list_level \in Levels /\ Levels \subseteq Nat /\ 0 \in Levels
  BY <1>1, <1>2 DEF SkipShape, ShapeTypes
<1>4. OnLevels \in [Levels -> SUBSET SkipNodes]
  BY <1>1 DEF SkipLists
<1>5. key' = key /\ skip_list_level' = skip_list_level /\ element_count' = element_count /\ writer.op = "delete"
  BY DEF UnlinkLevel
<1>6. SkipNodes' = SkipNodes /\ Levels' = Levels
  BY <1>5 DEF SkipNodes, Levels
<1>7. Deleting = {node} /\ Behind = 1 /\ Ahead = 0
  BY <1>5 DEF Deleting, Behind, Ahead
<1>8. CASE /\ i \in Levels /\ i <= skip_list_level /\ node \in OnLevels[i] \ {0} /\ p \in SkipNodes
           /\ IsBefore(p, OnLevels[i], key[node])
           /\ writer' = [writer EXCEPT !.level = @ + 1]
           /\ Bypassed(i, p, node)
  <2>1. /\ SkipShape'
        /\ OnLevels' \in [Levels -> SUBSET SkipNodes]
        /\ OnLevels'[i] = OnLevels[i] \ {node}
        /\ \A j \in Levels : j # i => OnLevels'[j] = OnLevels[j]
        /\ \A j \in Levels : IsChain(key', forward', OnLevels'[j], j)
        /\ \A j \in Levels : j > skip_list_level => OnLevels'[j] = {0}
        /\ \A n \in SkipNodes, j \in Levels : n # p \/ j # i => forward'[n][j] = forward[n][j]
        /\ p # node /\ forward[node][i] # node
        /\ \A j \in Levels, q \in SkipNodes :
             IsBefore(q, OnLevels[j], key[node]) => IsBefore(q, OnLevels'[j], key[node])
        /\ \A n \in OnLevels'[0], j \in Levels : n # node => n \in OnLevels'[j] \/ forward'[n][j] = NULL
    BY <1>1, <1>5, <1>8, UnlinkedLists
  <2>2. /\ writer'.op = "delete" /\ writer'.node = node /\ writer'.level = i + 1 /\ writer'.update = writer.update
        /\ writer' \in [op : {"delete"}, node : SkipNodes \ {0}, level : Nat \ {0}, update : [Levels -> SkipNodes]]
    BY <1>2, <1>8
  <2>3. Deleting' = {node} /\ Behind' = 1 /\ Ahead' = 0
    BY <2>2 DEF Deleting, Behind, Ahead
  <2>4. OnLevels'[0] = OnLevels[0] /\ node \notin OnLevels[0]
    <3>1. 0 < i /\ i # 0
      BY <1>3
    <3> QED BY <1>1, <1>3, <2>1, <3>1 DEF Unlinking
  <2>5. SkipLists'
    <3>1. ASSUME NEW j \in Levels, NEW l \in Levels, j <= l
          PROVE  OnLevels'[l] \subseteq OnLevels'[j] \cup {node}
      <4>1. OnLevels[l] \subseteq OnLevels[j] \cup {node}
        BY <1>1, <1>7, <3>1 DEF SkipLists
      <4>2. OnLevels'[l] \subseteq OnLevels[l] /\ OnLevels[j] \subseteq OnLevels'[j] \cup {node}
        BY <2>1
      <4> QED BY <4>1, <4>2
    <3>2. \A n \in OnLevels'[0], j \in Levels : n \in OnLevels'[j] \/ forward'[n][j] = NULL
      BY <2>1, <2>4
    <3>3. (\A j, l \in Levels : j <= l => OnLevels[l] \subseteq OnLevels[j] \cup Deleting)'
      BY <1>6, <2>3, <3>1
    <3>4. (\A n \in OnLevels[0], j \in Levels : n \in OnLevels[j] \/ forward[n][j] = NULL)'
      BY <1>6, <3>2
    <3>5. (OnLevels \in [Levels -> SUBSET SkipNodes])'
      BY <1>6, <2>1
    <3>6. (\A j \in Levels : IsChain(key, forward, OnLevels[j], j))'
      BY <1>6, <2>1
    <3>7. (\A j \in Levels : j > skip_list_level => OnLevels[j] = {0})'
      BY <1>5, <1>6, <2>1
    <3> QED BY <3>3, <3>4, <3>5, <3>6, <3>7 DEF SkipLists
  <2>6. Unlinking'
    <3>1. ASSUME NEW j \in Levels
          PROVE  /\ j < i + 1 => node \notin OnLevels'[j]
                 /\ IsBefore(writer.update[j], OnLevels'[j], key[node])
                 /\ forward'[node][j] \in OnLevels'[j] \cup {NULL}
      <4>1. /\ j < i => node \notin OnLevels[j]
            /\ IsBefore(writer.update[j], OnLevels[j], key[node])
            /\ forward[node][j] \in OnLevels[j] \cup {NULL}
        BY <1>1 DEF Unlinking
      <4>2. j < i + 1 => j < i \/ j = i
        BY <1>3
      <4>3. writer.update[j] \in SkipNodes
        BY <1>2
      <4>4. forward'[node][j] = forward[node][j]
        BY <1>3, <2>1
      <4>5. forward[node][j] \in OnLevels'[j] \cup {NULL}
        BY <2>1, <4>1
      <4>6. IsBefore(writer.update[j], OnLevels'[j], key[node])
        BY <2>1, <4>1, <4>3
      <4>7. j < i + 1 => node \notin OnLevels'[j]
        BY <2>1, <4>1, <4>2
      <4> QED BY <4>4, <4>5, <4>6, <4>7
    <3>2. ASSUME NEW j \in Levels, NEW l \in Levels, i + 1 <= j, j <= l, node \in OnLevels'[l]
          PROVE  node \in OnLevels'[j]
      <4>1. j # i /\ l # i /\ i <= j
        BY <1>3, <3>2
      <4> QED BY <1>1, <2>1, <3>2, <4>1 DEF Unlinking
    <3>3. (\A j \in Levels :
             /\ j < writer.level => writer.node \notin OnLevels[j]
             /\ IsBefore(writer.update[j], OnLevels[j], key[writer.node])
             /\ forward[writer.node][j] \in OnLevels[j] \cup {NULL})'
      BY <1>5, <1>6, <2>2, <3>1 DEF IsBefore
    <3>4. (\A j, l \in Levels :
             writer.level <= j /\ j <= l /\ writer.node \in OnLevels[l] => writer.node \in OnLevels[j])'
      BY <1>6, <2>2, <3>2
    <3>5. (writer.level <= skip_list_level + 1)'
      BY <1>3, <1>5, <1>8, <2>2
    <3> QED BY <3>3, <3>4, <3>5 DEF Unlinking
  <2>7. SkipWork'
    <3>1. writer' \in SkipWriters' /\ writer' # Idle
      BY <1>6, <2>2 DEF SkipWriters, Idle
    <3>2. (Cardinality(OnLevels[0]) + Behind = element_count + 1 + Ahead)'
      BY <1>1, <1>5, <1>7, <2>3, <2>4 DEF SkipWork
    <3> QED BY <2>2, <2>6, <3>1, <3>2 DEF SkipWork
  <2> QED BY <2>1, <2>5, <2>7 DEF SkipWrites
<1>9. CASE /\ writer' = [op |-> "lower"] /\ forward' = forward
           /\ \A j \in Levels : node \notin OnLevels[j]
  <2>1. OnLevels' = OnLevels
    BY <1>5, <1>9, ListsStay
  <2>2. writer'.op = "lower" /\ writer' # Idle /\ writer' \in SkipWriters'
    BY <1>9 DEF Idle, SkipWriters
  <2>3. Deleting' = {} /\ Behind' = 1 /\ Ahead' = 0
    BY <2>2 DEF Deleting, Behind, Ahead
  <2>4. SkipShape'
    BY <1>1, <1>5, <1>6, <1>9 DEF SkipShape
  <2>5. SkipLists'
    <3>1. \A j, l \in Levels : j <= l => OnLevels[l] \subseteq OnLevels[j]
      BY <1>1, <1>7, <1>9 DEF SkipLists
    <3> QED BY <1>1, <1>5, <1>6, <1>9, <2>1, <2>3, <3>1 DEF SkipLists
  <2>6. SkipWork'
    <3>1. (Cardinality(OnLevels[0]) + Behind = element_count + 1 + Ahead)'
      BY <1>1, <1>5, <1>7, <2>1, <2>3 DEF SkipWork
    <3> QED BY <2>2, <3>1 DEF SkipWork
  <2> QED BY <2>4, <2>5, <2>6 DEF SkipWrites
<1> QED BY <1>8, <1>9, UnlinkLevelUnlinks

-----------------------------------------------------------------------------
(* Searches next to writers.                                               *)

\* what a step of a writer tells a search that runs
LEMMA WitnessedTells ==
  ASSUME SkipWrites', search \in SkipSearches, Searching, NEW d \in BOOLEAN, Witnessed(d)
  PROVE  /\ search'.pc = search.pc /\ search'.key = search.key /\ search'.level = search.level
         /\ search'.current = search.current
         /\ \E there \in BOOLEAN : (there <=> search.key \in Present') /\ search'.was = search.was \cup {there}
         /\ search'.deletes = (search.deletes \/ d)
         /\ search'.inserts = (search.inserts \/ Smaller(writer))
         /\ search'.deletes \in BOOLEAN /\ search'.inserts \in BOOLEAN
         /\ DOMAIN search' = DOMAIN search
<1> PICK there \in BOOLEAN : there = \E n \in LinkedBy(forward', 0) : key'[n] = search.key
  OBVIOUS
<1> PICK smaller \in BOOLEAN : smaller = Smaller(writer)
  <2>1. Smaller(writer) \in BOOLEAN
    BY DEF Smaller
  <2> QED BY <2>1
<1>1. search' = [search EXCEPT !.was = @ \cup {there}, !.deletes = @ \/ d, !.inserts = @ \/ smaller]
  BY DEF Witnessed
<1>2. there <=> search.key \in Present'
  <2>1. key'[0] = 0
    BY DEF SkipWrites, SkipShape
  <2>2. search.key # 0
    BY SkipAssumption DEF SkipSearches
  <2>3. Present' = {key'[n] : n \in OnLevel(0)' \ {0}} /\ OnLevel(0)' = LinkedBy(forward', 0)
    BY DEF Present, OnLevel, LinkedBy
  <2>4. (\E n \in LinkedBy(forward', 0) : key'[n] = search.key) <=> search.key \in Present'
    BY <2>1, <2>2, <2>3
  <2> QED BY <2>4
<1>3. search \in [pc : {"test", "compare", "move", "last", "found", "missed", "crashed"}, key : SkipKeys,
                  level : Levels, current : SkipNodes, was : SUBSET BOOLEAN, deletes : BOOLEAN, inserts : BOOLEAN]
  BY DEF SkipSearches
<1>4. /\ search'.pc = search.pc /\ search'.key = search.key /\ search'.level = search.level
      /\ search'.current = search.current
  BY <1>1, <1>3
<1>5. search'.was = search.was \cup {there}
  BY <1>1, <1>3
<1>6. search'.deletes = (search.deletes \/ d)
  BY <1>1, <1>3
<1>7. search'.inserts = (search.inserts \/ smaller)
  BY <1>1, <1>3
<1>8. DOMAIN search' = DOMAIN search
  BY <1>1
<1> QED BY <1>2, <1>4, <1>5, <1>6, <1>7, <1>8

\* A step of a writer, as a search sees it.
LEMMA WitnessedKeeps ==
  ASSUME SkipWrites', SkipSearch, NEW d \in BOOLEAN, Witnessed(d),
         SkipNodes \subseteq SkipNodes', writer'.op \in {"delete", "lower"} => d,
         Searching => \E F \in SUBSET SkipNodes' : Fresh(F)' /\ search.current \in F,
         Searching /\ ~search.deletes /\ ~d => Undisturbed'
  PROVE  SkipSearch'
<1>0. Levels' = Levels
  BY DEF Levels
<1>1. CASE ~Searching
  <2>1. search' = search
    BY <1>1 DEF Witnessed
  <2>2. ~Searching'
    BY <1>1, <2>1 DEF Searching
  <2>3. (search \in SkipSearches \cup {[pc |-> "none"]})'
    <3>1. search \in SkipSearches \cup {[pc |-> "none"]}
      BY DEF SkipSearch
    <3>2. SkipSearches \subseteq SkipSearches'
      BY <1>0 DEF SkipSearches
    <3> QED BY <2>1, <3>1, <3>2
  <2>4. SearchesAreLinearizable'
    BY <2>1 DEF SkipSearch, SearchesAreLinearizable
  <2> QED BY <2>2, <2>3, <2>4 DEF SkipSearch
<1>2. CASE Searching
  <2>1. search \in SkipSearches
    BY <1>2 DEF SkipSearch, Searching
  <2>2. /\ search'.pc = search.pc /\ search'.key = search.key /\ search'.level = search.level
        /\ search'.current = search.current
        /\ search'.deletes = (search.deletes \/ d)
        /\ search'.inserts = (search.inserts \/ Smaller(writer))
        /\ search'.deletes \in BOOLEAN /\ search'.inserts \in BOOLEAN
        /\ DOMAIN search' = DOMAIN search
    BY <1>2, <2>1, WitnessedTells
  <2> PICK there \in BOOLEAN : (there <=> search.key \in Present') /\ search'.was = search.was \cup {there}
    BY <1>2, <2>1, WitnessedTells
  <2>3. search' \in SkipSearches'
    <3>1. search \in [pc : {"test", "compare", "move", "last", "found", "missed", "crashed"}, key : SkipKeys,
                      level : Levels, current : SkipNodes, was : SUBSET BOOLEAN, deletes : BOOLEAN,
                      inserts : BOOLEAN]
      BY <2>1 DEF SkipSearches
    <3>2. search' = [pc |-> search'.pc, key |-> search'.key, level |-> search'.level, current |-> search'.current,
                     was |-> search'.was, deletes |-> search'.deletes, inserts |-> search'.inserts]
      <4>1. search' = [search EXCEPT !.was = @ \cup {\E n \in LinkedBy(forward', 0) : key'[n] = search.key},
                                     !.deletes = @ \/ d, !.inserts = @ \/ Smaller(writer)]
        BY <1>2 DEF Witnessed
      <4> QED BY <3>1, <4>1
    <3>3. search'.was \in SUBSET BOOLEAN
      <4>1. search.was \in SUBSET BOOLEAN
        BY <3>1
      <4> QED BY <4>1
    <3>4. /\ search'.pc \in {"test", "compare", "move", "last", "found", "missed", "crashed"}
          /\ search'.key \in SkipKeys /\ search'.level \in Levels /\ search'.current \in SkipNodes'
      BY <2>2, <3>1
    <3> HIDE <2>2
    <3>5. search' \in [pc : {"test", "compare", "move", "last", "found", "missed", "crashed"}, key : SkipKeys,
                      level : Levels, current : SkipNodes', was : SUBSET BOOLEAN, deletes : BOOLEAN,
                      inserts : BOOLEAN]
      BY <2>2, <3>2, <3>3, <3>4
    <3> QED BY <1>0, <3>5 DEF SkipSearches
  <2>4. SoFar /\ (search.deletes \/ Undisturbed)
    BY <1>2 DEF SkipSearch
  <2>5. SoFar'
    <3>1. (search.key \in Present => TRUE \in search.was)'
      <4>1. search.key \in Present' => there = TRUE
        OBVIOUS
      <4> QED BY <2>2, <4>1
    <3>2. (search.key \notin Present => FALSE \in search.was)'
      <4>1. search.key \notin Present' => there = FALSE
        OBVIOUS
      <4> QED BY <2>2, <4>1
    <3>3. (writer.op \in {"delete", "lower"} => search.deletes)'
      BY <2>2
    <3>4. (search.pc = "last" => search.level = 0)'
      BY <2>2, <2>4 DEF SoFar
    <3>5. (\E F \in SUBSET SkipNodes : Fresh(F) /\ search.current \in F)'
      BY <1>2, <2>2
    <3> QED BY <3>1, <3>2, <3>3, <3>4, <3>5 DEF SoFar
  <2>6. (search.deletes \/ Undisturbed)'
    BY <1>2, <2>2
  <2>7. SearchesAreLinearizable'
    BY <1>2, <2>2 DEF SearchesAreLinearizable, Searching
  <2> QED BY <2>3, <2>5, <2>6, <2>7 DEF SkipSearch
<1> QED BY <1>1, <1>2

\* The types of a search that runs.
LEMMA SearchTypes ==
  ASSUME SkipSearch, Searching
  PROVE  /\ search \in SkipSearches /\ SoFar /\ (search.deletes \/ Undisturbed)
         /\ search.key \in SkipKeys /\ search.level \in Levels /\ search.current \in SkipNodes
         /\ search.deletes \in BOOLEAN /\ search.inserts \in BOOLEAN /\ search.was \in SUBSET BOOLEAN
<1>1. search \in SkipSearches
  BY DEF SkipSearch, Searching
<1> QED BY <1>1 DEF SkipSearch, SkipSearches

\* Now one lemma per action of a writer, about the search.
LEMMA InsertNewSearch ==
  ASSUME SkipWrites, SkipSearch, NEW k \in SkipKeys, NEW top \in 1..TopLevel, InsertNew(k, top)
  PROVE  SkipSearch'
<1> PICK node : node = Cardinality(SkipNodes)
  OBVIOUS
<1>1. /\ writer = Idle
      /\ key' = [n \in SkipNodes \cup {node} |-> IF n = node THEN k ELSE key[n]]
      /\ forward' = [n \in SkipNodes \cup {node} |->
                       IF n = node THEN [i \in Levels |-> NULL] ELSE forward[n]]
      /\ writer' = [op |-> "insert", node |-> node, top |-> top, level |-> 0, update |-> Update(k)]
      /\ Witnessed(FALSE)
  BY DEF InsertNew
<1>2. SkipShape /\ SkipLists /\ ShapeTypes /\ SkipWrites' /\ OnLevels' = OnLevels
  BY ShapeFacts, InsertNewKeeps DEF SkipWrites
<1>3. node \notin SkipNodes /\ 0 \in Levels /\ OnLevels \in [Levels -> SUBSET SkipNodes]
  BY <1>2 DEF ShapeTypes, SkipLists
<1>4. SkipNodes' = SkipNodes \cup {node} /\ Levels' = Levels
  BY <1>1 DEF SkipNodes, Levels
<1>5. key'[node] = k /\ \A n \in SkipNodes : key'[n] = key[n]
  BY <1>1, <1>3
<1>6. /\ \A i \in Levels : forward'[node][i] = NULL
      /\ \A n \in SkipNodes : forward'[n] = forward[n]
  BY <1>1, <1>3
<1>7. writer'.op = "insert" /\ writer'.node = node /\ ~Smaller(writer)
  BY <1>1 DEF Smaller, Idle
<1>8. ASSUME Searching
      PROVE  \E F \in SUBSET SkipNodes' : Fresh(F)' /\ search.current \in F
  <2>1. SoFar /\ search \in SkipSearches
    BY <1>2, <1>8, SearchTypes
  <2> PICK F \in SUBSET SkipNodes : Fresh(F) /\ search.current \in F
    BY <2>1 DEF SoFar
  <2> DEFINE G == F \cup {node}
  <2>2. /\ search'.key = search.key
        /\ \E there \in BOOLEAN : search'.was = search.was \cup {there}
    BY <1>1, <1>2, <1>8, <2>1, WitnessedTells
  <2>3. \A n \in F, i \in Levels : forward[n][i] \in F \cup {NULL} /\ forward'[n][i] = forward[n][i]
    BY <1>6 DEF Fresh
  <2>4. \A n \in F : forward[n][0] # NULL => key'[forward[n][0]] = key[forward[n][0]]
    BY <1>3, <1>5, <2>3
  <2>5. ASSUME NEW n \in G \ OnLevels[0], forward'[n][0] # NULL, key'[forward'[n][0]] = search.key
        PROVE  TRUE \in search'.was
    <3>1. n \in F \ OnLevels[0]
      BY <1>3, <1>6, <2>5
    <3>2. forward[n][0] # NULL /\ key[forward[n][0]] = search.key
      BY <1>3, <2>3, <2>4, <2>5, <3>1
    <3> QED BY <2>2, <3>1, <3>2 DEF Fresh
  <2>6. \A n \in G, i \in Levels : forward'[n][i] \in G \cup {NULL}
    BY <1>6, <2>3
  <2>7. \A i \in Levels : OnLevels[i] \subseteq G
    BY DEF Fresh
  <2>8. Fresh(G)'
    BY <1>2, <1>4, <1>7, <2>2, <2>5, <2>6, <2>7 DEF Fresh
  <2>9. G \in SUBSET SkipNodes'
    BY <1>4
  <2> QED BY <2>8, <2>9
<1>9. ASSUME Searching, ~search.deletes
      PROVE  Undisturbed'
  <2>1. search \in SkipSearches /\ Undisturbed /\ search.current \in SkipNodes /\ search.level \in Levels
    BY <1>2, <1>9, SearchTypes
  <2>2. /\ search'.pc = search.pc /\ search'.key = search.key /\ search'.level = search.level
        /\ search'.current = search.current
        /\ \E there \in BOOLEAN : search'.was = search.was \cup {there}
        /\ search'.inserts = (search.inserts \/ Smaller(writer))
    BY <1>1, <1>2, <1>9, <2>1, WitnessedTells
  <2>3. Read' = Read
    BY <1>6, <2>1, <2>2 DEF Read
  <2>4. Read # NULL => key'[Read] = key[Read]
    <3>1. forward \in [SkipNodes -> [Levels -> SkipNodes \cup {NULL}]]
      BY <1>2 DEF SkipShape
    <3>2. Read \in SkipNodes \cup {NULL}
      BY <2>1, <3>1 DEF Read
    <3> QED BY <1>5, <3>2
  <2>5. key'[search.current] = key[search.current]
    BY <1>5, <2>1
  <2>6. FALSE \notin search'.was => FALSE \notin search.was
    BY <2>2
  <2> QED BY <1>2, <1>7, <2>1, <2>2, <2>3, <2>4, <2>5, <2>6 DEF Undisturbed
<1>10. SkipNodes \subseteq SkipNodes' /\ ~(writer'.op \in {"delete", "lower"})
  BY <1>4, <1>7
<1> QED BY <1>1, <1>2, <1>8, <1>9, <1>10, WitnessedKeeps

LEMMA LinkLevelSearch ==
  ASSUME SkipWrites, SkipSearch, LinkLevel
  PROVE  SkipSearch'
<1> PICK i : i = writer.level
  OBVIOUS
<1> PICK node : node = writer.node
  OBVIOUS
<1> PICK p : p = writer.update[i]
  OBVIOUS
<1>1. /\ i \in Levels /\ node \in SkipNodes \ {0} /\ IsBefore(p, OnLevels[i], key[node])
      /\ node \notin OnLevels[i] /\ (\A n \in OnLevels[i] : key[n] # key[node])
      /\ OnLevels' = [OnLevels EXCEPT ![i] = @ \cup {node}]
      /\ p # node /\ forward'[p][i] = node /\ forward'[node][i] = forward[p][i]
      /\ \A n \in SkipNodes, j \in Levels : (j = i => n \notin {p, node}) => forward'[n][j] = forward[n][j]
  BY LinkLevelLinks DEF Spliced
<1>2. SkipShape /\ SkipLists /\ ShapeTypes /\ SkipWrites'
  BY ShapeFacts, LinkLevelKeeps DEF SkipWrites
<1>3. key' = key /\ Witnessed(FALSE) /\ writer.op = "insert" /\ writer' = [writer EXCEPT !.level = @ + 1]
  BY DEF LinkLevel
<1>4. writer'.op = "insert" /\ writer'.node = node
  <2>1. writer \in [op : {"insert"}, node : SkipNodes \ {0}, top : 1..TopLevel, level : Nat,
                    update : [Levels -> SkipNodes]]
    BY <1>3, WriterKinds DEF SkipWrites, SkipWork
  <2> QED BY <1>3, <2>1
<1>5. SkipNodes' = SkipNodes /\ Levels' = Levels /\ 0 \in Levels
  BY <1>2, <1>3 DEF SkipNodes, Levels, ShapeTypes
<1>6. OnLevels \in [Levels -> SUBSET SkipNodes] /\ \A j \in Levels : IsChain(key, forward, OnLevels[j], j)
  BY <1>2 DEF SkipLists
<1>7. /\ OnLevels'[i] = OnLevels[i] \cup {node}
      /\ \A j \in Levels : j # i => OnLevels'[j] = OnLevels[j]
  BY <1>1, <1>6
<1>8. p \in OnLevels[i] /\ p \in SkipNodes /\ key[p] < key[node]
      /\ \A m \in OnLevels[i] : key[m] < key[node] => key[m] <= key[p]
  BY <1>1, <1>6 DEF IsBefore
<1>9. ASSUME Searching
      PROVE  \E F \in SUBSET SkipNodes' : Fresh(F)' /\ search.current \in F
  <2>1. SoFar /\ search \in SkipSearches
    BY <1>2, <1>9, SearchTypes
  <2> PICK F \in SUBSET SkipNodes : Fresh(F) /\ search.current \in F
    BY <2>1 DEF SoFar
  <2>2. /\ search'.key = search.key
        /\ \E there \in BOOLEAN : search'.was = search.was \cup {there}
    BY <1>2, <1>3, <1>9, <2>1, WitnessedTells
  <2>3. node \in F /\ p \in F
    BY <1>1, <1>3, <1>8 DEF Fresh
  <2>4. \A n \in F, j \in Levels : forward[n][j] \in F \cup {NULL}
    BY DEF Fresh
  <2>5. ASSUME NEW n \in F, NEW j \in Levels
        PROVE  forward'[n][j] \in F \cup {NULL}
    <3>1. CASE j = i /\ n \in {p, node}
      BY <1>1, <2>3, <2>4, <3>1
    <3>2. CASE j = i => n \notin {p, node}
      BY <1>1, <2>4, <3>2
    <3> QED BY <3>1, <3>2
  <2>6. \A j \in Levels : OnLevels'[j] \subseteq F
    BY <1>7, <2>3 DEF Fresh
  <2>7. ASSUME NEW n \in F \ OnLevels'[0], forward'[n][0] # NULL, key[forward'[n][0]] = search.key
        PROVE  TRUE \in search'.was
    <3>1. n \in F \ OnLevels[0] /\ n \in SkipNodes
      <4>1. OnLevels[0] \subseteq OnLevels'[0]
        BY <1>5, <1>7
      <4> QED BY <2>7, <4>1
    <3>2. 0 = i => n \notin {p, node}
      BY <1>7, <1>8, <2>7
    <3>3. forward'[n][0] = forward[n][0]
      BY <1>1, <1>5, <3>1, <3>2
    <3> QED BY <2>2, <2>7, <3>1, <3>3 DEF Fresh
  <2>8. Fresh(F)'
    BY <1>3, <1>4, <1>5, <2>2, <2>3, <2>5, <2>6, <2>7 DEF Fresh
  <2> QED BY <1>5, <2>8
<1>10. ASSUME Searching, ~search.deletes
      PROVE  Undisturbed'
  <2>1. search \in SkipSearches /\ Undisturbed /\ search.current \in SkipNodes /\ search.level \in Levels
        /\ search.key \in SkipKeys
    BY <1>2, <1>10, SearchTypes
  <2>2. /\ search'.pc = search.pc /\ search'.key = search.key /\ search'.level = search.level
        /\ search'.current = search.current
        /\ \E there \in BOOLEAN : search'.was = search.was \cup {there}
        /\ search'.inserts = (search.inserts \/ Smaller(writer))
    BY <1>2, <1>3, <1>10, <2>1, WitnessedTells
  <2>3. search.current \in OnLevels'[search.level]
    BY <1>7, <2>1 DEF Undisturbed
  <2>4. Read' = forward'[search.current][search.level]
    BY <2>2 DEF Read
  <2>5. CASE search.level = i => search.current \notin {p, node}
    <3>1. Read' = Read
      BY <1>1, <2>1, <2>4, <2>5 DEF Read
    <3>2. FALSE \notin search'.was => FALSE \notin search.was
      BY <2>2
    <3> QED BY <1>3, <2>1, <2>2, <2>3, <3>1, <3>2 DEF Undisturbed
  <2>6. CASE search.level = i /\ search.current \in {p, node}
    <3>1. search.current = p
      BY <1>1, <2>1, <2>6 DEF Undisturbed
    <3>2. Read' = node /\ node # NULL
      BY <1>1, <1>2, <2>4, <2>6, <3>1 DEF ShapeTypes
    <3> PICK q : q = Read
      OBVIOUS
    <3>3. q = forward[p][i]
      BY <2>6, <3>1 DEF Read
    <3>4. ASSUME q # NULL
          PROVE  q \in OnLevels[i] /\ key[q] \in Nat /\ key[node] \in Nat /\ key[node] < key[q]
      <4>1. q \in OnLevels[i]
        BY <1>1, <1>6, <1>8, <3>3, <3>4 DEF IsChain
      <4>2. key[q] \in Nat /\ key[node] \in Nat /\ key[p] \in Nat
        BY <1>1, <1>2, <1>6, <1>8, <4>1 DEF ShapeTypes
      <4>3. key[p] < key[q]
        <5>1. key[q] <= key[q]
          BY <4>2
        <5> QED BY <1>1, <1>6, <1>8, <3>3, <3>4, <4>1, <5>1 DEF IsChain
      <4>4. key[q] # key[node] /\ (key[q] < key[node] => key[q] <= key[p])
        BY <1>1, <1>8, <4>1
      <4> QED BY <4>1, <4>2, <4>3, <4>4
    <3>5. search.key \in Nat
      BY <2>1, SkipAssumption
    <3>6. search.pc = "move" => key[node] < search.key
      <4>1. search.pc = "move" => q # NULL /\ key[q] < search.key
        BY <2>1 DEF Undisturbed
      <4> QED BY <3>4, <3>5, <4>1
    <3>7. ~(search.pc = "last" /\ ~search'.inserts /\ FALSE \notin search'.was)
      <4> SUFFICES ASSUME search.pc = "last", ~search'.inserts, FALSE \notin search'.was
                   PROVE  FALSE
        OBVIOUS
      <4>1. q # NULL /\ key[q] = search.key
        BY <2>1, <2>2 DEF Undisturbed
      <4>2. ~(key[node] < search.key)
        BY <1>3, <2>2 DEF Smaller
      <4> QED BY <3>4, <4>1, <4>2
    <3> QED BY <1>3, <2>1, <2>2, <2>3, <3>2, <3>6, <3>7 DEF Undisturbed
  <2> QED BY <2>5, <2>6
<1> QED BY <1>2, <1>3, <1>4, <1>5, <1>9, <1>10, WitnessedKeeps

\* the nodes a search can reach, when a node is unlinked
LEMMA UnlinkedFresh ==
  ASSUME SkipWrites, SkipSearch, Searching, SkipWrites', Witnessed(TRUE),
         UNCHANGED <<key, skip_list_level, element_count>>,
         NEW i \in Levels, NEW node \in OnLevels[i] \ {0}, NEW p \in SkipNodes, IsBefore(p, OnLevels[i], key[node]),
         Bypassed(i, p, node), writer'.op # "insert", i = 0 \/ OnLevels'[0] = OnLevels[0]
  PROVE  \E F \in SUBSET SkipNodes' : Fresh(F)' /\ search.current \in F
<1>1. SoFar /\ search \in SkipSearches
  BY SearchTypes
<1>2. SkipShape /\ SkipLists /\ ShapeTypes
  BY ShapeFacts DEF SkipWrites
<1> PICK F \in SUBSET SkipNodes : Fresh(F) /\ search.current \in F
  BY <1>1 DEF SoFar
<1>3. /\ search'.key = search.key
      /\ \E there \in BOOLEAN : search'.was = search.was \cup {there}
  BY <1>1, WitnessedTells
<1>4. /\ OnLevels'[i] = OnLevels[i] \ {node}
      /\ \A j \in Levels : j # i => OnLevels'[j] = OnLevels[j]
  BY <1>2, UnlinkedLists
<1>5. /\ forward'[p][i] = forward[node][i]
      /\ \A n \in SkipNodes, j \in Levels : n # p \/ j # i => forward'[n][j] = forward[n][j]
  BY DEF Bypassed
<1>6. node \in F /\ p \in OnLevels[i]
  BY DEF Fresh, IsBefore
<1>7. ASSUME NEW n \in F, NEW j \in Levels
      PROVE  forward'[n][j] \in F \cup {NULL}
  <2>1. forward[n][j] \in F \cup {NULL} /\ forward[node][i] \in F \cup {NULL}
    BY <1>6 DEF Fresh
  <2> QED BY <1>5, <2>1
<1>8. \A j \in Levels : OnLevels'[j] \subseteq F
  BY <1>4 DEF Fresh
<1>9. ASSUME NEW n \in F \ OnLevels'[0], forward'[n][0] # NULL, key[forward'[n][0]] = search.key
      PROVE  TRUE \in search'.was
  <2>0. 0 \in Levels /\ n \in SkipNodes
    BY <1>2 DEF ShapeTypes
  <2>1. CASE n \in OnLevels[0]
    <3>1. i = 0 /\ n = node
      BY <1>4, <1>9, <2>1
    <3> PICK q : q = forward[node][0]
      OBVIOUS
    <3>2. p # node /\ forward'[node][0] = q
      <4>1. p # node
        BY <1>2, UnlinkedLists
      <4> QED BY <1>2, <1>5, <2>0, <3>1, <4>1
    <3>3. q \in OnLevels[0]
      <4>1. IsChain(key, forward, OnLevels[0], 0)
        BY <1>2, <2>0 DEF SkipLists
      <4> QED BY <1>9, <3>1, <3>2, <4>1 DEF IsChain
    <3>4. q # 0
      <4>1. key[0] = 0 /\ search.key \in SkipKeys
        BY <1>1, <1>2 DEF SkipShape, SkipSearches
      <4> QED BY <1>9, <3>1, <3>2, <4>1, SkipAssumption
    <3>5. search.key \in Present
      <4>1. OnLevels[0] = OnLevel(0)
        BY <2>0 DEF OnLevels
      <4> QED BY <1>9, <3>1, <3>2, <3>3, <3>4, <4>1 DEF Present
    <3> QED BY <1>1, <1>3, <3>5 DEF SoFar
  <2>2. CASE n \notin OnLevels[0]
    <3>1. n # p \/ 0 # i
      BY <1>6, <2>2
    <3>2. forward'[n][0] = forward[n][0]
      BY <1>5, <2>0, <3>1
    <3> QED BY <1>3, <1>9, <2>2, <3>2 DEF Fresh
  <2> QED BY <2>1, <2>2
<1>10. SkipNodes' = SkipNodes /\ Levels' = Levels
  BY DEF SkipNodes, Levels
<1>11. Fresh(F)'
  BY <1>3, <1>7, <1>8, <1>9, <1>10 DEF Fresh
<1> QED BY <1>10, <1>11

\* a writer's step that leaves the nodes as they are
LEMMA StillFresh ==
  ASSUME SkipWrites, SkipSearch, SkipWrites', NEW d \in BOOLEAN, Witnessed(d), UNCHANGED <<key, forward>>,
         writer'.op # "insert", writer'.op \in {"delete", "lower"} => d
  PROVE  SkipSearch'
<1>1. OnLevels' = OnLevels /\ SkipNodes' = SkipNodes /\ Levels' = Levels
  BY ListsStay
<1>2. ASSUME Searching
      PROVE  \E F \in SUBSET SkipNodes' : Fresh(F)' /\ search.current \in F
  <2>1. SoFar /\ search \in SkipSearches
    BY <1>2, SearchTypes
  <2> PICK F \in SUBSET SkipNodes : Fresh(F) /\ search.current \in F
    BY <2>1 DEF SoFar
  <2>2. /\ search'.key = search.key
        /\ \E there \in BOOLEAN : search'.was = search.was \cup {there}
    BY <1>2, <2>1, WitnessedTells
  <2>3. Fresh(F)'
    BY <1>1, <2>2 DEF Fresh
  <2> QED BY <1>1, <2>3
<1>3. ASSUME Searching, ~search.deletes
      PROVE  Undisturbed'
  <2>1. search \in SkipSearches /\ Undisturbed
    BY <1>3, SearchTypes
  <2>2. /\ search'.pc = search.pc /\ search'.key = search.key /\ search'.level = search.level
        /\ search'.current = search.current
        /\ \E there \in BOOLEAN : search'.was = search.was \cup {there}
        /\ search'.inserts = (search.inserts \/ Smaller(writer))
    BY <1>3, <2>1, WitnessedTells
  <2>3. Read' = Read
    BY <2>2 DEF Read
  <2>4. FALSE \notin search'.was => FALSE \notin search.was
    BY <2>2
  <2> QED BY <1>1, <2>1, <2>2, <2>3, <2>4 DEF Undisturbed
<1> QED BY <1>1, <1>2, <1>3, WitnessedKeeps

LEMMA DeleteStartSearch ==
  ASSUME SkipWrites, SkipSearch, NEW k \in SkipKeys, DeleteStart(k)
  PROVE  SkipSearch'
<1>1. Witnessed(TRUE) /\ UNCHANGED <<key, skip_list_level, element_count>>
  BY DEF DeleteStart
<1>2. SkipWrites'
  BY DeleteStartKeeps
<1>3. ASSUME Searching
      PROVE  \E F \in SUBSET SkipNodes' : Fresh(F)' /\ search.current \in F
  <2> PICK node \in OnLevels[0] \ {0}, p \in SkipNodes :
           /\ key[node] = k /\ p = Update(k)[0] /\ IsBefore(p, OnLevels[0], key[node])
           /\ writer' = [op |-> "delete", node |-> node, level |-> 1, update |-> Update(k)]
           /\ Bypassed(0, p, node)
    BY DeleteStartUnlinks
  <2>1. writer'.op # "insert"
    OBVIOUS
  <2>2. 0 \in Levels
    BY ShapeFacts DEF SkipWrites, ShapeTypes
  <2> QED BY <1>1, <1>2, <1>3, <2>1, <2>2, UnlinkedFresh
<1>4. SkipNodes \subseteq SkipNodes'
  BY <1>1 DEF SkipNodes
<1> QED BY <1>1, <1>2, <1>3, <1>4, WitnessedKeeps

LEMMA UnlinkLevelSearch ==
  ASSUME SkipWrites, SkipSearch, UnlinkLevel
  PROVE  SkipSearch'
<1> PICK i : i = writer.level
  OBVIOUS
<1> PICK node : node = writer.node
  OBVIOUS
<1> PICK p : p = writer.update[i]
  OBVIOUS
<1>1. Witnessed(TRUE) /\ UNCHANGED <<key, skip_list_level, element_count>> /\ writer.op = "delete"
  BY DEF UnlinkLevel
<1>2. SkipWrites'
  BY UnlinkLevelKeeps
<1>3. SkipNodes \subseteq SkipNodes'
  BY <1>1 DEF SkipNodes
<1>4. CASE /\ i \in Levels /\ i <= skip_list_level /\ node \in OnLevels[i] \ {0} /\ p \in SkipNodes
           /\ IsBefore(p, OnLevels[i], key[node])
           /\ writer' = [writer EXCEPT !.level = @ + 1]
           /\ Bypassed(i, p, node)
  <2>1. writer \in [op : {"delete"}, node : SkipNodes \ {0}, level : Nat \ {0}, update : [Levels -> SkipNodes]]
    BY <1>1, WriterKinds DEF SkipWrites, SkipWork
  <2>2. writer'.op # "insert" /\ i # 0 /\ 0 \in Levels
    BY <1>4, <2>1, ShapeFacts DEF SkipWrites, ShapeTypes
  <2>3. OnLevels'[0] = OnLevels[0]
    BY <1>1, <1>4, <2>2, UnlinkedLists DEF SkipWrites
  <2>4. ASSUME Searching
        PROVE  \E F \in SUBSET SkipNodes' : Fresh(F)' /\ search.current \in F
    BY <1>1, <1>2, <1>4, <2>2, <2>3, <2>4, UnlinkedFresh
  <2> QED BY <1>1, <1>2, <1>3, <2>4, WitnessedKeeps
<1>5. CASE writer' = [op |-> "lower"] /\ forward' = forward
  <2>1. writer'.op = "lower"
    BY <1>5
  <2> QED BY <1>1, <1>2, <1>5, <2>1, StillFresh
<1> QED BY <1>4, <1>5, UnlinkLevelUnlinks

LEMMA InsertedSearch ==
  ASSUME SkipWrites, SkipSearch, Inserted
  PROVE  SkipSearch'
<1>1. Witnessed(FALSE) /\ UNCHANGED <<key, forward>> /\ writer' = Idle
  BY DEF Inserted
<1>2. writer'.op = "none"
  BY <1>1 DEF Idle
<1> QED BY <1>1, <1>2, InsertedKeeps, StillFresh

LEMMA LowerSearch ==
  ASSUME SkipWrites, SkipSearch, Lower
  PROVE  SkipSearch'
<1>1. Witnessed(TRUE) /\ UNCHANGED <<key, forward>> /\ (writer' = writer \/ writer' = Idle) /\ writer.op = "lower"
  BY DEF Lower
<1>2. writer'.op # "insert"
  BY <1>1 DEF Idle
<1> QED BY <1>1, <1>2, LowerKeeps, StillFresh

-----------------------------------------------------------------------------
(* Steps of a search.                                                      *)

LEMMA SkipInitRight == SkipInit => SkipInv
<1> SUFFICES ASSUME SkipInit
             PROVE  SkipInv
  OBVIOUS
<1>1. /\ key = [n \in {0} |-> 0] /\ forward = [n \in {0} |-> [i \in Levels |-> NULL]]
      /\ skip_list_level = 0 /\ element_count = 0 /\ writer = Idle /\ search = [pc |-> "none"]
  BY DEF SkipInit
<1>2. SkipNodes = {0} /\ 0..0 = {0} /\ key[0] = 0 /\ \A i \in Levels : forward[0][i] = NULL
  BY <1>1 DEF SkipNodes
<1>3. 0 \in Levels /\ Levels \subseteq Nat
  BY SkipAssumption DEF Levels
<1>4. SkipShape
  <2>1. \E m \in Nat : SkipNodes = 0..m
    BY <1>2
  <2>2. key \in [SkipNodes -> Nat] /\ forward \in [SkipNodes -> [Levels -> SkipNodes \cup {NULL}]]
    BY <1>1, <1>2
  <2> QED BY <1>1, <1>2, <1>3, <2>1, <2>2 DEF SkipShape
<1> DEFINE M == [i \in Levels |-> {0}]
<1>5. \A i \in Levels : IsChain(key, forward, M[i], i)
  BY <1>1, <1>2 DEF IsChain
<1>6. OnLevels = M
  <2>1. M \in [Levels -> SUBSET SkipNodes]
    BY <1>2
  <2> QED BY <1>4, <1>5, <2>1, ListsAre
<1>7. SkipLists
  BY <1>2, <1>3, <1>5, <1>6 DEF SkipLists
<1>8. writer.op = "none" /\ ~Searching
  BY <1>1 DEF Idle, Searching
<1>9. SkipWork
  <2>1. Cardinality(OnLevels[0]) + Behind = element_count + 1 + Ahead
    <3>1. Cardinality({0}) = 1
      BY FS_Singleton
    <3> QED BY <1>1, <1>3, <1>6, <1>8, <3>1 DEF Behind, Ahead
  <2>2. writer \in SkipWriters
    BY <1>1 DEF SkipWriters
  <2> QED BY <1>1, <1>8, <2>1, <2>2 DEF SkipWork
<1>10. SkipSearch
  BY <1>1, <1>8 DEF SkipSearch, SearchesAreLinearizable
<1> QED BY <1>4, <1>7, <1>9, <1>10 DEF SkipInv

\* Steps of a search leave the lists and the writer alone.
LEMMA ReadersWriteNothing ==
  ASSUME SkipWrites, UNCHANGED <<key, forward, skip_list_level, element_count, writer>>
  PROVE  /\ SkipWrites' /\ OnLevels' = OnLevels /\ SkipNodes' = SkipNodes /\ Levels' = Levels /\ Present' = Present
         /\ SkipSearches' = SkipSearches
<1>1. OnLevels' = OnLevels /\ SkipNodes' = SkipNodes /\ Levels' = Levels
  BY ListsStay
<1>2. SkipShape' /\ SkipLists'
  BY <1>1 DEF SkipWrites, SkipShape, SkipLists, Deleting
<1>3. SkipWork'
  BY <1>1 DEF SkipWrites, SkipWork, SkipWriters, Inserting, Unlinking, Behind, Ahead, IsBefore
<1>4. Present' = Present
  BY DEF Present, OnLevel, LinkedBy
<1> QED BY <1>1, <1>2, <1>3, <1>4 DEF SkipWrites, SkipSearches

LEMMA SearchStartKeeps ==
  ASSUME SkipWrites, SkipSearch, NEW k \in SkipKeys, SearchStart(k)
  PROVE  SkipWrites' /\ SkipSearch'
<1>1. /\ UNCHANGED <<key, forward, skip_list_level, element_count, writer>>
      /\ search' = [pc |-> "test", key |-> k, level |-> skip_list_level, current |-> 0,
                    was |-> {\E n \in OnLevel(0) : key[n] = k}, deletes |-> writer.op \in {"delete", "lower"},
                    inserts |-> FALSE]
  BY DEF SearchStart
<1>2. SkipWrites' /\ OnLevels' = OnLevels /\ SkipNodes' = SkipNodes /\ Levels' = Levels /\ Present' = Present
      /\ SkipSearches' = SkipSearches
  BY <1>1, ReadersWriteNothing
<1>3. SkipShape /\ SkipLists /\ SkipWork /\ ShapeTypes
  BY ShapeFacts DEF SkipWrites
<1>4. OnLevels \in [Levels -> SUBSET SkipNodes] /\ (\A i \in Levels : IsChain(key, forward, OnLevels[i], i))
      /\ skip_list_level \in Levels /\ 0 \in Levels /\ Levels \subseteq Nat /\ 0 \in SkipNodes
  BY <1>3 DEF SkipLists, SkipShape, ShapeTypes
<1> PICK there \in BOOLEAN : there = \E n \in OnLevel(0) : key[n] = k
  OBVIOUS
<1>12. there <=> k \in Present
  <2>1. key[0] = 0 /\ k # 0
    BY <1>3, SkipAssumption DEF SkipShape
  <2> QED BY <2>1 DEF Present
<1> PICK del \in BOOLEAN : del = (writer.op \in {"delete", "lower"})
  <2>1. (writer.op \in {"delete", "lower"}) \in BOOLEAN
    OBVIOUS
  <2> QED BY <2>1
<1>5. search' = [pc |-> search'.pc, key |-> search'.key, level |-> search'.level, current |-> search'.current,
                 was |-> search'.was, deletes |-> search'.deletes, inserts |-> search'.inserts]
  BY <1>1
<1>6. /\ search'.pc = "test" /\ search'.key = k /\ search'.level = skip_list_level /\ search'.current = 0
      /\ search'.was = {there} /\ search'.deletes = del /\ search'.inserts = FALSE
  <2>1. /\ search'.pc = "test" /\ search'.key = k /\ search'.level = skip_list_level /\ search'.current = 0
        /\ search'.inserts = FALSE
    BY <1>1
  <2>2. search'.was = {there}
    BY <1>1
  <2>3. search'.deletes = (writer.op \in {"delete", "lower"})
    BY <1>1
  <2> QED BY <2>1, <2>2, <2>3
<1>7. search' \in SkipSearches'
  <2>1. {there} \in SUBSET BOOLEAN
    OBVIOUS
  <2>2. search' \in SkipSearches
    BY <1>4, <1>5, <1>6, <2>1 DEF SkipSearches
  <2> QED BY <1>2, <2>2
<1>8. \E F \in SUBSET SkipNodes' : Fresh(F)' /\ 0 \in F
  <2> PICK W : W = IF writer.op \in {"insert", "delete"} THEN {writer.node} ELSE {}
    OBVIOUS
  <2> PICK F : F = OnLevels[0] \cup W
    OBVIOUS
  <2>1. writer.op \in {"insert", "delete"} => writer.node \in SkipNodes \ {0}
    BY <1>3, WriterKinds DEF SkipWork
  <2>2. F \in SUBSET SkipNodes' /\ 0 \in F
    <3>1. OnLevels[0] \in SUBSET SkipNodes /\ 0 \in OnLevels[0]
      BY <1>4 DEF IsChain
    <3> QED BY <1>2, <2>1, <3>1
  <2>3. ASSUME NEW i \in Levels
        PROVE  OnLevels[i] \subseteq F
    <3>1. OnLevels[i] \subseteq OnLevels[0] \cup Deleting
      BY <1>3, <1>4 DEF SkipLists
    <3>2. Deleting \subseteq W
      BY DEF Deleting
    <3> QED BY <3>1, <3>2
  <2>4. ASSUME NEW n \in F, NEW i \in Levels
        PROVE  forward[n][i] \in F \cup {NULL}
    <3>1. n \in OnLevels[i] => forward[n][i] \in OnLevels[i] \cup {NULL}
      BY <1>4 DEF IsChain
    <3>2. n \in OnLevels[i] \/ forward[n][i] \in OnLevels[i] \cup {NULL}
      <4>1. CASE n \in OnLevels[0]
        BY <1>3, <4>1 DEF SkipLists
      <4>2. CASE writer.op = "insert" /\ n = writer.node
        <5>1. (n \in OnLevels[i] <=> i < writer.level) /\ (i >= writer.level => forward[n][i] = NULL)
          BY <1>3, <4>2 DEF SkipWork, Inserting
        <5>2. i \in Nat /\ writer.level \in Nat
          BY <1>3, <1>4, <4>2, WriterKinds DEF SkipWork
        <5> QED BY <5>1, <5>2
      <4>3. CASE writer.op = "delete" /\ n = writer.node
        BY <1>3, <4>3 DEF SkipWork, Unlinking
      <4> QED BY <4>1, <4>2, <4>3
    <3> QED BY <2>3, <3>1, <3>2
  <2>5. ASSUME NEW n \in F \ OnLevels[0], forward[n][0] # NULL, key[forward[n][0]] = k
        PROVE  there = TRUE
    <3>1. forward[n][0] \in OnLevels[0]
      <4>1. CASE writer.op = "insert" /\ n = writer.node
        <5>1. (n \in OnLevels[0] <=> 0 < writer.level) /\ (0 >= writer.level => forward[n][0] = NULL)
          BY <1>3, <1>4, <4>1 DEF SkipWork, Inserting
        <5>2. writer.level \in Nat
          BY <1>3, <4>1, WriterKinds DEF SkipWork
        <5> QED BY <2>5, <5>1, <5>2
      <4>2. CASE writer.op = "delete" /\ n = writer.node
        BY <1>3, <1>4, <2>5, <4>2 DEF SkipWork, Unlinking
      <4> QED BY <2>5, <4>1, <4>2
    <3>2. forward[n][0] # 0
      BY <1>3, <2>5, SkipAssumption DEF SkipShape
    <3>3. k \in Present
      <4>1. OnLevels[0] = OnLevel(0)
        BY <1>4 DEF OnLevels
      <4> QED BY <2>5, <3>1, <3>2, <4>1 DEF Present
    <3> QED BY <1>12, <3>3
  <2>6. writer.op = "insert" => writer.node \in F
    OBVIOUS
  <2>7. Fresh(F)'
    <3>1. (\A i \in Levels : OnLevels[i] \subseteq F)'
      BY <1>2, <2>3
    <3>2. (writer.op = "insert" => writer.node \in F)'
      BY <1>1, <2>6
    <3>3. (\A n \in F, i \in Levels : forward[n][i] \in F \cup {NULL})'
      BY <1>1, <1>2, <2>4
    <3>4. (\A n \in F \ OnLevels[0] :
             forward[n][0] # NULL /\ key[forward[n][0]] = search.key => TRUE \in search.was)'
      BY <1>1, <1>2, <1>6, <2>5
    <3> QED BY <3>1, <3>2, <3>3, <3>4 DEF Fresh
  <2> QED BY <2>2, <2>7
<1>9. SoFar'
  <2>1. (search.key \in Present => TRUE \in search.was)'
    <3>1. k \in Present => there = TRUE
      BY <1>12
    <3> QED BY <1>2, <1>6, <3>1
  <2>2. (search.key \notin Present => FALSE \in search.was)'
    <3>1. k \notin Present => there = FALSE
      BY <1>12
    <3> QED BY <1>2, <1>6, <3>1
  <2>3. (writer.op \in {"delete", "lower"} => search.deletes)'
    <3>1. writer.op \in {"delete", "lower"} => del
      OBVIOUS
    <3> QED BY <1>1, <1>6, <3>1
  <2>4. (search.pc = "last" => search.level = 0)'
    BY <1>6
  <2>5. (\E F \in SUBSET SkipNodes : Fresh(F) /\ search.current \in F)'
    BY <1>6, <1>8
  <2> QED BY <2>1, <2>2, <2>3, <2>4, <2>5 DEF SoFar
<1>10. Undisturbed'
  <2>1. 0 \in OnLevels[skip_list_level]
    BY <1>4 DEF IsChain
  <2>2. key[0] < k
    BY <1>3, SkipAssumption DEF SkipShape
  <2> QED BY <1>1, <1>2, <1>6, <2>1, <2>2 DEF Undisturbed
<1>11. SearchesAreLinearizable'
  BY <1>6 DEF SearchesAreLinearizable
<1> QED BY <1>2, <1>7, <1>9, <1>10, <1>11 DEF SkipSearch

\* A step of the search to another place from which it goes on.
LEMMA Reaches ==
  ASSUME SkipWrites, SkipSearch, Searching, UNCHANGED <<key, forward, skip_list_level, element_count, writer>>,
         NEW pc \in {"test", "compare", "move", "last"}, NEW level \in Levels, NEW current \in SkipNodes,
         search' = [search EXCEPT !.pc = pc, !.level = level, !.current = current],
         pc = "last" => level = 0,
         \A F \in SUBSET SkipNodes : Fresh(F) /\ search.current \in F => current \in F,
         Undisturbed /\ ~search.deletes =>
           /\ current \in OnLevels[level] /\ key[current] < search.key
           /\ pc \in {"compare", "move"} => forward[current][level] # NULL
           /\ pc = "move" => key[forward[current][level]] < search.key
           /\ pc = "last" /\ ~search.inserts /\ FALSE \notin search.was
                => forward[current][level] # NULL /\ key[forward[current][level]] = search.key
  PROVE  SkipWrites' /\ SkipSearch'
<1>1. SkipWrites' /\ OnLevels' = OnLevels /\ SkipNodes' = SkipNodes /\ Levels' = Levels /\ Present' = Present
      /\ SkipSearches' = SkipSearches
  BY ReadersWriteNothing
<1>2. /\ search \in SkipSearches /\ SoFar /\ (search.deletes \/ Undisturbed)
  BY SearchTypes
<1>3. search \in [pc : {"test", "compare", "move", "last", "found", "missed", "crashed"}, key : SkipKeys,
                  level : Levels, current : SkipNodes, was : SUBSET BOOLEAN, deletes : BOOLEAN, inserts : BOOLEAN]
  BY <1>2 DEF SkipSearches
<1>4. /\ search'.pc = pc /\ search'.key = search.key /\ search'.level = level /\ search'.current = current
      /\ search'.was = search.was /\ search'.deletes = search.deletes /\ search'.inserts = search.inserts
  BY <1>3
<1>5. search' \in SkipSearches'
  <2>1. search' \in [pc : {"test", "compare", "move", "last", "found", "missed", "crashed"}, key : SkipKeys,
                     level : Levels, current : SkipNodes, was : SUBSET BOOLEAN, deletes : BOOLEAN, inserts : BOOLEAN]
    BY <1>3
  <2> QED BY <1>1, <2>1 DEF SkipSearches
<1>6. SoFar'
  <2>1. (\E F \in SUBSET SkipNodes : Fresh(F) /\ search.current \in F)'
    <3> PICK F \in SUBSET SkipNodes : Fresh(F) /\ search.current \in F
      BY <1>2 DEF SoFar
    <3>1. Fresh(F)'
      BY <1>1, <1>4 DEF Fresh
    <3>2. current \in F
      OBVIOUS
    <3> QED BY <1>1, <1>4, <3>1, <3>2
  <2>2. (search.pc = "last" => search.level = 0)'
    BY <1>4
  <2>3. (writer.op \in {"delete", "lower"} => search.deletes)'
    BY <1>2, <1>4 DEF SoFar
  <2>6. search'.key \in Present' <=> search.key \in Present
    BY <1>1, <1>4
  <2>7. search'.was = search.was
    BY <1>4
  <2>4. (search.key \in Present => TRUE \in search.was)'
    <3>1. search.key \in Present => TRUE \in search.was
      BY <1>2 DEF SoFar
    <3> QED BY <2>6, <2>7, <3>1
  <2>5. (search.key \notin Present => FALSE \in search.was)'
    <3>1. search.key \notin Present => FALSE \in search.was
      BY <1>2 DEF SoFar
    <3> QED BY <2>6, <2>7, <3>1
  <2> QED BY <2>1, <2>2, <2>3, <2>4, <2>5 DEF SoFar
<1>7. (search.deletes \/ Undisturbed)'
  <2>1. Read' = forward[current][level]
    BY <1>4 DEF Read
  <2>2. Undisturbed /\ ~search.deletes => Undisturbed'
    BY <1>1, <1>4, <2>1 DEF Undisturbed
  <2> QED BY <1>2, <1>4, <2>2
<1>8. SearchesAreLinearizable'
  BY <1>4 DEF SearchesAreLinearizable
<1> QED BY <1>1, <1>5, <1>6, <1>7, <1>8 DEF SkipSearch

\* A step of the search to its answer.
LEMMA Answers ==
  ASSUME SkipWrites, SkipSearch, UNCHANGED <<key, forward, skip_list_level, element_count, writer>>,
         search \in SkipSearches,
         NEW pc \in {"found", "missed", "crashed"}, search' = [search EXCEPT !.pc = pc],
         pc = "found" => TRUE \in search.was,
         pc = "missed" => search.deletes \/ search.inserts \/ FALSE \in search.was,
         pc = "crashed" => search.deletes
  PROVE  SkipWrites' /\ SkipSearch'
<1>1. SkipWrites' /\ SkipSearches' = SkipSearches
  BY ReadersWriteNothing
<1>2. search \in [pc : {"test", "compare", "move", "last", "found", "missed", "crashed"}, key : SkipKeys,
                  level : Levels, current : SkipNodes, was : SUBSET BOOLEAN, deletes : BOOLEAN, inserts : BOOLEAN]
  BY DEF SkipSearches
<1>3. /\ search'.pc = pc /\ search'.was = search.was /\ search'.deletes = search.deletes
      /\ search'.inserts = search.inserts
  BY <1>2
<1>4. search' \in SkipSearches'
  BY <1>1, <1>2 DEF SkipSearches
<1>5. ~Searching'
  BY <1>3 DEF Searching
<1>6. SearchesAreLinearizable'
  BY <1>3 DEF SearchesAreLinearizable
<1> QED BY <1>1, <1>4, <1>5, <1>6 DEF SkipSearch

\* The comparison, or the end of the level, sends the search down.
LEMMA GoesDownKeeps ==
  ASSUME SkipWrites, SkipSearch, Searching, UNCHANGED <<key, forward, skip_list_level, element_count, writer>>,
         search' = GoesDown, Read # NULL => ~(key[Read] < search.key)
  PROVE  SkipWrites' /\ SkipSearch'
<1>1. /\ search \in SkipSearches /\ SoFar /\ (search.deletes \/ Undisturbed)
      /\ search.key \in SkipKeys /\ search.level \in Levels /\ search.current \in SkipNodes
  BY SearchTypes
<1>2. SkipShape /\ SkipLists /\ SkipWork /\ ShapeTypes
  BY ShapeFacts DEF SkipWrites
<1>3. search \in [pc : {"test", "compare", "move", "last", "found", "missed", "crashed"}, key : SkipKeys,
                  level : Levels, current : SkipNodes, was : SUBSET BOOLEAN, deletes : BOOLEAN, inserts : BOOLEAN]
  BY <1>1 DEF SkipSearches
<1>4. OnLevels \in [Levels -> SUBSET SkipNodes] /\ (\A i \in Levels : IsChain(key, forward, OnLevels[i], i))
      /\ \A n \in SkipNodes : key[n] \in Nat
  BY <1>2 DEF SkipLists, ShapeTypes
<1>5. CASE search.level = 0
  <2>1. search' = [search EXCEPT !.pc = "last", !.level = 0, !.current = search.current]
    BY <1>3, <1>5 DEF GoesDown
  <2>2. ASSUME Undisturbed, ~search.inserts, FALSE \notin search.was
        PROVE  forward[search.current][0] # NULL /\ key[forward[search.current][0]] = search.key
    <3>1. search.key \in Present
      BY <1>1, <2>2 DEF SoFar
    <3>2. OnLevels[0] = OnLevel(0) /\ 0 \in Levels
      BY <1>2 DEF OnLevels, ShapeTypes
    <3> PICK n \in OnLevels[0] : key[n] = search.key
      BY <3>1, <3>2 DEF Present
    <3> PICK c : c = search.current
      OBVIOUS
    <3>3. c \in OnLevels[0] /\ key[c] < key[n]
      BY <1>5, <2>2 DEF Undisturbed
    <3> PICK q : q = forward[c][0]
      OBVIOUS
    <3>4. q # NULL /\ key[q] <= key[n] /\ q \in OnLevels[0]
      BY <1>4, <3>2, <3>3 DEF IsChain
    <3>5. key[q] \in Nat /\ key[n] \in Nat
      BY <1>4, <3>2, <3>4
    <3>6. ~(key[q] < key[n])
      BY <1>5, <3>4 DEF Read
    <3> QED BY <3>4, <3>5, <3>6
  <2>3. Undisturbed => search.current \in OnLevels[0] /\ key[search.current] < search.key
    BY <1>5 DEF Undisturbed
  <2>4. 0 \in Levels /\ "last" \in {"test", "compare", "move", "last"}
    BY <1>2 DEF ShapeTypes
  <2> QED BY <1>1, <2>1, <2>2, <2>3, <2>4, Reaches
<1>6. CASE search.level # 0
  <2> PICK l : l = search.level - 1
    OBVIOUS
  <2>1. l \in Levels /\ l <= search.level
    BY <1>1, <1>6, SkipAssumption DEF Levels
  <2>2. search' = [search EXCEPT !.pc = "test", !.level = l, !.current = search.current]
    BY <1>3, <1>6 DEF GoesDown
  <2>3. ASSUME Undisturbed, ~search.deletes
        PROVE  search.current \in OnLevels[l] /\ key[search.current] < search.key
    <3>1. Deleting = {}
      BY <1>1, <2>3 DEF SoFar, Deleting
    <3>2. OnLevels[search.level] \subseteq OnLevels[l]
      BY <1>1, <1>2, <2>1, <3>1 DEF SkipLists
    <3> QED BY <2>3, <3>2 DEF Undisturbed
  <2>4. "test" \in {"test", "compare", "move", "last"}
    OBVIOUS
  <2> QED BY <1>1, <2>1, <2>2, <2>3, <2>4, Reaches
<1> QED BY <1>5, <1>6

\* Now one lemma per action of a search.
LEMMA TestKeeps ==
  ASSUME SkipWrites, SkipSearch, Test
  PROVE  SkipWrites' /\ SkipSearch'
<1>1. search.pc = "test" /\ UNCHANGED <<key, forward, skip_list_level, element_count, writer>>
  BY DEF Test, Reading
<1>2. Searching
  BY <1>1 DEF Searching
<1>3. CASE Read = NULL
  <2>1. search' = GoesDown
    BY <1>3 DEF Test
  <2> QED BY <1>1, <1>2, <1>3, <2>1, GoesDownKeeps
<1>4. CASE Read # NULL
  <2>1. search' = [search EXCEPT !.pc = "compare"]
    BY <1>4 DEF Test
  <2>2. search \in SkipSearches /\ search.level \in Levels /\ search.current \in SkipNodes
    BY <1>2, SearchTypes
  <2>3. search' = [search EXCEPT !.pc = "compare", !.level = search.level, !.current = search.current]
    BY <2>1, <2>2 DEF SkipSearches
  <2>4. Undisturbed => search.current \in OnLevels[search.level] /\ key[search.current] < search.key
    BY DEF Undisturbed
  <2>5. forward[search.current][search.level] # NULL
    BY <1>4 DEF Read
  <2>6. "compare" \in {"test", "compare", "move", "last"}
    OBVIOUS
  <2> HIDE <2>1
  <2> QED BY <1>1, <1>2, <2>2, <2>3, <2>4, <2>5, <2>6, Reaches
<1> QED BY <1>3, <1>4

LEMMA CompareKeeps ==
  ASSUME SkipWrites, SkipSearch, Compare
  PROVE  SkipWrites' /\ SkipSearch'
<1>1. search.pc = "compare" /\ UNCHANGED <<key, forward, skip_list_level, element_count, writer>>
  BY DEF Compare, Reading
<1>2. Searching
  BY <1>1 DEF Searching
<1>3. /\ search \in SkipSearches /\ search.level \in Levels /\ search.current \in SkipNodes
      /\ (search.deletes \/ Undisturbed)
  BY <1>2, SearchTypes
<1>4. CASE Read = NULL
  <2>1. search' = [search EXCEPT !.pc = "crashed"]
    BY <1>4 DEF Compare
  <2>2. search.deletes
    BY <1>1, <1>3, <1>4 DEF Undisturbed
  <2>3. "crashed" \in {"found", "missed", "crashed"}
    OBVIOUS
  <2> QED BY <1>1, <1>3, <2>1, <2>2, <2>3, Answers
<1>5. CASE Read # NULL /\ key[Read] < search.key
  <2>1. search' = [search EXCEPT !.pc = "move"]
    BY <1>5 DEF Compare
  <2>3. search' = [search EXCEPT !.pc = "move", !.level = search.level, !.current = search.current]
    BY <1>3, <2>1 DEF SkipSearches
  <2>4. Undisturbed => search.current \in OnLevels[search.level] /\ key[search.current] < search.key
    BY DEF Undisturbed
  <2>5. forward[search.current][search.level] # NULL /\ key[forward[search.current][search.level]] < search.key
    BY <1>5 DEF Read
  <2>6. "move" \in {"test", "compare", "move", "last"}
    OBVIOUS
  <2> QED BY <1>1, <1>2, <1>3, <2>3, <2>4, <2>5, <2>6, Reaches
<1>6. CASE Read # NULL /\ ~(key[Read] < search.key)
  <2>1. search' = GoesDown
    BY <1>6 DEF Compare
  <2> QED BY <1>1, <1>2, <1>6, <2>1, GoesDownKeeps
<1> QED BY <1>4, <1>5, <1>6

LEMMA MoveKeeps ==
  ASSUME SkipWrites, SkipSearch, Move
  PROVE  SkipWrites' /\ SkipSearch'
<1>1. search.pc = "move" /\ UNCHANGED <<key, forward, skip_list_level, element_count, writer>>
  BY DEF Move, Reading
<1>2. Searching
  BY <1>1 DEF Searching
<1>3. /\ search \in SkipSearches /\ search.level \in Levels /\ search.current \in SkipNodes
      /\ (search.deletes \/ Undisturbed)
  BY <1>2, SearchTypes
<1>4. CASE Read = NULL
  <2>1. search' = [search EXCEPT !.pc = "crashed"]
    BY <1>4 DEF Move
  <2>2. search.deletes
    BY <1>1, <1>3, <1>4 DEF Undisturbed
  <2>3. "crashed" \in {"found", "missed", "crashed"}
    OBVIOUS
  <2> QED BY <1>1, <1>3, <2>1, <2>2, <2>3, Answers
<1>5. CASE Read # NULL
  <2>1. search' = [search EXCEPT !.pc = "test", !.current = Read]
    BY <1>5 DEF Move
  <2> PICK q : q = Read
    OBVIOUS
  <2>2. q \in SkipNodes
    <3>1. forward \in [SkipNodes -> [Levels -> SkipNodes \cup {NULL}]]
      BY DEF SkipWrites, SkipShape
    <3> QED BY <1>3, <1>5, <3>1 DEF Read
  <2>3. search' = [search EXCEPT !.pc = "test", !.level = search.level, !.current = q]
    BY <1>3, <2>1 DEF SkipSearches
  <2>4. Undisturbed => q \in OnLevels[search.level] /\ key[q] < search.key
    <3>1. IsChain(key, forward, OnLevels[search.level], search.level)
      BY <1>3 DEF SkipWrites, SkipLists
    <3> QED BY <1>1, <1>5, <3>1 DEF Undisturbed, IsChain, Read
  <2>5. \A F \in SUBSET SkipNodes : Fresh(F) /\ search.current \in F => q \in F
    BY <1>3, <1>5 DEF Fresh, Read
  <2>6. "test" \in {"test", "compare", "move", "last"}
    OBVIOUS
  <2> QED BY <1>1, <1>2, <1>3, <2>2, <2>3, <2>4, <2>5, <2>6, Reaches
<1> QED BY <1>4, <1>5

LEMMA LastNodeKeeps ==
  ASSUME SkipWrites, SkipSearch, LastNode
  PROVE  SkipWrites' /\ SkipSearch'
<1>1. search.pc = "last" /\ UNCHANGED <<key, forward, skip_list_level, element_count, writer>>
  BY DEF LastNode, Reading
<1>2. Searching
  BY <1>1 DEF Searching
<1>3. /\ search \in SkipSearches /\ SoFar /\ search.level = 0 /\ search.current \in SkipNodes
      /\ (search.deletes \/ Undisturbed) /\ search.key \in SkipKeys
  BY <1>1, <1>2, SearchTypes DEF SoFar
<1>4. CASE Read # NULL /\ key[Read] = search.key
  <2>1. search' = [search EXCEPT !.pc = "found"]
    BY <1>4 DEF LastNode
  <2>2. TRUE \in search.was
    <3> PICK F \in SUBSET SkipNodes : Fresh(F) /\ search.current \in F
      BY <1>3 DEF SoFar
    <3> PICK q : q = Read
      OBVIOUS
    <3>1. q = forward[search.current][0]
      BY <1>3 DEF Read
    <3>2. CASE search.current \notin OnLevels[0]
      BY <1>4, <3>1, <3>2 DEF Fresh
    <3>3. CASE search.current \in OnLevels[0]
      <4>1. IsChain(key, forward, OnLevels[0], 0) /\ OnLevels[0] = OnLevel(0)
        BY ShapeFacts DEF SkipWrites, SkipLists, ShapeTypes, OnLevels
      <4>2. q \in OnLevel(0)
        BY <1>4, <3>1, <3>3, <4>1 DEF IsChain
      <4>3. q # 0
        BY <1>3, <1>4, SkipAssumption DEF SkipWrites, SkipShape
      <4>4. search.key \in Present
        BY <1>4, <4>2, <4>3 DEF Present
      <4> QED BY <1>3, <4>4 DEF SoFar
    <3> QED BY <3>2, <3>3
  <2>3. "found" \in {"found", "missed", "crashed"}
    OBVIOUS
  <2> QED BY <1>1, <1>3, <2>1, <2>2, <2>3, Answers
<1>5. CASE ~(Read # NULL /\ key[Read] = search.key)
  <2>1. search' = [search EXCEPT !.pc = "missed"]
    BY <1>5 DEF LastNode
  <2>2. search.deletes \/ search.inserts \/ FALSE \in search.was
    BY <1>1, <1>3, <1>5 DEF Undisturbed
  <2>3. "missed" \in {"found", "missed", "crashed"}
    OBVIOUS
  <2> QED BY <1>1, <1>3, <2>1, <2>2, <2>3, Answers
<1> QED BY <1>4, <1>5

LEMMA SearchEndsKeeps ==
  ASSUME SkipWrites, SkipSearch, SearchEnds
  PROVE  SkipWrites' /\ SkipSearch'
<1>1. search' = [pc |-> "none"] /\ UNCHANGED <<key, forward, skip_list_level, element_count, writer>>
  BY DEF SearchEnds
<1>2. SkipWrites'
  BY <1>1, ReadersWriteNothing
<1>3. search'.pc = "none"
  BY <1>1
<1>4. ~Searching' /\ SearchesAreLinearizable'
  BY <1>3 DEF Searching, SearchesAreLinearizable
<1> QED BY <1>1, <1>2, <1>4 DEF SkipSearch

-----------------------------------------------------------------------------
(* The theorems.                                                           *)

LEMMA SkipStepKeeps ==
  ASSUME SkipInv, [SkipNext]_skipVars
  PROVE  SkipInv'
<1>1. SkipWrites /\ SkipSearch
  BY DEF SkipInv, SkipWrites
<1>2. CASE UNCHANGED skipVars
  <2>1. SkipWrites' /\ OnLevels' = OnLevels /\ SkipNodes' = SkipNodes /\ Levels' = Levels /\ Present' = Present
        /\ SkipSearches' = SkipSearches
    BY <1>1, <1>2, ReadersWriteNothing DEF skipVars
  <2>2. search' = search /\ UNCHANGED <<key, forward, writer>>
    BY <1>2 DEF skipVars
  <2>3. SkipSearch'
    <3>1. (search \in SkipSearches \cup {[pc |-> "none"]})'
      BY <1>1, <2>1, <2>2 DEF SkipSearch
    <3>2. SearchesAreLinearizable'
      BY <1>1, <2>2 DEF SkipSearch, SearchesAreLinearizable
    <3>3. Searching' <=> Searching
      BY <2>2 DEF Searching
    <3>4. Searching => SoFar'
      <4> SUFFICES ASSUME Searching
                   PROVE  SoFar'
        OBVIOUS
      <4>1. SoFar
        BY <1>1 DEF SkipSearch
      <4>2. \A F : Fresh(F)' <=> Fresh(F)
        BY <2>1, <2>2 DEF Fresh
      <4> QED BY <2>1, <2>2, <4>1, <4>2 DEF SoFar
    <3>5. Searching => (search.deletes \/ Undisturbed)'
      BY <1>1, <2>1, <2>2 DEF SkipSearch, Undisturbed, Read
    <3> QED BY <3>1, <3>2, <3>3, <3>4, <3>5 DEF SkipSearch
  <2> QED BY <2>1, <2>3 DEF SkipInv, SkipWrites
<1>3. ASSUME SkipNext
      PROVE  SkipWrites' /\ SkipSearch'
  <2>1. ASSUME NEW k \in SkipKeys, NEW top \in 1..TopLevel, InsertNew(k, top)
        PROVE  SkipWrites' /\ SkipSearch'
    BY <1>1, <2>1, InsertNewKeeps, InsertNewSearch
  <2>2. ASSUME NEW k \in SkipKeys, DeleteStart(k)
        PROVE  SkipWrites' /\ SkipSearch'
    BY <1>1, <2>2, DeleteStartKeeps, DeleteStartSearch
  <2>3. ASSUME NEW k \in SkipKeys, SearchStart(k)
        PROVE  SkipWrites' /\ SkipSearch'
    BY <1>1, <2>3, SearchStartKeeps
  <2>4. CASE LinkLevel
    BY <1>1, <2>4, LinkLevelKeeps, LinkLevelSearch
  <2>5. CASE Inserted
    BY <1>1, <2>5, InsertedKeeps, InsertedSearch
  <2>6. CASE UnlinkLevel
    BY <1>1, <2>6, UnlinkLevelKeeps, UnlinkLevelSearch
  <2>7. CASE Lower
    BY <1>1, <2>7, LowerKeeps, LowerSearch
  <2>8. CASE Test \/ Compare \/ Move \/ LastNode \/ SearchEnds
    BY <1>1, <2>8, TestKeeps, CompareKeeps, MoveKeeps, LastNodeKeeps, SearchEndsKeeps
  <2> QED BY <1>3, <2>1, <2>2, <2>3, <2>4, <2>5, <2>6, <2>7, <2>8 DEF SkipNext
<1>4. SkipInv' <=> SkipWrites' /\ SkipSearch'
  BY DEF SkipInv, SkipWrites
<1> QED BY <1>2, <1>3, <1>4

LEMMA SkipInvIsSorted == SkipInv => LevelsAreSorted
<1> SUFFICES ASSUME SkipInv
             PROVE  LevelsAreSorted
  OBVIOUS
<1>1. SkipShape /\ SkipLists /\ SkipWork /\ SkipSearch /\ ShapeTypes
  BY ShapeFacts DEF SkipInv
<1>2. \A i \in Levels : OnLevel(i) = OnLevels[i]
  BY DEF OnLevels
<1>3. OnLevels \in [Levels -> SUBSET SkipNodes] /\ (\A i \in Levels : IsChain(key, forward, OnLevels[i], i))
      /\ 0 \in Levels /\ Levels \subseteq Nat /\ \A n \in SkipNodes : key[n] \in Nat
  BY <1>1 DEF SkipLists, ShapeTypes
<1>4. SkipTypeOK
  <2>1. writer.op \in {"none", "insert", "delete", "lower"}
    BY <1>1, WriterKinds DEF SkipWork
  <2>2. search.pc \in {"none", "test", "compare", "move", "last", "found", "missed", "crashed"}
    BY <1>1 DEF SkipSearch, SkipSearches
  <2> QED BY <1>1, <2>1, <2>2 DEF SkipTypeOK, SkipShape, ShapeTypes
<1>5. ASSUME writer = Idle
      PROVE  /\ skip_list_level > 0 => OnLevel(skip_list_level) # {0}
             /\ element_count = Cardinality(OnLevel(0)) - 1
  <2>1. Ahead = 0 /\ Behind = 0
    BY <1>5 DEF Ahead, Behind, Idle
  <2>2. element_count = Cardinality(OnLevel(0)) - 1
    <3>1. Cardinality(OnLevels[0]) \in Nat
      <4>1. OnLevels[0] \subseteq SkipNodes /\ IsFiniteSet(SkipNodes)
        BY <1>1, <1>3 DEF ShapeTypes
      <4> QED BY <4>1, FS_Subset, FS_CardinalityType
    <3>2. element_count \in Nat /\ Cardinality(OnLevels[0]) + 0 = element_count + 1 + 0
      BY <1>1, <2>1 DEF SkipShape, SkipWork
    <3> QED BY <1>2, <1>3, <3>1, <3>2
  <2>3. skip_list_level > 0 => OnLevel(skip_list_level) # {0}
    BY <1>1, <1>2, <1>5 DEF SkipWork, SkipShape
  <2> QED BY <2>2, <2>3
<1>6. ASSUME NEW i \in Levels
      PROVE  /\ i > skip_list_level => OnLevel(i) = {0}
             /\ i > 0 => \A n \in OnLevel(i) \ OnLevel(i - 1) : writer.op = "delete" /\ n = writer.node
  <2>1. i > skip_list_level => OnLevel(i) = {0}
    BY <1>1, <1>2 DEF SkipLists
  <2>2. ASSUME i > 0
        PROVE  \A n \in OnLevel(i) \ OnLevel(i - 1) : n \in Deleting
    <3>1. i - 1 \in Levels /\ i - 1 <= i
      BY <2>2, SkipAssumption DEF Levels
    <3>2. OnLevels[i] \subseteq OnLevels[i - 1] \cup Deleting
      BY <1>1, <3>1 DEF SkipLists
    <3> QED BY <1>2, <3>1, <3>2
  <2>3. \A n \in Deleting : writer.op = "delete" /\ n = writer.node
    BY DEF Deleting
  <2> QED BY <2>1, <2>2, <2>3
<1>7. ASSUME NEW i \in Levels, NEW n \in OnLevel(i), forward[n][i] # NULL
      PROVE  key[n] < key[forward[n][i]]
  <2> PICK q : q = forward[n][i]
    OBVIOUS
  <2>1. n \in OnLevels[i] /\ IsChain(key, forward, OnLevels[i], i)
    BY <1>2, <1>3
  <2>2. q \in OnLevels[i]
    BY <1>7, <2>1 DEF IsChain
  <2>3. key[q] <= key[q]
    BY <1>3, <2>2
  <2> QED BY <1>7, <2>1, <2>2, <2>3 DEF IsChain
<1> QED BY <1>4, <1>5, <1>6, <1>7 DEF LevelsAreSorted

\* What the writers, one after the other under the mutex, have in progress and
\* what a search without it can still reach: the invariant behind both.
THEOREM SkipInvariance == SkipSpec => []SkipInv
<1>1. SkipInv /\ [SkipNext]_skipVars => SkipInv'
  BY SkipStepKeeps
<1> QED BY <1>1, SkipInitRight, PTL DEF SkipSpec

\* skiplist.h: after every pointer that an insert or a delete changes, each level is
\* sorted, and is part of the level below it but for the node being deleted; between
\* two writers size() is right, however many inserts and deletes there were.
THEOREM LevelsAlwaysSorted == SkipSpec => []LevelsAreSorted
BY SkipInvariance, SkipInvIsSorted, PTL

\* skiplist.h:276-301: what a search without the mutex answers was so at some time while
\* it ran, but for a miss or a crash next to a delete, or a miss next to an
\* insert of a smaller key.
THEOREM SearchesAlwaysLinearizable == SkipSpec => []SearchesAreLinearizable
<1>1. SkipInv => SearchesAreLinearizable
  BY DEF SkipInv, SkipSearch
<1> QED BY <1>1, SkipInvariance, PTL
=============================================================================
