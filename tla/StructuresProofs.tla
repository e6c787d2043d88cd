-------------------------- MODULE StructuresProofs --------------------------
(***************************************************************************)
(* Proofs about four of the sequential structures.                         *)
(*                                                                         *)
(* CircularBuffer.tla, for any items and any capacities: the ring with its *)
(* wrapping index and its full flag is the list of the newest items        *)
(* (RecentItems.tla), through additions and resizes.                       *)
(*                                                                         *)
(* ConsistentHash.tla, for any members, replicas and hash functions: the   *)
(* circle is of members only and its points are sorted, without collisions *)
(* a name moves only where it must, and a lookup gets the members it meets *)
(* on the way round.                                                       *)
(*                                                                         *)
(* KernelList.tla, for any heads and entries: every operation on the       *)
(* circular lists leaves each as the calls say, and every loop over one    *)
(* meets what it should, whatever its body takes off.                      *)
(*                                                                         *)
(* AdList.tla, for any memory: every operation on the lists is the one on  *)
(* sequences that its comment names, and an iterator goes on through       *)
(* insertions anywhere and the deletion of the node it returned last.      *)
(***************************************************************************)
EXTENDS CircularBuffer, ConsistentHash, KernelList, AdList, FiniteSetTheorems, SequenceTheorems, TLAPS

-----------------------------------------------------------------------------
(* The ring buffer.                                                        *)

\* Every slot behind the index was assigned, and all of them once the ring has
\* been full.
AssignedSlots == \A i \in 0..capacity - 1 : full \/ i < front => buffer[i] \in RingItems

RingInv == RingTypeOK /\ AssignedSlots

-----------------------------------------------------------------------------
(* Around the ring.                                                        *)

LEMMA Around ==
  ASSUME NEW c \in Nat \ {0}, NEW a \in Nat, a < c + c
  PROVE  /\ a < c => a % c = a
         /\ a >= c => a % c = a - c
<1>1. CASE a < c
  BY <1>1
<1>2. CASE a >= c
  <2>1. PICK b \in 0..c - 1 : b = a - c
    BY <1>2
  <2>2. (b + c) % c = b
    OBVIOUS
  <2> QED BY <1>2, <2>1, <2>2
<1> QED BY <1>1, <1>2

\* The slot of the item at i, counted from the oldest one.
SlotOf(i) == IF full THEN IF front + i < capacity THEN front + i ELSE front + i - capacity
             ELSE i

LEMMA Ring ==
  ASSUME RingInv
  PROVE  /\ capacity \in Nat \ {0} /\ front \in 0..capacity - 1 /\ full \in BOOLEAN
         /\ Size \in 0..capacity
         /\ \A i \in 0..Size - 1 : /\ SlotOf(i) \in 0..capacity - 1
                                   /\ At(i) = buffer[SlotOf(i)]
                                   /\ At(i) \in RingItems
<1>1. capacity \in Nat \ {0} /\ front \in 0..capacity - 1 /\ full \in BOOLEAN
  BY RingAssumption DEF RingInv, RingTypeOK
<1>2. Size \in 0..capacity
  BY <1>1 DEF Size
<1>3. ASSUME NEW i \in 0..Size - 1
      PROVE  SlotOf(i) \in 0..capacity - 1 /\ At(i) = buffer[SlotOf(i)] /\ At(i) \in RingItems
  <2>1. CASE full
    <3>1. i \in 0..capacity - 1
      BY <1>1, <2>1 DEF Size
    <3>2. front + i \in Nat /\ front + i < capacity + capacity
      BY <1>1, <3>1
    <3>3. (front + i) % capacity = SlotOf(i)
      <4>1. PICK a \in Nat : a = front + i
        BY <3>2
      <4>2. (a < capacity => a % capacity = a) /\ (a >= capacity => a % capacity = a - capacity)
        BY <1>1, <3>2, <4>1, Around
      <4> QED BY <1>1, <2>1, <4>1, <4>2 DEF SlotOf
    <3>4. SlotOf(i) \in 0..capacity - 1
      BY <1>1, <2>1, <3>1 DEF SlotOf
    <3> QED BY <2>1, <3>3, <3>4 DEF At, RingInv, AssignedSlots
  <2>2. CASE ~full
    <3>1. i \in 0..capacity - 1 /\ i < front /\ SlotOf(i) = i
      BY <1>1, <2>2 DEF Size, SlotOf
    <3> QED BY <2>2, <3>1 DEF At, RingInv, AssignedSlots
  <2> QED BY <2>1, <2>2
<1> QED BY <1>1, <1>2, <1>3

LEMMA ContentsAre ==
  ASSUME RingInv
  PROVE  /\ Contents \in Seq(RingItems) /\ Len(Contents) = Size
         /\ \A i \in 1..Size : Contents[i] = At(i - 1)
<1>1. Size \in Nat /\ \A i \in 1..Size : At(i - 1) \in RingItems
  BY Ring
<1>2. Contents \in [1..Size -> RingItems]
  BY <1>1 DEF Contents
<1>3. Contents \in Seq(RingItems)
  BY <1>1, <1>2, SeqDef
<1>4. Len(Contents) = Size
  BY <1>1, <1>2, <1>3, LenProperties
<1> QED BY <1>3, <1>4 DEF Contents

-----------------------------------------------------------------------------
(* The invariant.                                                          *)

LEMMA RingInitHolds ==
  RingInit => RingInv
<1> SUFFICES ASSUME RingInit PROVE RingInv
  OBVIOUS
<1>1. /\ capacity \in Capacities /\ capacity \in Nat \ {0} /\ front = 0 /\ full = FALSE
      /\ buffer = [i \in 0..capacity - 1 |-> Hole]
  BY RingAssumption DEF RingInit
<1>2. RingTypeOK
  <2>1. front \in 0..capacity - 1
    BY <1>1
  <2>2. full \in BOOLEAN
    BY <1>1
  <2>3. buffer \in [0..capacity - 1 -> RingItems \cup {Hole}]
    BY <1>1
  <2> QED BY <1>1, <2>1, <2>2, <2>3 DEF RingTypeOK
<1>3. AssignedSlots
  BY <1>1 DEF AssignedSlots
<1> QED BY <1>2, <1>3 DEF RingInv

LEMMA AddKeeps ==
  ASSUME RingInv, NEW x \in RingItems, AddItem(x)
  PROVE  RingInv'
<1>1. /\ capacity \in Nat \ {0} /\ front \in 0..capacity - 1 /\ full \in BOOLEAN
      /\ capacity' = capacity /\ front' = (front + 1) % capacity
      /\ full' = (full \/ front + 1 = capacity) /\ buffer' = [buffer EXCEPT ![front] = x]
  BY Ring DEF AddItem
<1>2. front' = IF front + 1 < capacity THEN front + 1 ELSE 0
  <2>1. PICK a \in Nat : a = front + 1
    BY <1>1
  <2>2. a < capacity + capacity
    BY <1>1, <2>1
  <2>3. (a < capacity => a % capacity = a) /\ (a >= capacity => a % capacity = a - capacity)
    BY <1>1, <2>2, Around
  <2> QED BY <1>1, <2>1, <2>3
<1>3. /\ buffer' \in [0..capacity - 1 -> RingItems \cup {Hole}]
      /\ \A i \in 0..capacity - 1 : buffer'[i] = IF i = front THEN x ELSE buffer[i]
  BY <1>1 DEF RingInv, RingTypeOK
<1>4. RingTypeOK'
  BY <1>1, <1>2, <1>3 DEF RingInv, RingTypeOK
<1>5. AssignedSlots'
  <2> SUFFICES ASSUME NEW i \in 0..capacity - 1, full' \/ i < front'
               PROVE  buffer'[i] \in RingItems
    BY <1>1 DEF AssignedSlots
  <2>1. CASE i = front
    BY <1>3, <2>1
  <2>2. CASE i # front
    <3>1. full \/ i < front
      BY <1>1, <1>2, <2>2
    <3> QED BY <1>3, <2>2, <3>1 DEF RingInv, AssignedSlots
  <2> QED BY <2>1, <2>2
<1> QED BY <1>4, <1>5 DEF RingInv

\* What a resize leaves, with the newest items at the beginning.
LEMMA ResizeLeaves ==
  ASSUME RingInv, NEW n \in Capacities, ResizeRing(n)
  PROVE  /\ Offset(n) \in Nat /\ Offset(n) = IF Size > n THEN Size - n ELSE 0
         /\ Size - Offset(n) \in 0..n /\ n \in Nat \ {0}
         /\ capacity' = n /\ front' = (IF Size - Offset(n) = n THEN 0 ELSE Size - Offset(n))
         /\ full' = (Size - Offset(n) = n) /\ buffer' \in [0..n - 1 -> RingItems \cup {Hole}]
         /\ \A i \in 0..Size - Offset(n) - 1 : /\ buffer'[i] = At(i + Offset(n))
                                               /\ buffer'[i] \in RingItems
<1> DEFINE kept == Size - Offset(n)
<1>1. n \in Nat \ {0} /\ capacity \in Nat \ {0} /\ Size \in 0..capacity
  BY Ring, RingAssumption
<1>2. Offset(n) \in Nat /\ Offset(n) = (IF Size > n THEN Size - n ELSE 0) /\ kept \in 0..n
  BY <1>1 DEF Offset
<1>3. /\ buffer' = [i \in 0..n - 1 |-> IF i < kept THEN At(i + Offset(n)) ELSE Hole]
      /\ front' = kept % n /\ full' = (kept = n) /\ capacity' = n
  BY DEF ResizeRing
<1>4. \A i \in 0..kept - 1 : i + Offset(n) \in 0..Size - 1
  BY <1>1, <1>2
<1>5. \A i \in 0..kept - 1 : At(i + Offset(n)) \in RingItems
  BY <1>4, Ring
<1> HIDE DEF kept
<1>6. kept % n = IF kept = n THEN 0 ELSE kept
  <2>1. kept \in Nat /\ kept < n + n
    BY <1>1, <1>2
  <2>2. (kept < n => kept % n = kept) /\ (kept >= n => kept % n = kept - n)
    BY <1>1, <2>1, Around
  <2> QED BY <1>1, <1>2, <2>2
<1>7. \A i \in 0..n - 1 : buffer'[i] = IF i < kept THEN At(i + Offset(n)) ELSE Hole
  BY <1>3
<1>8. \A i \in 0..kept - 1 : buffer'[i] = At(i + Offset(n)) /\ buffer'[i] \in RingItems
  BY <1>1, <1>2, <1>5, <1>7
<1>9. buffer' \in [0..n - 1 -> RingItems \cup {Hole}]
  <2>1. \A i \in 0..n - 1 : i < kept => i \in 0..kept - 1
    BY <1>1, <1>2
  <2> QED BY <1>3, <1>5, <2>1
<1> QED BY <1>1, <1>2, <1>3, <1>6, <1>8, <1>9 DEF kept

LEMMA ResizeKeeps ==
  ASSUME RingInv, NEW n \in Capacities, ResizeRing(n)
  PROVE  RingInv'
<1> DEFINE kept == Size - Offset(n)
<1>1. /\ kept \in 0..n /\ n \in Nat \ {0} /\ capacity' = n
      /\ front' = (IF kept = n THEN 0 ELSE kept) /\ full' = (kept = n)
      /\ buffer' \in [0..n - 1 -> RingItems \cup {Hole}]
      /\ \A i \in 0..kept - 1 : buffer'[i] \in RingItems
  BY ResizeLeaves
<1> HIDE DEF kept
<1>2. RingTypeOK'
  BY <1>1 DEF RingTypeOK
<1>3. AssignedSlots'
  <2>1. CASE kept = n
    BY <1>1, <2>1 DEF AssignedSlots
  <2>2. CASE kept # n
    <3>1. full' = FALSE /\ front' = kept
      BY <1>1, <2>2
    <3>2. \A i \in 0..n - 1 : i < kept => i \in 0..kept - 1
      BY <1>1
    <3> QED BY <1>1, <3>1, <3>2 DEF AssignedSlots
  <2> QED BY <2>1, <2>2
<1> QED BY <1>2, <1>3 DEF RingInv

-----------------------------------------------------------------------------
(* Every step is a step of the list of the newest items.                   *)

\* When the newest n items are all of them, and which they are otherwise.
LEMMA NewestAre ==
  ASSUME NEW s \in Seq(RingItems), NEW n \in Nat \ {0}
  PROVE  /\ Len(s) <= n => Recent!Newest(s, n) = s
         /\ Len(s) > n => /\ Recent!Newest(s, n) \in Seq(RingItems)
                          /\ Len(Recent!Newest(s, n)) = n
                          /\ \A i \in 1..n : Recent!Newest(s, n)[i] = s[Len(s) - n + i]
<1>1. Len(s) \in Nat
  OBVIOUS
<1>2. CASE Len(s) <= n
  BY <1>1, <1>2 DEF Recent!Newest
<1>3. CASE Len(s) > n
  <2> DEFINE from == Len(s) - n + 1
             newest == SubSeq(s, from, Len(s))
  <2>1. Recent!Newest(s, n) = newest
    BY <1>1, <1>3 DEF Recent!Newest
  <2>2. from \in 1..Len(s) /\ Len(s) - from + 1 = n /\ from <= Len(s)
    BY <1>1, <1>3
  <2>3. \A i \in from..Len(s) : s[i] \in RingItems
    BY <2>2, ElementOfSeq
  <2> HIDE DEF from
  <2>4. /\ newest \in Seq(RingItems) /\ Len(newest) = n
        /\ \A i \in 1..n : newest[i] = s[from + i - 1]
    BY <1>1, <2>2, <2>3, SubSeqProperties
  <2>5. \A i \in 1..n : from + i - 1 = Len(s) - n + i
    BY <1>1 DEF from
  <2> HIDE DEF newest
  <2> QED BY <1>3, <2>1, <2>4, <2>5
<1> QED BY <1>1, <1>2, <1>3

\* The size and the contents after a step, in terms of the new slots.
LEMMA ContentsAfter ==
  /\ Size' = IF full' THEN capacity' ELSE front'
  /\ Contents' = [i \in 1..Size' |-> IF full' THEN buffer'[(front' + (i - 1)) % capacity']
                                     ELSE buffer'[i - 1]]
BY DEF Size, Contents, At

LEMMA AddRefines ==
  ASSUME RingInv, NEW x \in RingItems, AddItem(x)
  PROVE  Recent!Add(x)
<1> DEFINE longer == Append(Contents, x)
           newest == Recent!Newest(longer, capacity)
<1>1. /\ capacity \in Nat \ {0} /\ front \in 0..capacity - 1 /\ full \in BOOLEAN
      /\ capacity' = capacity /\ front' = (front + 1) % capacity
      /\ full' = (full \/ front + 1 = capacity) /\ buffer' = [buffer EXCEPT ![front] = x]
  BY Ring DEF AddItem
<1>2. /\ \A i \in 0..capacity - 1 : buffer'[i] = IF i = front THEN x ELSE buffer[i]
      /\ front' = IF front + 1 < capacity THEN front + 1 ELSE 0
  <2>1. PICK a \in Nat : a = front + 1
    BY <1>1
  <2>2. a < capacity + capacity
    BY <1>1, <2>1
  <2>3. (a < capacity => a % capacity = a) /\ (a >= capacity => a % capacity = a - capacity)
    BY <1>1, <2>2, Around
  <2>4. buffer \in [0..capacity - 1 -> RingItems \cup {Hole}]
    BY DEF RingInv, RingTypeOK
  <2> QED BY <1>1, <2>1, <2>3, <2>4
<1>3. Contents \in Seq(RingItems) /\ Len(Contents) = Size /\ Size \in 0..capacity
  BY Ring, ContentsAre
<1>4. /\ longer \in Seq(RingItems) /\ Len(longer) = Size + 1 /\ longer[Size + 1] = x
      /\ \A i \in 1..Size : longer[i] = Contents[i]
  BY <1>3, AppendProperties
<1>5. \A i \in 1..Size : Contents[i] = buffer[SlotOf(i - 1)]
  <2>1. \A i \in 1..Size : i - 1 \in 0..Size - 1
    BY <1>3
  <2> QED BY <2>1, Ring, ContentsAre
<1> HIDE DEF longer
<1>6. CASE ~full
  <2>1. Size = front /\ Len(longer) <= capacity /\ newest = longer
    BY <1>1, <1>3, <1>4, <1>6, NewestAre DEF Size
  <2>2. Size' = front + 1
    <3>1. front + 1 = capacity => full' /\ Size' = capacity'
      BY <1>1, ContentsAfter
    <3>2. front + 1 # capacity => ~full' /\ Size' = front' /\ front' = front + 1
      BY <1>1, <1>2, <1>6, ContentsAfter
    <3> QED BY <1>1, <3>1, <3>2
  <2>3. \A i \in 1..front + 1 : Contents'[i] = buffer'[i - 1]
    <3>1. CASE full'
      <4>1. front' = 0 /\ front + 1 = capacity
        BY <1>1, <1>2, <1>6, <3>1
      <4>2. \A i \in 1..front + 1 : (0 + (i - 1)) % capacity = i - 1
        BY <1>1, <4>1
      <4> QED BY <1>1, <2>2, <3>1, <4>1, <4>2, ContentsAfter
    <3>2. CASE ~full'
      BY <2>2, <3>2, ContentsAfter
    <3> QED BY <3>1, <3>2
  <2>4. \A i \in 1..front + 1 : buffer'[i - 1] = longer[i]
    <3>1. \A i \in 1..front : SlotOf(i - 1) = i - 1
      BY <1>6 DEF SlotOf
    <3>2. \A i \in 1..front : buffer'[i - 1] = buffer[i - 1]
      BY <1>1, <1>2
    <3>3. buffer'[(front + 1) - 1] = x
      BY <1>1, <1>2
    <3> QED BY <1>1, <1>4, <1>5, <2>1, <3>1, <3>2, <3>3
  <2>5. Contents' = longer
    <3>1. longer = [i \in 1..front + 1 |-> longer[i]]
      BY <1>4, <2>1, LenProperties
    <3>2. Contents' = [i \in 1..front + 1 |-> Contents'[i]]
      BY <2>2, ContentsAfter
    <3> QED BY <2>3, <2>4, <3>1, <3>2
  <2> QED BY <1>1, <2>1, <2>5 DEF Recent!Add, longer
<1>7. CASE full
  <2>1. Size = capacity /\ Len(longer) > capacity
    BY <1>1, <1>3, <1>4, <1>7 DEF Size
  <2>2. /\ newest \in Seq(RingItems) /\ Len(newest) = capacity
        /\ \A i \in 1..capacity : newest[i] = longer[i + 1]
    <3>1. /\ newest \in Seq(RingItems) /\ Len(newest) = capacity
          /\ \A i \in 1..capacity : newest[i] = longer[Len(longer) - capacity + i]
      BY <1>1, <1>4, <2>1, NewestAre
    <3>2. \A i \in 1..capacity : Len(longer) - capacity + i = i + 1
      BY <1>1, <1>4, <2>1
    <3> QED BY <3>1, <3>2
  <2>3. full' /\ Size' = capacity
    BY <1>1, <1>7, ContentsAfter
  <2> HIDE DEF newest
  <2>4. ASSUME NEW i \in 1..capacity
        PROVE  Contents'[i] = newest[i]
    <3> DEFINE slot == (front' + (i - 1)) % capacity
    <3>1. Contents'[i] = buffer'[slot]
      BY <1>1, <2>3, ContentsAfter
    <3>2. slot = IF front + i < capacity THEN front + i ELSE front + i - capacity
      <4>1. PICK a \in Nat : a = front' + (i - 1)
        BY <1>1, <1>2
      <4>2. a < capacity + capacity
        BY <1>1, <1>2, <4>1
      <4>3. (a < capacity => a % capacity = a) /\ (a >= capacity => a % capacity = a - capacity)
        BY <1>1, <4>2, Around
      <4> QED BY <1>1, <1>2, <4>1, <4>3
    <3> HIDE DEF slot
    <3>3. CASE i = capacity
      <4>1. slot = front
        BY <1>1, <3>2, <3>3
      <4>2. newest[i] = x
        BY <1>4, <2>1, <2>2, <3>3
      <4> QED BY <1>1, <1>2, <3>1, <4>1, <4>2
    <3>4. CASE i < capacity
      <4>1. slot \in 0..capacity - 1 /\ slot # front /\ i + 1 \in 1..capacity
        BY <1>1, <3>2, <3>4
      <4>2. slot = SlotOf((i + 1) - 1)
        BY <1>1, <1>7, <3>2 DEF SlotOf
      <4>3. newest[i] = buffer[slot]
        BY <1>4, <1>5, <2>1, <2>2, <4>1, <4>2
      <4> QED BY <1>2, <3>1, <4>1, <4>3
    <3> QED BY <1>1, <3>3, <3>4
  <2>5. Contents' = newest
    <3>1. newest = [i \in 1..capacity |-> newest[i]]
      BY <2>2, LenProperties
    <3>2. Contents' = [i \in 1..capacity |-> Contents'[i]]
      BY <2>3, ContentsAfter
    <3> QED BY <2>4, <3>1, <3>2
  <2> QED BY <1>1, <2>5 DEF Recent!Add, newest, longer
<1> QED BY <1>1, <1>6, <1>7

LEMMA ResizeRefines ==
  ASSUME RingInv, NEW n \in Capacities, ResizeRing(n)
  PROVE  Recent!Resize(n)
<1> DEFINE kept == Size - Offset(n)
           newest == Recent!Newest(Contents, n)
<1>1. /\ Offset(n) \in Nat /\ Offset(n) = IF Size > n THEN Size - n ELSE 0
      /\ kept \in 0..n /\ n \in Nat \ {0}
      /\ capacity' = n /\ front' = (IF kept = n THEN 0 ELSE kept) /\ full' = (kept = n)
      /\ \A i \in 0..kept - 1 : buffer'[i] = At(i + Offset(n))
  BY ResizeLeaves
<1>2. /\ Contents \in Seq(RingItems) /\ Len(Contents) = Size /\ Size \in Nat
      /\ \A i \in 1..Size : Contents[i] = At(i - 1)
  BY Ring, ContentsAre
<1>3. newest \in Seq(RingItems) /\ Len(newest) = kept
      /\ \A i \in 1..kept : newest[i] = Contents[i + Offset(n)]
  <2>1. CASE Size > n
    <3>1. /\ newest \in Seq(RingItems) /\ Len(newest) = n
          /\ \A i \in 1..n : newest[i] = Contents[Len(Contents) - n + i]
      BY <1>1, <1>2, <2>1, NewestAre
    <3>2. kept = n /\ \A i \in 1..n : Len(Contents) - n + i = i + Offset(n)
      BY <1>1, <1>2, <2>1
    <3> QED BY <3>1, <3>2
  <2>2. CASE Size <= n
    <3>1. newest = Contents
      BY <1>1, <1>2, <2>2, NewestAre
    <3>2. kept = Size /\ \A i \in 1..Size : i + Offset(n) = i
      BY <1>1, <1>2, <2>2
    <3> QED BY <1>2, <3>1, <3>2
  <2> QED BY <1>1, <1>2, <2>1, <2>2
<1>4. \A i \in 1..kept : newest[i] = buffer'[i - 1]
  <2>1. \A i \in 1..kept : /\ i + Offset(n) \in 1..Size /\ i - 1 \in 0..kept - 1
                           /\ (i + Offset(n)) - 1 = (i - 1) + Offset(n)
    <3>1. Offset(n) \in Nat
      BY <1>1
    <3>2. Size \in Nat
      BY <1>2
    <3>3. PICK size \in Nat, from \in Nat : size = Size /\ from = Offset(n)
      BY <3>1, <3>2
    <3>4. \A i \in 1..size - from : /\ i + from \in 1..size /\ i - 1 \in 0..(size - from) - 1
                                    /\ (i + from) - 1 = (i - 1) + from
      OBVIOUS
    <3> QED BY <3>3, <3>4
  <2> QED BY <1>1, <1>2, <1>3, <2>1
<1> HIDE DEF kept, newest
<1>5. Size' = kept
  BY <1>1, ContentsAfter
<1>6. \A i \in 1..kept : Contents'[i] = buffer'[i - 1]
  <2>1. CASE kept = n
    <3>1. full' = TRUE /\ front' = 0 /\ capacity' = n
      BY <1>1, <2>1
    <3>2. \A i \in 1..kept : (0 + (i - 1)) % n = i - 1
      BY <1>1, <2>1
    <3> QED BY <1>5, <3>1, <3>2, ContentsAfter
  <2>2. CASE kept # n
    <3>1. full' = FALSE
      BY <1>1, <2>2
    <3> QED BY <1>5, <3>1, ContentsAfter
  <2> QED BY <2>1, <2>2
<1>7. Contents' = newest
  <2>1. newest = [i \in 1..kept |-> newest[i]]
    BY <1>3, LenProperties
  <2>2. Contents' = [i \in 1..kept |-> Contents'[i]]
    BY <1>5, ContentsAfter
  <2> QED BY <1>4, <1>6, <2>1, <2>2
<1> QED BY <1>1, <1>7 DEF Recent!Resize, newest

-----------------------------------------------------------------------------
(* The theorems.                                                           *)

\* Additions and resizes keep the ring well formed, and every slot that
\* operator[] can give has been assigned.
THEOREM RingInvariance == RingSpec => []RingInv
<1>1. RingInit => RingInv
  BY RingInitHolds
<1>2. RingInv /\ [RingNext]_ringVars => RingInv'
  <2> SUFFICES ASSUME RingInv, [RingNext]_ringVars PROVE RingInv'
    OBVIOUS
  <2>1. CASE \E x \in RingItems : AddItem(x)
    BY <2>1, AddKeeps
  <2>2. CASE \E n \in Capacities : ResizeRing(n)
    BY <2>2, ResizeKeeps
  <2>3. CASE UNCHANGED ringVars
    BY <2>3 DEF ringVars, RingInv, RingTypeOK, AssignedSlots
  <2> QED BY <2>1, <2>2, <2>3 DEF RingNext
<1> QED BY <1>1, <1>2, PTL DEF RingSpec

\* The ring implements the list of the newest items, for any capacities it is
\* made and resized with (Circular_Buffer.h:86 to 150).
THEOREM Refinement == RingSpec => RingIsRecentItems
<1>1. RingInv => RingTypeOK
  BY DEF RingInv
<1>2. RingInit => Recent!Init
  <2> SUFFICES ASSUME RingInit PROVE Recent!Init
    OBVIOUS
  <2>1. Size = 0
    BY DEF RingInit, Size
  <2>2. Contents = << >>
    BY <2>1 DEF Contents
  <2> QED BY <2>2 DEF RingInit, Recent!Init
<1>3. RingInv /\ [RingNext]_ringVars => [Recent!Next]_<<Contents, capacity>>
  <2> SUFFICES ASSUME RingInv, [RingNext]_ringVars
               PROVE  [Recent!Next]_<<Contents, capacity>>
    OBVIOUS
  <2>1. CASE \E x \in RingItems : AddItem(x)
    BY <2>1, AddRefines DEF Recent!Next
  <2>2. CASE \E n \in Capacities : ResizeRing(n)
    BY <2>2, ResizeRefines DEF Recent!Next
  <2>3. CASE UNCHANGED ringVars
    BY <2>3 DEF ringVars, Contents, Size, At
  <2> QED BY <2>1, <2>2, <2>3 DEF RingNext
<1> QED BY <1>1, <1>2, <1>3, RingInvariance, PTL DEF RingSpec, RingIsRecentItems, Recent!Spec

-----------------------------------------------------------------------------
(* Consistent hashing.                                                     *)

\* The circle holds points of members only, all of them unless hashes collide,
\* and SortedHashes is up to date.
HashInv ==
  /\ HashTypeOK
  /\ Circle \in [DOMAIN Circle -> Elts] /\ IsFiniteSet(Members)
  /\ \A k \in DOMAIN Circle : Circle[k] \in Members /\ k \in PointsOf(Circle[k])
  /\ Injective => \A e \in Members : PointsOf(e) \subseteq DOMAIN Circle
  /\ SortedHashes = Sorted(DOMAIN Circle)

-----------------------------------------------------------------------------
(* Sorted sets of hash values.                                             *)

\* A set of numbers has a smallest one.
LEMMA LeastExists ==
  ASSUME NEW S \in SUBSET Nat, S # {}
  PROVE  \E m \in S : \A x \in S : m <= x
<1> DEFINE Less == {p \in Nat \X Nat : p[1] < p[2]}
<1>1. IsWellFoundedOn(Less, Nat)
  BY NatLessThanWellFounded DEF OpToRel
<1> HIDE DEF Less
<1>2. PICK m \in S : \A y \in S : <<y, m>> \notin Less
  BY <1>1, WFMin
<1>3. ASSUME NEW x \in S
      PROVE  m <= x
  <2>1. x \in Nat /\ m \in Nat
    OBVIOUS
  <2>2. x < m => <<x, m>> \in Less
    BY <2>1 DEF Less
  <2>3. ~(x < m)
    BY <1>2, <2>2
  <2> QED BY <2>1, <2>3
<1> QED BY <1>3

\* How many elements are smaller.
Rank(S, k) == Cardinality({l \in S : l < k})

LEMMA KeysAreFinite == IsFiniteSet(Keys) /\ Keys \subseteq Nat
<1>1. HashSpace - 1 \in Int /\ 0 \in Int
  BY HashAssumption
<1> QED BY <1>1, FS_Interval DEF Keys

\* Of two elements the larger one has the higher rank.
LEMMA RanksDiffer ==
  ASSUME NEW S \in SUBSET Keys, NEW k \in S, NEW m \in S, k < m
  PROVE  Rank(S, k) < Rank(S, m)
<1> DEFINE A == {l \in S : l < k}
           B == {l \in S : l < m}
<1>1. k \in Int /\ m \in Int /\ \A l \in S : l \in Int
  BY KeysAreFinite
<1>2. A \subseteq B /\ k \in B /\ k \notin A
  <2>1. \A l \in S : l < k => l < m
    BY <1>1
  <2>2. ~(k < k)
    BY <1>1
  <2> QED BY <2>1, <2>2
<1>3. B \subseteq Keys
  OBVIOUS
<1> HIDE DEF A, B
<1>4. IsFiniteSet(B)
  BY <1>3, KeysAreFinite, FS_Subset
<1>5. IsFiniteSet(A) /\ Cardinality(A) <= Cardinality(B) /\ Cardinality(A) # Cardinality(B)
  BY <1>2, <1>4, FS_Subset
<1>6. Cardinality(A) \in Nat /\ Cardinality(B) \in Nat
  BY <1>4, <1>5, FS_CardinalityType
<1>7. Cardinality(A) < Cardinality(B)
  BY <1>5, <1>6
<1> QED BY <1>7 DEF Rank, A, B

\* Every rank below the number of elements is one element's.
LEMMA RanksAreAll ==
  ASSUME NEW S \in SUBSET Keys
  PROVE  /\ IsFiniteSet(S) /\ Cardinality(S) \in Nat
         /\ \A k \in S : Rank(S, k) \in 0..Cardinality(S) - 1
         /\ \A i \in 0..Cardinality(S) - 1 : \E k \in S : Rank(S, k) = i
<1> DEFINE n == Cardinality(S)
<1>1. IsFiniteSet(S) /\ n \in Nat
  BY KeysAreFinite, FS_Subset, FS_CardinalityType
<1>2. ASSUME NEW k \in S
      PROVE  Rank(S, k) \in 0..n - 1
  <2> DEFINE A == {l \in S : l < k}
  <2>1. k \in Int
    BY KeysAreFinite
  <2>2. A \subseteq S \ {k}
    BY <2>1
  <2> HIDE DEF A, n
  <2>3. IsFiniteSet(S \ {k}) /\ Cardinality(S \ {k}) = n - 1
    BY <1>1, FS_RemoveElement DEF n
  <2>4. IsFiniteSet(A) /\ Cardinality(A) <= n - 1
    BY <2>2, <2>3, FS_Subset
  <2>5. Cardinality(A) \in Nat
    BY <2>4, FS_CardinalityType
  <2>6. Cardinality(A) \in 0..n - 1
    BY <1>1, <2>4, <2>5
  <2> QED BY <2>6 DEF Rank, A
<1> DEFINE T == 0..n - 1
           f == [k \in S |-> Rank(S, k)]
<1>3. f \in [S -> T]
  BY <1>2
<1>4. IsFiniteSet(T) /\ Cardinality(T) = n
  <2> HIDE DEF n
  <2>1. n - 1 \in Int /\ 0 \in Int
    BY <1>1
  <2> QED BY <1>1, <2>1, FS_Interval
<1>5. \A k, m \in S : k # m => f[k] # f[m]
  <2> SUFFICES ASSUME NEW k \in S, NEW m \in S, k # m
               PROVE  f[k] # f[m]
    OBVIOUS
  <2>1. k \in Int /\ m \in Int
    BY KeysAreFinite
  <2>2. Rank(S, k) \in Int /\ Rank(S, m) \in Int
    BY <1>1, <1>2
  <2>3. k < m \/ m < k
    BY <2>1
  <2>4. Rank(S, k) < Rank(S, m) \/ Rank(S, m) < Rank(S, k)
    BY <2>3, RanksDiffer
  <2> QED BY <2>2, <2>4
<1>6. f \in Injection(S, T)
  BY <1>3, <1>5 DEF Injection, IsInjective
<1> HIDE DEF f, T
<1>7. f \in Surjection(S, T)
  BY <1>4, <1>6, FS_Injection DEF n
<1>8. \A i \in T : \E k \in S : f[k] = i
  BY <1>7 DEF Surjection
<1>9. \A i \in 0..n - 1 : \E k \in S : Rank(S, k) = i
  BY <1>8 DEF f, T
<1> QED BY <1>1, <1>2, <1>9

\* Sorted(S) is S in order.
LEMMA SortedIs ==
  ASSUME NEW S \in SUBSET Keys
  PROVE  /\ Sorted(S) \in Seq(Keys) /\ Len(Sorted(S)) = Cardinality(S)
         /\ DOMAIN Sorted(S) = 1..Cardinality(S) /\ Cardinality(S) \in Nat
         /\ \A i \in DOMAIN Sorted(S) : Sorted(S)[i] \in S
         /\ \A k \in S : \E i \in DOMAIN Sorted(S) : Sorted(S)[i] = k
         /\ \A i, j \in DOMAIN Sorted(S) : i < j => Sorted(S)[i] < Sorted(S)[j]
<1> DEFINE n == Cardinality(S)
           q == Sorted(S)
<1>1. /\ IsFiniteSet(S) /\ n \in Nat
      /\ \A k \in S : Rank(S, k) \in 0..n - 1
      /\ \A i \in 0..n - 1 : \E k \in S : Rank(S, k) = i
  BY RanksAreAll
<1>2. ASSUME NEW i \in 1..n
      PROVE  q[i] \in S /\ Rank(S, q[i]) = i - 1
  <2>1. i - 1 \in 0..n - 1
    BY <1>1
  <2>2. \E k \in S : Rank(S, k) = i - 1
    BY <1>1, <2>1
  <2>3. q[i] = CHOOSE k \in S : Rank(S, k) = i - 1
    BY DEF Sorted, Rank
  <2> QED BY <2>2, <2>3
<1>3. DOMAIN q = 1..n
  BY DEF Sorted
<1>4. q \in [1..n -> Keys]
  <2>1. \A i \in 1..n : (CHOOSE k \in S : Cardinality({l \in S : l < k}) = i - 1) \in S
    BY <1>2 DEF Sorted
  <2> QED BY <2>1 DEF Sorted
<1> HIDE DEF q, n
<1>5. \A k \in S : k \in Int
  BY KeysAreFinite
<1>6. q \in Seq(Keys) /\ Len(q) = n
  BY <1>1, <1>4, SeqDef, LenProperties
<1>7. ASSUME NEW k \in S
      PROVE  \E i \in 1..n : q[i] = k
  <2>1. PICK r \in 0..n - 1 : r = Rank(S, k)
    BY <1>1
  <2>2. r + 1 \in 1..n /\ (r + 1) - 1 = r
    BY <1>1
  <2>3. q[r + 1] \in S /\ Rank(S, q[r + 1]) = r
    BY <1>2, <2>2
  <2>4. k \in Int /\ q[r + 1] \in Int
    BY <1>5, <2>3
  <2>5. r \in Int
    BY <1>1
  <2>6. ~(k < q[r + 1]) /\ ~(q[r + 1] < k)
    BY <2>1, <2>3, <2>5, RanksDiffer
  <2> QED BY <2>2, <2>4, <2>6
<1>8. ASSUME NEW i \in 1..n, NEW j \in 1..n, i < j
      PROVE  q[i] < q[j]
  <2>1. /\ q[i] \in S /\ q[j] \in S
        /\ Rank(S, q[i]) = i - 1 /\ Rank(S, q[j]) = j - 1
    BY <1>2
  <2>2. q[i] \in Int /\ q[j] \in Int /\ i \in Int /\ j \in Int
    BY <1>1, <1>5, <2>1
  <2>3. ~(j - 1 < i - 1) /\ i - 1 # j - 1
    BY <1>8, <2>2
  <2>4. ~(q[j] < q[i]) /\ q[i] # q[j]
    BY <2>1, <2>3, RanksDiffer
  <2> QED BY <2>2, <2>4
<1> QED BY <1>1, <1>2, <1>3, <1>6, <1>7, <1>8 DEF q, n

-----------------------------------------------------------------------------
(* Looking up.                                                             *)

\* p is the point of D that a key belongs to.
Follows(D, key, p) ==
  /\ p \in D
  /\ IF \E l \in D : l > key THEN p > key /\ \A l \in D : l > key => p <= l
                             ELSE \A l \in D : p <= l

\* The first point of a sorted sequence that is above a key, or the first one.
FirstAbove(q, key) ==
  LET above == {i \in DOMAIN q : q[i] > key}
  IN  IF above = {} THEN 1 ELSE CHOOSE i \in above : i - 1 \notin above

\* It is the point that the key belongs to.
LEMMA SearchFinds ==
  ASSUME NEW D \in SUBSET Keys, D # {}, NEW k \in Keys
  PROVE  Follows(D, k, Sorted(D)[FirstAbove(Sorted(D), k)])
<1> DEFINE q == Sorted(D)
           above == {i \in DOMAIN q : q[i] > k}
<1> HIDE DEF q
<1>3. /\ DOMAIN q = 1..Cardinality(D) /\ Cardinality(D) \in Nat
      /\ \A i \in DOMAIN q : q[i] \in D
      /\ \A l \in D : \E i \in DOMAIN q : q[i] = l
      /\ \A i, j \in DOMAIN q : i < j => q[i] < q[j]
  BY SortedIs DEF q
<1>4. k \in Int /\ \A l \in D : l \in Int
  BY KeysAreFinite
<1>5. FirstAbove(q, k) = IF above = {} THEN 1 ELSE CHOOSE i \in above : i - 1 \notin above
  BY DEF FirstAbove, q
<1>6. CASE above = {}
  <2>1. 1 \in DOMAIN q
    <3>1. PICK i \in DOMAIN q : TRUE
      BY <1>3
    <3> QED BY <1>3, <3>1
  <2>2. ASSUME NEW l \in D
        PROVE  q[1] <= l /\ ~(l > k)
    <3>1. PICK i \in DOMAIN q : q[i] = l
      BY <1>3
    <3>2. i = 1 \/ 1 < i
      BY <1>3
    <3>3. q[1] \in Int /\ l \in Int
      BY <1>3, <1>4, <2>1
    <3>4. q[1] = l \/ q[1] < l
      BY <1>3, <2>1, <3>1, <3>2
    <3> QED BY <1>6, <3>1, <3>3, <3>4
  <2>3. q[1] \in D
    BY <1>3, <2>1
  <2> QED BY <1>5, <1>6, <2>2, <2>3 DEF Follows, q
<1>7. CASE above # {}
  <2>1. above \subseteq Nat /\ 0 \notin above
    BY <1>3
  <2>2. PICK least \in above : \A i \in above : least <= i
    BY <1>7, <2>1, LeastExists
  <2>3. least - 1 \notin above
    <3> SUFFICES ASSUME least - 1 \in above
                 PROVE  FALSE
      OBVIOUS
    <3>1. least <= least - 1 /\ least \in Nat
      BY <2>1, <2>2
    <3> QED BY <3>1
  <2>4. PICK s : s = FirstAbove(q, k)
    OBVIOUS
  <2>5. s \in above /\ s - 1 \notin above
    BY <1>5, <1>7, <2>2, <2>3, <2>4
  <2>6. s \in DOMAIN q /\ q[s] > k /\ q[s] \in D
    BY <1>3, <2>5
  <2>7. ASSUME NEW l \in D, l > k
        PROVE  q[s] <= l
    <3>1. PICK i \in DOMAIN q : q[i] = l
      BY <1>3
    <3>2. CASE i < s
      <4>1. s - 1 \in DOMAIN q /\ (i = s - 1 \/ i < s - 1)
        BY <1>3, <2>6, <3>2
      <4>2. ~(q[s - 1] > k)
        BY <2>5, <4>1
      <4>3. q[i] <= q[s - 1]
        <5>1. q[i] \in Int /\ q[s - 1] \in Int
          BY <1>3, <1>4, <4>1
        <5>2. q[i] = q[s - 1] \/ q[i] < q[s - 1]
          BY <1>3, <4>1
        <5> QED BY <5>1, <5>2
      <4>4. q[i] \in Int /\ q[s - 1] \in Int
        BY <1>3, <1>4, <4>1
      <4> QED BY <1>4, <2>7, <3>1, <4>2, <4>3, <4>4
    <3>3. CASE ~(i < s)
      <4>1. s = i \/ s < i
        BY <1>3, <2>6, <3>3
      <4>2. q[s] = l \/ q[s] < l
        BY <1>3, <2>6, <3>1, <4>1
      <4>3. q[s] \in Int /\ l \in Int
        BY <1>4, <2>6
      <4> QED BY <4>2, <4>3
    <3> QED BY <3>2, <3>3
  <2>8. Follows(D, k, q[s])
    BY <2>6, <2>7 DEF Follows
  <2> QED BY <2>4, <2>8 DEF q
<1> QED BY <1>6, <1>7

-----------------------------------------------------------------------------
(* The invariant.                                                          *)

LEMMA PointsAreKeys ==
  ASSUME HashInv, NEW e \in Elts
  PROVE  PointsOf(e) \subseteq Keys
BY HashAssumption DEF HashInv, HashTypeOK, PointsOf, Keys

\* Members that hash to the same point are the same, unless hashes collide.
LEMMA PointsAreApart ==
  ASSUME HashInv, Injective, NEW e \in Elts, NEW f \in Elts, NEW k \in PointsOf(e), k \in PointsOf(f)
  PROVE  e = f
<1>1. DOMAIN hash = Elts \X Replicas
  BY HashAssumption DEF HashInv, HashTypeOK
<1>2. PICK i \in Replicas : k = hash[e, i]
  BY DEF PointsOf
<1>3. PICK j \in Replicas : k = hash[f, j]
  BY DEF PointsOf
<1>4. <<e, i>> = <<f, j>>
  BY <1>1, <1>2, <1>3 DEF Injective
<1> QED BY <1>4

LEMMA HashInitHolds == HashInit => HashInv
<1> SUFFICES ASSUME HashInit
             PROVE  HashInv
  OBVIOUS
<1>1. Circle = << >> /\ Members = {} /\ SortedHashes = << >> /\ Count = 0 /\ hash \in Hashes
  BY DEF HashInit
<1>2. DOMAIN Circle = {}
  BY <1>1
<1>3. Circle \in [DOMAIN Circle -> Elts]
  BY <1>1, <1>2
<1>4. SortedHashes = Sorted(DOMAIN Circle) /\ SortedHashes \in Seq(Keys)
  <2>1. Cardinality({}) = 0
    BY FS_EmptySet
  <2>2. Sorted({}) = << >>
    BY <2>1 DEF Sorted
  <2> QED BY <1>1, <1>2, <2>2
<1> QED BY <1>1, <1>2, <1>3, <1>4, FS_EmptySet DEF HashInv, HashTypeOK

\* What every operation must leave behind.
LEMMA BecomesHolds ==
  ASSUME HashInv, NEW s, Becomes(s), s.members \subseteq Elts, IsFiniteSet(s.members), s.count \in Int,
         NEW D \in SUBSET Keys, s.circle \in [D -> Elts],
         \A k \in D : s.circle[k] \in s.members /\ k \in PointsOf(s.circle[k]),
         Injective => \A e \in s.members : PointsOf(e) \subseteq D
  PROVE  HashInv'
<1>1. /\ Circle' = s.circle /\ Members' = s.members /\ Count' = s.count
      /\ SortedHashes' = Sorted(DOMAIN Circle') /\ hash' = hash
  BY DEF Becomes
<1>2. DOMAIN Circle' = D
  BY <1>1
<1>3. SortedHashes' \in Seq(Keys)
  BY <1>1, <1>2, SortedIs
<1>4. Injective' = Injective
  BY <1>1 DEF Injective
<1>5. hash' \in Hashes
  BY <1>1 DEF HashInv, HashTypeOK
<1>6. HashTypeOK'
  BY <1>1, <1>2, <1>3, <1>5 DEF HashTypeOK
<1>7. Circle' \in [DOMAIN Circle' -> Elts] /\ IsFiniteSet(Members')
  BY <1>1, <1>2
<1>8. (\A k \in DOMAIN Circle : Circle[k] \in Members /\ k \in PointsOf(Circle[k]))'
  BY <1>1, <1>2 DEF PointsOf
<1>9. (Injective => \A e \in Members : PointsOf(e) \subseteq DOMAIN Circle)'
  BY <1>1, <1>2, <1>4 DEF PointsOf
<1> QED BY <1>1, <1>6, <1>7, <1>8, <1>9 DEF HashInv

LEMMA AddHolds ==
  ASSUME HashInv, NEW e \in Elts, AddMember(e)
  PROVE  HashInv'
<1> DEFINE D == DOMAIN Circle \cup PointsOf(e)
<1>1. PICK s : s = Added(Before, e)
  OBVIOUS
<1>2. Becomes(s)
  BY <1>1 DEF AddMember
<1>3. /\ s.circle = [k \in D |-> IF k \in PointsOf(e) THEN e ELSE Circle[k]]
      /\ s.members = Members \cup {e} /\ s.count = Count + 1
  BY <1>1 DEF Added, Before
<1>4. D \in SUBSET Keys
  BY PointsAreKeys DEF HashInv, HashTypeOK
<1> HIDE DEF D
<1>5. \A k \in D : k \notin PointsOf(e) => k \in DOMAIN Circle
  BY DEF D
<1>6. s.members \subseteq Elts /\ IsFiniteSet(s.members) /\ s.count \in Int
  BY <1>3, FS_AddElement DEF HashInv, HashTypeOK
<1>7. s.circle \in [D -> Elts]
  BY <1>3, <1>5 DEF HashInv, HashTypeOK
<1>8. \A k \in D : s.circle[k] \in s.members /\ k \in PointsOf(s.circle[k])
  <2> SUFFICES ASSUME NEW k \in D
               PROVE  s.circle[k] \in s.members /\ k \in PointsOf(s.circle[k])
    OBVIOUS
  <2>1. CASE k \in PointsOf(e)
    BY <1>3, <2>1
  <2>2. CASE k \notin PointsOf(e)
    <3>1. s.circle[k] = Circle[k] /\ k \in DOMAIN Circle
      BY <1>3, <1>5, <2>2
    <3> QED BY <1>3, <3>1 DEF HashInv
  <2> QED BY <2>1, <2>2
<1>9. Injective => \A f \in s.members : PointsOf(f) \subseteq D
  BY <1>3 DEF HashInv, D
<1> QED BY <1>2, <1>4, <1>6, <1>7, <1>8, <1>9, BecomesHolds

LEMMA RemoveHolds ==
  ASSUME HashInv, NEW e \in Elts, RemoveMember(e)
  PROVE  HashInv'
<1> DEFINE D == DOMAIN Circle \ PointsOf(e)
<1>1. PICK s : s = Removed(Before, e)
  OBVIOUS
<1>2. Becomes(s)
  BY <1>1 DEF RemoveMember
<1>3. /\ s.circle = [k \in D |-> Circle[k]]
      /\ s.members = Members \ {e} /\ s.count = Count - 1
  BY <1>1 DEF Removed, Before
<1>4. D \in SUBSET Keys
  BY DEF HashInv, HashTypeOK
<1> HIDE DEF D
<1>5. \A k \in D : k \notin PointsOf(e) /\ k \in DOMAIN Circle
  BY DEF D
<1>6. s.members \subseteq Elts /\ IsFiniteSet(s.members) /\ s.count \in Int
  BY <1>3, FS_RemoveElement DEF HashInv, HashTypeOK
<1>7. s.circle \in [D -> Elts]
  BY <1>3, <1>5 DEF HashInv, HashTypeOK
<1>8. \A k \in D : s.circle[k] \in s.members /\ k \in PointsOf(s.circle[k])
  <2> SUFFICES ASSUME NEW k \in D
               PROVE  s.circle[k] \in s.members /\ k \in PointsOf(s.circle[k])
    OBVIOUS
  <2>1. s.circle[k] = Circle[k] /\ Circle[k] \in Members /\ k \in PointsOf(Circle[k])
    BY <1>3, <1>5 DEF HashInv
  <2>2. Circle[k] # e
    BY <1>5, <2>1
  <2> QED BY <1>3, <2>1, <2>2
<1>9. ASSUME Injective, NEW f \in s.members
      PROVE  PointsOf(f) \subseteq D
  <2>1. f \in Members /\ f # e /\ f \in Elts
    BY <1>3 DEF HashInv, HashTypeOK
  <2>2. PointsOf(f) \subseteq DOMAIN Circle
    BY <1>9, <2>1 DEF HashInv
  <2>3. PointsOf(f) \cap PointsOf(e) = {}
    BY <1>9, <2>1, PointsAreApart
  <2> QED BY <2>2, <2>3 DEF D
<1> QED BY <1>2, <1>4, <1>6, <1>7, <1>8, <1>9, BecomesHolds

\* The last of the new members that hash to a point gets it.
LEMMA NewestExists ==
  ASSUME NEW elts \in Seq(Elts), NEW S \in SUBSET ToSet(elts), S # {}
  PROVE  LET place(e) == CHOOSE i \in DOMAIN elts : elts[i] = e /\ \A j \in 1..i - 1 : elts[j] # e
         IN  (CHOOSE e \in S : \A f \in S : place(f) <= place(e)) \in S
<1> DEFINE place(e) == CHOOSE i \in DOMAIN elts : elts[i] = e /\ \A j \in 1..i - 1 : elts[j] # e
           n == Len(elts)
<1>1. n \in Nat /\ DOMAIN elts = 1..n
  BY LenProperties
<1>2. ASSUME NEW e \in S
      PROVE  place(e) \in 1..n
  <2> DEFINE at == {i \in 1..n : elts[i] = e}
  <2>1. at # {} /\ at \subseteq Nat
    BY <1>1 DEF ToSet
  <2>2. PICK i \in at : \A j \in at : i <= j
    BY <2>1, LeastExists
  <2>3. \A j \in 1..i - 1 : elts[j] # e
    <3> SUFFICES ASSUME NEW j \in 1..i - 1, elts[j] = e
                 PROVE  FALSE
      OBVIOUS
    <3>1. i \in Nat /\ j \in Nat /\ j < i /\ j \in 1..n
      BY <1>1, <2>1, <2>2
    <3>2. i <= j
      BY <2>2, <3>1
    <3> QED BY <3>1, <3>2
  <2>4. \E m \in DOMAIN elts : elts[m] = e /\ \A j \in 1..m - 1 : elts[j] # e
    BY <1>1, <2>2, <2>3
  <2> QED BY <1>1, <2>4
<1> HIDE DEF place
<1> DEFINE back == {n - place(e) : e \in S}
<1>3. back # {} /\ back \subseteq Nat
  BY <1>1, <1>2
<1>4. PICK m \in back : \A x \in back : m <= x
  BY <1>3, LeastExists
<1>5. PICK e \in S : m = n - place(e)
  OBVIOUS
<1>6. \A f \in S : place(f) <= place(e)
  <2> SUFFICES ASSUME NEW f \in S
               PROVE  place(f) <= place(e)
    OBVIOUS
  <2>1. n - place(e) <= n - place(f)
    BY <1>4, <1>5
  <2>2. place(e) \in Int /\ place(f) \in Int /\ n \in Int
    BY <1>1, <1>2
  <2> QED BY <2>1, <2>2
<1>7. \E g \in S : \A f \in S : place(f) <= place(g)
  BY <1>6
<1>8. (CHOOSE g \in S : \A f \in S : place(f) <= place(g)) \in S
  BY <1>7
<1> QED BY <1>8 DEF place

LEMMA SetHolds ==
  ASSUME HashInv, NEW elts \in Seq(Elts), SetMembers(elts)
  PROVE  HashInv'
<1> DEFINE going == Members \ ToSet(elts)
           coming == ToSet(elts) \ Members
           owners(k) == {e \in coming : k \in PointsOf(e)}
           place(e) == CHOOSE i \in DOMAIN elts : elts[i] = e /\ \A j \in 1..i - 1 : elts[j] # e
           newest(k) == CHOOSE e \in owners(k) : \A f \in owners(k) : place(f) <= place(e)
           stay == DOMAIN Circle \ UNION {PointsOf(e) : e \in going}
           come == UNION {PointsOf(e) : e \in coming}
           D == stay \cup come
<1>1. PICK s : s = [circle |-> [k \in stay \cup come |-> IF k \in come THEN newest(k) ELSE Circle[k]],
                    members |-> ToSet(elts),
                    count |-> Count - Cardinality(going) + Cardinality(coming)]
  OBVIOUS
<1>2. Becomes(s)
  BY <1>1 DEF SetMembers
<1>3. ToSet(elts) \subseteq Elts /\ Members \subseteq Elts
  <2>1. DOMAIN elts = 1..Len(elts) /\ \A i \in 1..Len(elts) : elts[i] \in Elts
    BY LenProperties, ElementOfSeq
  <2> QED BY <2>1 DEF ToSet, HashInv, HashTypeOK
<1>4. ASSUME NEW k \in come
      PROVE  newest(k) \in coming /\ k \in PointsOf(newest(k))
  <2>1. owners(k) # {} /\ owners(k) \in SUBSET ToSet(elts)
    OBVIOUS
  <2>2. newest(k) \in owners(k)
    BY <2>1, NewestExists
  <2> QED BY <2>2
<1> HIDE DEF newest
<1>5. s.circle = [k \in D |-> IF k \in come THEN newest(k) ELSE Circle[k]]
  BY <1>1
<1>6. s.members = ToSet(elts) /\ s.count = Count - Cardinality(going) + Cardinality(coming)
  BY <1>1
<1>7. D \in SUBSET Keys
  <2>1. come \subseteq Keys
    BY <1>3, PointsAreKeys
  <2>2. stay \subseteq Keys
    BY DEF HashInv, HashTypeOK
  <2> QED BY <2>1, <2>2
<1>8. IsFiniteSet(ToSet(elts))
  <2>1. Len(elts) \in Nat /\ DOMAIN elts = 1..Len(elts)
    BY LenProperties
  <2>2. IsFiniteSet(1..Len(elts))
    BY <2>1, FS_Interval
  <2>3. elts \in Surjection(1..Len(elts), ToSet(elts))
    BY <2>1 DEF Surjection, ToSet
  <2> QED BY <2>2, <2>3, FS_Surjection
<1>9. s.members \subseteq Elts /\ IsFiniteSet(s.members) /\ s.count \in Int
  <2>1. IsFiniteSet(going) /\ IsFiniteSet(coming)
    BY <1>8, FS_Subset DEF HashInv
  <2>2. Cardinality(going) \in Nat /\ Cardinality(coming) \in Nat
    BY <2>1, FS_CardinalityType
  <2>3. Count \in Int
    BY DEF HashInv, HashTypeOK
  <2> HIDE DEF going, coming
  <2> QED BY <1>3, <1>6, <1>8, <2>2, <2>3
<1>10. ASSUME NEW k \in D
       PROVE  /\ s.circle[k] \in Elts
              /\ s.circle[k] \in s.members /\ k \in PointsOf(s.circle[k])
  <2>1. CASE k \in come
    <3>1. s.circle[k] = newest(k)
      BY <1>5, <2>1
    <3> QED BY <1>3, <1>4, <1>6, <2>1, <3>1
  <2>2. CASE k \notin come
    <3>1. s.circle[k] = Circle[k] /\ k \in stay
      BY <1>5, <2>2
    <3>2. Circle[k] \in Members /\ k \in PointsOf(Circle[k])
      BY <3>1 DEF HashInv
    <3>3. Circle[k] \notin going
      BY <3>1, <3>2
    <3> QED BY <1>3, <1>6, <3>1, <3>2, <3>3
  <2> QED BY <2>1, <2>2
<1>11. ASSUME Injective, NEW f \in s.members
       PROVE  PointsOf(f) \subseteq D
  <2>1. CASE f \in coming
    BY <2>1
  <2>2. CASE f \notin coming
    <3>1. f \in Members /\ f \in Elts /\ f \in ToSet(elts)
      BY <1>3, <1>6, <2>2
    <3>2. PointsOf(f) \subseteq DOMAIN Circle
      BY <1>11, <3>1 DEF HashInv
    <3>3. \A e \in going : PointsOf(f) \cap PointsOf(e) = {}
      BY <1>3, <1>11, <3>1, PointsAreApart
    <3> QED BY <3>2, <3>3
  <2> QED BY <2>1, <2>2
<1> HIDE DEF D
<1>12. s.circle \in [D -> Elts]
  BY <1>5, <1>10
<1> QED BY <1>2, <1>7, <1>9, <1>10, <1>11, <1>12, BecomesHolds

LEMMA BoundedAreSequences ==
  ASSUME NEW elts \in BoundedSeq(Elts, MaxNames)
  PROVE  elts \in Seq(Elts)
<1>1. PICK m \in 0..MaxNames : elts \in [1..m -> Elts]
  BY DEF BoundedSeq, SeqOf
<1> QED BY <1>1, HashAssumption, SeqDef

\* Every Add, Remove and Set leaves the circle, the members and the sorted points in
\* agreement (consistent.go:76 to 148).
THEOREM HashInvariance == HashSpec => []HashInv
<1>1. HashInv /\ [HashNext /\ CountIsSmall']_hashVars => HashInv'
  <2> SUFFICES ASSUME HashInv, [HashNext /\ CountIsSmall']_hashVars
               PROVE  HashInv'
    OBVIOUS
  <2>1. CASE HashNext
    BY <2>1, AddHolds, RemoveHolds, SetHolds, BoundedAreSequences DEF HashNext
  <2>2. CASE UNCHANGED hashVars
    <3>1. /\ Circle' = Circle /\ Members' = Members /\ Count' = Count
          /\ SortedHashes' = SortedHashes /\ hash' = hash
      BY <2>2 DEF hashVars
    <3>2. HashTypeOK'
      BY <3>1 DEF HashInv, HashTypeOK
    <3>3. (\A k \in DOMAIN Circle : Circle[k] \in Members /\ k \in PointsOf(Circle[k]))'
      BY <3>1 DEF HashInv, PointsOf
    <3>4. (Injective => \A e \in Members : PointsOf(e) \subseteq DOMAIN Circle)'
      <4>1. Injective' = Injective
        BY <3>1 DEF Injective
      <4>2. Injective => \A e \in Members : {hash[e, i] : i \in Replicas} \subseteq DOMAIN Circle
        BY DEF HashInv, PointsOf
      <4> QED BY <3>1, <4>1, <4>2 DEF PointsOf
    <3> QED BY <3>1, <3>2, <3>3, <3>4 DEF HashInv
  <2> QED BY <2>1, <2>2
<1> QED BY <1>1, HashInitHolds, PTL DEF HashSpec

\* Points that two members hash to change hands, but never belong to somebody who
\* is not a member, and SortedHashes is the circle's points in order, whatever
\* was added, removed and set (consistent.go:76 to 148).
THEOREM CircleAlwaysOfMembers == HashSpec => []CircleIsOfMembers
<1>1. HashInv => CircleIsOfMembers
  <2> SUFFICES ASSUME HashInv
               PROVE  CircleIsOfMembers
    OBVIOUS
  <2>1. DOMAIN Circle \in SUBSET Keys
    BY DEF HashInv, HashTypeOK
  <2>2. ToSet(SortedHashes) = DOMAIN Circle
    <3> DEFINE q == Sorted(DOMAIN Circle)
    <3>1. (\A i \in DOMAIN q : q[i] \in DOMAIN Circle) /\ \A k \in DOMAIN Circle : \E i \in DOMAIN q : q[i] = k
      BY <2>1, SortedIs
    <3> HIDE DEF q
    <3>2. ToSet(q) = DOMAIN Circle
      BY <3>1 DEF ToSet
    <3> QED BY <3>2 DEF HashInv, q
  <2>3. \A i, j \in DOMAIN SortedHashes : i < j => SortedHashes[i] < SortedHashes[j]
    BY <2>1, SortedIs DEF HashInv
  <2> QED BY <2>2, <2>3 DEF HashInv, CircleIsOfMembers
<1> QED BY <1>1, HashInvariance, PTL


\* A lookup in a circle that is not empty finds the point the key belongs to.
LEMMA LookupFollows ==
  ASSUME NEW D, NEW C, C \in [D -> Elts], D \in SUBSET Keys, C # << >>, NEW key \in Keys
  PROVE  Follows(D, key, Sorted(D)[FirstAbove(Sorted(D), key)])
<1>1. D # {}
  <2> SUFFICES ASSUME D = {}
               PROVE  FALSE
    OBVIOUS
  <2>1. C = [i \in {} |-> 1]
    OBVIOUS
  <2>2. << >> = [i \in {} |-> 1]
    OBVIOUS
  <2> QED BY <2>1, <2>2
<1> QED BY <1>1, SearchFinds

\* What consistent hashing is for: when hashes do not collide, a name moves only
\* away from a member that is gone or to one that is new, whatever one call of Add,
\* Remove or Set changes.
THEOREM OnlyNeededKeysEverMove == HashSpec => OnlyNeededKeysMove
<1> DEFINE Moves == \A key \in Keys :
             Injective /\ Circle # << >> /\ Circle' # << >> /\ GetMember(key)' # GetMember(key)
               => GetMember(key) \notin Members' \/ GetMember(key)' \notin Members
<1>1. ASSUME HashInv, HashInv', hash' = hash
      PROVE  Moves
  <2> SUFFICES ASSUME NEW key \in Keys, Injective, Circle # << >>, Circle' # << >>,
                      GetMember(key) \in Members', GetMember(key)' \in Members
               PROVE  GetMember(key)' = GetMember(key)
    OBVIOUS
  <2>1. PICK p : /\ Follows(DOMAIN Circle, key, p) /\ GetMember(key) = Circle[p]
    <3>1. DOMAIN Circle \in SUBSET Keys /\ Circle \in [DOMAIN Circle -> Elts] /\ SortedHashes = Sorted(DOMAIN Circle)
      BY <1>1 DEF HashInv, HashTypeOK
    <3>2. Follows(DOMAIN Circle, key, SortedHashes[FirstAbove(SortedHashes, key)])
      BY <3>1, LookupFollows
    <3> QED BY <3>2 DEF GetMember, Search, FirstAbove
  <2>2. PICK r : /\ Follows(DOMAIN Circle', key, r) /\ GetMember(key)' = Circle'[r]
    <3>1. DOMAIN Circle' \in SUBSET Keys /\ Circle' \in [DOMAIN Circle' -> Elts] /\ SortedHashes' = Sorted(DOMAIN Circle')
      BY <1>1 DEF HashInv, HashTypeOK, Keys
    <3>2. Follows(DOMAIN Circle', key, SortedHashes'[FirstAbove(SortedHashes', key)])
      BY <3>1, LookupFollows
    <3> QED BY <3>2 DEF GetMember, Search, FirstAbove
  <2>3. /\ p \in DOMAIN Circle /\ p \in Keys /\ Circle[p] \in Members /\ p \in PointsOf(Circle[p])
        /\ Members \subseteq Elts
    BY <1>1, <2>1 DEF Follows, HashInv, HashTypeOK
  <2>4. /\ r \in DOMAIN Circle' /\ r \in Keys /\ Circle'[r] \in Members' /\ r \in PointsOf(Circle'[r])
        /\ Members' \subseteq Elts
    BY <1>1, <2>2 DEF Follows, HashInv, HashTypeOK, PointsOf, Keys
  <2>5. r \in DOMAIN Circle
    BY <1>1, <2>2, <2>4 DEF HashInv
  <2>6. p \in DOMAIN Circle'
    BY <1>1, <2>1, <2>3 DEF HashInv, PointsOf, Injective
  <2>7. p = r
    <3>1. key \in Int /\ p \in Int /\ r \in Int
      BY <2>3, <2>4, KeysAreFinite
    <3>2. p > key <=> r > key
      BY <2>1, <2>2, <2>5, <2>6 DEF Follows
    <3>3. p <= r /\ r <= p
      BY <2>1, <2>2, <2>5, <2>6, <3>2 DEF Follows
    <3> QED BY <3>1, <3>3
  <2>8. Circle[p] \in Elts /\ Circle'[r] \in Elts
    BY <2>3, <2>4
  <2> QED BY <1>1, <2>1, <2>2, <2>3, <2>4, <2>7, <2>8, PointsAreApart
<1>2. HashInv /\ HashInv' /\ [HashNext /\ CountIsSmall']_hashVars => hash' = hash
  BY DEF HashNext, AddMember, RemoveMember, SetMembers, Becomes, hashVars
<1>3. HashInv /\ HashInv' /\ [HashNext /\ CountIsSmall']_hashVars => [Moves]_hashVars
  BY <1>1, <1>2
<1>4. [][Moves]_hashVars => OnlyNeededKeysMove
  BY DEF OnlyNeededKeysMove
<1> HIDE DEF Moves
<1> QED BY <1>3, <1>4, HashInvariance, PTL DEF HashSpec

-----------------------------------------------------------------------------
(* The lookups of the circle.                                              *)

\* Where GetN looks for its j-th member, and how far clockwise of a key that is.
PointAt(key, j) == SortedHashes[((Search(key) + j - 1) % Len(SortedHashes)) + 1]
Ahead(key, p) == (p - key - 1) % HashSpace

LEMMA AheadIs ==
  ASSUME NEW key \in Keys, NEW p \in Keys
  PROVE  /\ Ahead(key, p) \in Nat
         /\ Ahead(key, p) = IF p > key THEN p - key - 1 ELSE p - key - 1 + HashSpace
<1>1. HashSpace \in Nat /\ key \in 0..HashSpace - 1 /\ p \in 0..HashSpace - 1
  BY HashAssumption DEF Keys
<1>2. PICK a \in Int : a = p - key - 1
  BY <1>1
<1>3. CASE p > key
  <2>1. a \in 0..HashSpace - 1
    BY <1>1, <1>2, <1>3
  <2>2. a % HashSpace = a
    BY <1>1, <2>1
  <2> QED BY <1>2, <1>3, <2>1, <2>2 DEF Ahead
<1>4. CASE ~(p > key)
  <2>1. PICK b \in 0..HashSpace - 1 : b = a + HashSpace
    BY <1>1, <1>2, <1>4
  <2>2. (b - HashSpace) % HashSpace = b
    BY <1>1, <2>1
  <2>3. a = b - HashSpace
    BY <1>1, <2>1
  <2> QED BY <1>1, <1>2, <1>4, <2>1, <2>2, <2>3 DEF Ahead
<1> QED BY <1>3, <1>4

\* Going round from the key one comes to every point of the circle, the nearest ones
\* first.
LEMMA WayRound ==
  ASSUME HashInv, Circle # << >>, NEW key \in Keys
  PROVE  /\ Len(SortedHashes) \in Nat \ {0} /\ Len(SortedHashes) <= HashSpace
         /\ Search(key) \in 1..Len(SortedHashes)
         /\ \A j \in 0..Len(SortedHashes) - 1 : PointAt(key, j) \in DOMAIN Circle
         /\ \A k \in DOMAIN Circle : \E j \in 0..Len(SortedHashes) - 1 : PointAt(key, j) = k
         /\ \A i, j \in 0..Len(SortedHashes) - 1 :
              i < j => Ahead(key, PointAt(key, i)) < Ahead(key, PointAt(key, j))
         /\ PointAt(key, 0) = SortedHashes[Search(key)]
<1> DEFINE q == SortedHashes
           n == Len(q)
           above == {i \in DOMAIN q : q[i] > key}
<1>1. DOMAIN Circle \in SUBSET Keys /\ q = Sorted(DOMAIN Circle) /\ DOMAIN Circle # {}
  <2>1. DOMAIN Circle # {}
    <3> SUFFICES ASSUME DOMAIN Circle = {}
                 PROVE  FALSE
      OBVIOUS
    <3>1. Circle = [i \in {} |-> Circle[i]]
      BY DEF HashInv
    <3> QED BY <3>1
  <2> QED BY <2>1 DEF HashInv, HashTypeOK
<1>2. /\ n \in Nat /\ DOMAIN q = 1..n /\ n = Cardinality(DOMAIN Circle)
      /\ \A i \in 1..n : q[i] \in DOMAIN Circle
      /\ \A k \in DOMAIN Circle : \E i \in 1..n : q[i] = k
      /\ \A i, j \in 1..n : i < j => q[i] < q[j]
  BY <1>1, SortedIs
<1>3. /\ HashSpace \in Nat /\ key \in 0..HashSpace - 1
      /\ \A i \in 1..n : q[i] \in Keys /\ q[i] \in 0..HashSpace - 1
  BY <1>1, <1>2, HashAssumption DEF Keys
<1>4. n \in Nat \ {0} /\ n <= HashSpace
  <2>1. n # 0
    BY <1>1, <1>2
  <2>2. Cardinality(Keys) = HashSpace
    BY <1>3, FS_Interval DEF Keys
  <2>3. Cardinality(DOMAIN Circle) <= Cardinality(Keys)
    BY <1>1, KeysAreFinite, FS_Subset
  <2> QED BY <1>2, <2>1, <2>2, <2>3
<1>5. PICK s : s = Search(key)
  OBVIOUS
<1>6. /\ s \in 1..n
      /\ above = {} => s = 1
      /\ above # {} => s \in above /\ s - 1 \notin above
  <2>1. s = IF above = {} THEN 1 ELSE CHOOSE i \in above : i - 1 \notin above
    BY <1>5 DEF Search
  <2>2. CASE above = {}
    BY <1>4, <2>1, <2>2
  <2>3. CASE above # {}
    <3>1. above \subseteq Nat /\ above \subseteq 1..n
      BY <1>2
    <3>2. PICK least \in above : \A i \in above : least <= i
      BY <2>3, <3>1, LeastExists
    <3>3. least - 1 \notin above
      <4> SUFFICES ASSUME least - 1 \in above
                   PROVE  FALSE
        OBVIOUS
      <4>1. least <= least - 1 /\ least \in Nat
        BY <3>1, <3>2
      <4> QED BY <4>1
    <3>4. s \in above /\ s - 1 \notin above
      BY <2>1, <2>3, <3>2, <3>3
    <3> QED BY <2>3, <3>1, <3>4
  <2> QED BY <2>2, <2>3
<1>7. \A i \in 1..n : i >= s /\ above # {} => q[i] > key
  <2> SUFFICES ASSUME NEW i \in 1..n, i >= s, above # {}
               PROVE  q[i] > key
    OBVIOUS
  <2>1. q[s] > key /\ s \in 1..n
    BY <1>6
  <2>2. i = s \/ s < i
    BY <1>6
  <2>3. i = s \/ q[s] < q[i]
    BY <1>2, <1>6, <2>2
  <2>4. q[s] \in Int /\ q[i] \in Int /\ key \in Int
    BY <1>3, <1>6
  <2> QED BY <2>1, <2>3, <2>4
<1>8. \A i \in 1..n : i < s \/ above = {} => ~(q[i] > key)
  <2> SUFFICES ASSUME NEW i \in 1..n, i < s \/ above = {}
               PROVE  ~(q[i] > key)
    OBVIOUS
  <2>1. CASE above = {}
    BY <1>2, <2>1
  <2>2. CASE above # {}
    <3>1. s - 1 \in 1..n /\ ~(q[s - 1] > key)
      BY <1>2, <1>6, <2>2
    <3>2. i = s - 1 \/ i < s - 1
      BY <1>6, <2>2
    <3>3. i = s - 1 \/ q[i] < q[s - 1]
      BY <1>2, <3>1, <3>2
    <3>4. q[s - 1] \in Int /\ q[i] \in Int /\ key \in Int
      BY <1>3, <3>1
    <3> QED BY <3>1, <3>3, <3>4
  <2> QED BY <2>1, <2>2
<1> DEFINE at(j) == IF s + j <= n THEN s + j ELSE s + j - n
<1>9. ASSUME NEW j \in 0..n - 1
      PROVE  at(j) \in 1..n /\ PointAt(key, j) = q[at(j)]
  <2>1. PICK a \in Nat : a = s + j - 1
    BY <1>4, <1>6
  <2>2. a < n + n
    BY <1>4, <1>6, <2>1
  <2>3. (a < n => a % n = a) /\ (a >= n => a % n = a - n)
    BY <1>4, <2>2, Around
  <2>4. (a % n) + 1 = at(j)
    BY <1>4, <1>6, <2>1, <2>3
  <2>5. at(j) \in 1..n
    BY <1>4, <1>6
  <2> HIDE DEF at
  <2> QED BY <1>5, <2>1, <2>4, <2>5 DEF PointAt
<1>10. \A k \in DOMAIN Circle : \E j \in 0..n - 1 : PointAt(key, j) = k
  <2> SUFFICES ASSUME NEW k \in DOMAIN Circle
               PROVE  \E j \in 0..n - 1 : PointAt(key, j) = k
    OBVIOUS
  <2>1. PICK i \in 1..n : q[i] = k
    BY <1>2
  <2>2. PICK j \in 0..n - 1 : at(j) = i
    <3>1. CASE i >= s
      <4>1. i - s \in 0..n - 1 /\ at(i - s) = i
        BY <1>4, <1>6, <3>1
      <4> QED BY <4>1
    <3>2. CASE i < s
      <4>1. i + n - s \in 0..n - 1 /\ at(i + n - s) = i
        BY <1>4, <1>6, <3>2
      <4> QED BY <4>1
    <3> QED BY <1>6, <3>1, <3>2
  <2> QED BY <1>9, <2>1, <2>2
<1>11. ASSUME NEW i \in 0..n - 1, NEW j \in 0..n - 1, i < j
       PROVE  Ahead(key, PointAt(key, i)) < Ahead(key, PointAt(key, j))
  <2>1. PICK x \in 1..n, y \in 1..n : x = at(i) /\ y = at(j)
    BY <1>9
  <2>2. PointAt(key, i) = q[x] /\ PointAt(key, j) = q[y]
    BY <1>9, <2>1
  <2>3. \/ x < y /\ (s <= x \/ y < s)
        \/ s <= x /\ y < s
    BY <1>4, <1>6, <1>11, <2>1
  <2>4. PICK a \in 0..HashSpace - 1, b \in 0..HashSpace - 1 : a = q[x] /\ b = q[y]
    BY <1>3
  <2>5. (x < y => a < b) /\ a \in Keys /\ b \in Keys
    BY <1>2, <1>3, <2>4
  <2>6. /\ Ahead(key, a) = IF a > key THEN a - key - 1 ELSE a - key - 1 + HashSpace
        /\ Ahead(key, b) = IF b > key THEN b - key - 1 ELSE b - key - 1 + HashSpace
    BY <2>5, AheadIs
  <2>7. x < y \/ above # {}
    BY <1>6, <2>3
  <2>8. (s <= x => a > key \/ above = {}) /\ (above = {} => ~(a > key) /\ ~(b > key))
    BY <1>7, <1>8, <2>4
  <2>9. (y < s => ~(b > key)) /\ (x < s => ~(a > key)) /\ (s <= y => b > key \/ above = {})
    BY <1>7, <1>8, <2>4
  <2>10. Ahead(key, a) < Ahead(key, b)
    <3> HIDE DEF above, at
    <3>1. CASE x < y /\ s <= x
      <4>1. s <= y /\ a < b
        BY <1>6, <2>5, <3>1
      <4> QED BY <1>3, <2>4, <2>6, <2>8, <2>9, <3>1, <4>1
    <3>4. a \in Int /\ b \in Int /\ key \in Int /\ HashSpace \in Int /\ a < HashSpace /\ b >= 0
      BY <1>3
    <3>2. CASE x < y /\ y < s
      <4>1. x < s /\ a < b
        BY <1>6, <2>5, <3>2
      <4>2. ~(a > key) /\ ~(b > key)
        BY <2>9, <3>2, <4>1
      <4>3. Ahead(key, a) = a - key - 1 + HashSpace /\ Ahead(key, b) = b - key - 1 + HashSpace
        BY <2>6, <4>2
      <4> QED BY <3>4, <4>1, <4>3
    <3>3. CASE s <= x /\ y < s
      <4>1. above # {}
        BY <1>6, <3>3
      <4>2. a > key /\ ~(b > key)
        BY <2>8, <2>9, <3>3, <4>1
      <4>3. Ahead(key, a) = a - key - 1 /\ Ahead(key, b) = b - key - 1 + HashSpace
        BY <2>6, <4>2
      <4> QED BY <3>4, <4>3
    <3> QED BY <2>3, <3>1, <3>2, <3>3
  <2> QED BY <2>2, <2>4, <2>10
<1>12. PointAt(key, 0) = q[s]
  <2>1. 0 \in 0..n - 1 /\ at(0) = s
    BY <1>4, <1>6
  <2> QED BY <1>9, <2>1
<1> HIDE DEF at
<1> QED BY <1>2, <1>4, <1>5, <1>6, <1>9, <1>10, <1>11, <1>12

\* Where on the way from the key somebody is met for the first time.
FirstMeetings(key) ==
  {j \in 0..Len(SortedHashes) - 1 :
     \A i \in 0..j - 1 : OnTheWay(key, i) # OnTheWay(key, j)}

LEMMA EveryMemberIsMet ==
  ASSUME HashInv, Injective, Circle # << >>, NEW key \in Keys, NEW e \in Members
  PROVE  \E j \in FirstMeetings(key) :
           /\ OnTheWay(key, j) = e
           /\ \A i \in 0..Len(SortedHashes) - 1 : OnTheWay(key, i) = e => j <= i
           /\ Distance(key, e) = Ahead(key, PointAt(key, j))
<1> DEFINE n == Len(SortedHashes)
           meetings == {j \in 0..n - 1 : OnTheWay(key, j) = e}
<1>1. /\ n \in Nat \ {0}
      /\ \A j \in 0..n - 1 : PointAt(key, j) \in DOMAIN Circle
      /\ \A k \in DOMAIN Circle : \E j \in 0..n - 1 : PointAt(key, j) = k
      /\ \A i, j \in 0..n - 1 : i < j => Ahead(key, PointAt(key, i)) < Ahead(key, PointAt(key, j))
  BY WayRound
<1>2. \A j : OnTheWay(key, j) = Circle[PointAt(key, j)]
  BY DEF OnTheWay, PointAt
<1>3. /\ Members \subseteq Elts /\ PointsOf(e) \subseteq DOMAIN Circle /\ DOMAIN Circle \subseteq Keys
      /\ \A k \in DOMAIN Circle : Circle[k] \in Members /\ k \in PointsOf(Circle[k])
  BY DEF HashInv, HashTypeOK
<1>4. PointsOf(e) # {}
  <2>1. PICK k \in DOMAIN Circle : TRUE
    BY <1>1
  <2>2. PICK i \in Replicas : TRUE
    BY <1>3, <2>1 DEF PointsOf
  <2> QED BY <2>2 DEF PointsOf
<1>5. \A k \in PointsOf(e) : Circle[k] = e
  <2> SUFFICES ASSUME NEW k \in PointsOf(e)
               PROVE  Circle[k] = e
    OBVIOUS
  <2>1. k \in DOMAIN Circle /\ Circle[k] \in Elts /\ e \in Elts /\ k \in PointsOf(Circle[k])
    BY <1>3
  <2> QED BY <2>1, PointsAreApart
<1>6. meetings # {} /\ meetings \subseteq Nat
  <2>1. PICK k \in PointsOf(e) : TRUE
    BY <1>4
  <2>2. PICK j \in 0..n - 1 : PointAt(key, j) = k
    BY <1>1, <1>3, <2>1
  <2>3. OnTheWay(key, j) = e
    BY <1>2, <1>5, <2>1, <2>2
  <2> QED BY <1>1, <2>2, <2>3
<1>7. PICK j \in meetings : \A i \in meetings : j <= i
  BY <1>6, LeastExists
<1>8. j \in FirstMeetings(key)
  <2> SUFFICES ASSUME NEW i \in 0..j - 1, OnTheWay(key, i) = OnTheWay(key, j)
               PROVE  FALSE
    BY DEF FirstMeetings
  <2>1. i \in 0..n - 1 /\ i < j /\ i \in Int /\ j \in Int
    BY <1>1, <1>6
  <2>2. j <= i
    BY <1>7, <2>1
  <2> QED BY <2>1, <2>2
<1>9. Distance(key, e) = Ahead(key, PointAt(key, j))
  <2> DEFINE S == {(p - key - 1) % HashSpace : p \in PointsOf(e)}
             m == Ahead(key, PointAt(key, j))
  <2>1. PointAt(key, j) \in PointsOf(e)
    BY <1>1, <1>2, <1>3
  <2>2. m \in S
    BY <2>1 DEF Ahead
  <2>3. ASSUME NEW x \in S
        PROVE  x \in Nat /\ m <= x /\ m \in Nat
    <3>1. PICK p \in PointsOf(e) : x = Ahead(key, p)
      BY DEF Ahead
    <3>2. PICK i \in 0..n - 1 : PointAt(key, i) = p
      BY <1>1, <1>3
    <3>3. j <= i
      BY <1>2, <1>5, <1>7, <3>1, <3>2
    <3>4. i = j \/ j < i
      BY <1>1, <3>3
    <3>5. i = j \/ m < x
      BY <1>1, <3>1, <3>2, <3>4
    <3>6. x \in Nat /\ m \in Nat
      BY <1>3, <2>1, <3>1, AheadIs
    <3> HIDE DEF m
    <3>7. i = j => m = x
      BY <3>1, <3>2 DEF m
    <3> QED BY <3>5, <3>6, <3>7
  <2>4. Distance(key, e) = CHOOSE x \in S : \A y \in S : x <= y
    BY DEF Distance, Min
  <2> HIDE DEF S, m
  <2>5. PICK d : d = CHOOSE x \in S : \A y \in S : x <= y
    OBVIOUS
  <2>6. d \in S /\ \A y \in S : d <= y
    BY <2>2, <2>3, <2>5
  <2>7. d <= m /\ m <= d /\ d \in Nat /\ m \in Nat
    BY <2>2, <2>3, <2>6
  <2>8. d = m
    BY <2>7
  <2> QED BY <2>4, <2>5, <2>8 DEF m
<1> QED BY <1>7, <1>8, <1>9

\* Met names every member once, the nearest first.
LEMMA MetIs ==
  ASSUME HashInv, Injective, Circle # << >>, NEW key \in Keys
  PROVE  /\ Met(key) \in Seq(Elts) /\ Len(Met(key)) = Cardinality(Members)
         /\ Cardinality(Members) \in Nat \ {0}
         /\ Met(key)[1] = GetMember(key)
         /\ ToSet(Met(key)) = Members
         /\ \A i \in 1..Len(Met(key)), e \in Members :
              \/ Distance(key, Met(key)[i]) <= Distance(key, e)
              \/ \E j \in 1..i - 1 : Met(key)[j] = e
<1> DEFINE n == Len(SortedHashes)
           new == FirstMeetings(key)
           q == Sorted(new)
           c == Cardinality(new)
<1>1. /\ n \in Nat \ {0} /\ n <= HashSpace
      /\ \A j \in 0..n - 1 : PointAt(key, j) \in DOMAIN Circle
      /\ \A i, j \in 0..n - 1 : i < j => Ahead(key, PointAt(key, i)) < Ahead(key, PointAt(key, j))
      /\ PointAt(key, 0) = SortedHashes[Search(key)]
  BY WayRound
<1>2. \A j : OnTheWay(key, j) = Circle[PointAt(key, j)]
  BY DEF OnTheWay, PointAt
<1>3. \A j \in 0..n - 1 : OnTheWay(key, j) \in Members
  BY <1>1, <1>2 DEF HashInv
<1>4. new \in SUBSET Keys /\ new \subseteq 0..n - 1
  BY <1>1, HashAssumption DEF FirstMeetings, Keys
<1>5. /\ DOMAIN q = 1..c /\ c \in Nat
      /\ \A i \in 1..c : q[i] \in new
      /\ \A k \in new : \E i \in 1..c : q[i] = k
      /\ \A i, j \in 1..c : i < j => q[i] < q[j]
  BY <1>4, SortedIs
<1>6. Met(key) = [i \in 1..c |-> OnTheWay(key, q[i])]
  BY <1>5 DEF Met, FirstMeetings
<1>7. Met(key) \in Seq(Elts) /\ Len(Met(key)) = c
  <2>1. \A i \in 1..c : OnTheWay(key, q[i]) \in Elts
    BY <1>3, <1>4, <1>5 DEF HashInv, HashTypeOK
  <2> HIDE DEF c, q
  <2>2. Met(key) \in [1..c -> Elts]
    BY <1>6, <2>1
  <2>3. Met(key) \in Seq(Elts)
    BY <1>5, <2>2, SeqDef
  <2> QED BY <1>5, <2>2, <2>3, LenProperties
<1>8. \A i, j \in new : OnTheWay(key, i) = OnTheWay(key, j) => i = j
  <2> SUFFICES ASSUME NEW i \in new, NEW j \in new, OnTheWay(key, i) = OnTheWay(key, j), i < j
               PROVE  FALSE
    BY <1>1, <1>4
  <2>1. i \in 0..j - 1
    BY <1>1, <1>4
  <2> QED BY <2>1 DEF FirstMeetings
<1>9. c = Cardinality(Members)
  <2> DEFINE f == [j \in new |-> OnTheWay(key, j)]
  <2>1. f \in [new -> Members]
    BY <1>3, <1>4
  <2>2. \A i, j \in new : f[i] = f[j] => i = j
    BY <1>8
  <2>3. \A e \in Members : \E j \in new : f[j] = e
    BY EveryMemberIsMet
  <2>4. f \in Bijection(new, Members)
    BY <2>1, <2>2, <2>3 DEF Bijection, Injection, Surjection, IsInjective
  <2>5. IsFiniteSet(new)
    BY <1>4, KeysAreFinite, FS_Subset
  <2> HIDE DEF f, new
  <2>6. ExistsBijection(new, Members)
    BY <2>4 DEF ExistsBijection
  <2> QED BY <2>5, <2>6, FS_Bijection
<1>10. 0 \in new
  BY <1>1 DEF FirstMeetings
<1>11. c # 0 /\ q[1] = 0
  <2>1. PICK i \in 1..c : q[i] = 0
    BY <1>5, <1>10
  <2>2. c # 0 /\ 1 \in 1..c
    BY <1>5
  <2>3. i = 1 \/ 1 < i
    BY <1>5
  <2>4. i = 1 \/ q[1] < 0
    BY <1>5, <2>1, <2>2, <2>3
  <2>5. q[1] \in 0..n - 1
    BY <1>4, <1>5, <2>2
  <2> QED BY <1>1, <2>1, <2>2, <2>4, <2>5
<1>12. Met(key)[1] = GetMember(key)
  <2>1. 1 \in 1..c
    BY <1>5, <1>11
  <2>2. Met(key)[1] = OnTheWay(key, 0)
    BY <1>6, <1>11, <2>1
  <2> QED BY <1>1, <1>2, <2>2 DEF GetMember
<1>13. ASSUME NEW i \in 1..c, NEW e \in Members
       PROVE  \/ Distance(key, Met(key)[i]) <= Distance(key, e)
              \/ \E j \in 1..i - 1 : Met(key)[j] = e
  <2>1. PICK j \in new : OnTheWay(key, j) = e /\ Distance(key, e) = Ahead(key, PointAt(key, j))
    BY EveryMemberIsMet
  <2>2. PICK l \in 1..c : q[l] = j
    BY <1>5
  <2>3. Met(key)[l] = e /\ Met(key)[i] = OnTheWay(key, q[i])
    BY <1>6, <2>1, <2>2
  <2>4. q[i] \in new /\ OnTheWay(key, q[i]) \in Members
    BY <1>3, <1>4, <1>5
  <2>5. PICK k \in new : /\ OnTheWay(key, k) = OnTheWay(key, q[i])
                         /\ Distance(key, OnTheWay(key, q[i])) = Ahead(key, PointAt(key, k))
    BY <2>4, EveryMemberIsMet
  <2>6. k = q[i]
    BY <1>8, <2>4, <2>5
  <2>7. CASE l < i
    <3>1. l \in 1..i - 1
      BY <1>5, <2>7
    <3> QED BY <2>3, <3>1
  <2>8. CASE ~(l < i)
    <3>1. l = i \/ i < l
      BY <1>5, <2>8
    <3>2. k = j \/ k < j
      BY <1>5, <2>2, <2>6, <3>1
    <3>3. k = j \/ Ahead(key, PointAt(key, k)) < Ahead(key, PointAt(key, j))
      BY <1>1, <1>4, <3>2
    <3>4. PointAt(key, k) \in Keys /\ PointAt(key, j) \in Keys
      BY <1>1, <1>4 DEF HashInv, HashTypeOK
    <3>5. Ahead(key, PointAt(key, k)) \in Nat /\ Ahead(key, PointAt(key, j)) \in Nat
      BY <3>4, AheadIs
    <3>6. Ahead(key, PointAt(key, k)) <= Ahead(key, PointAt(key, j))
      BY <3>3, <3>5
    <3> QED BY <2>1, <2>3, <2>5, <3>6
  <2> QED BY <2>7, <2>8
<1>14. ToSet(Met(key)) = Members
  <2>1. \A i \in 1..c : Met(key)[i] \in Members
    BY <1>3, <1>4, <1>5, <1>6
  <2>2. ASSUME NEW e \in Members
        PROVE  \E i \in 1..c : Met(key)[i] = e
    <3>1. PICK j \in new : OnTheWay(key, j) = e
      BY EveryMemberIsMet
    <3>2. PICK l \in 1..c : q[l] = j
      BY <1>5
    <3> QED BY <1>6, <3>1, <3>2
  <2>3. DOMAIN Met(key) = 1..c
    BY <1>6
  <2> QED BY <2>1, <2>2, <2>3 DEF ToSet
<1> HIDE DEF c
<1> QED BY <1>5, <1>7, <1>9, <1>11, <1>12, <1>13, <1>14

LEMMA LookupsNow ==
  ASSUME HashInv
  PROVE  LookupsAreRight
<1> SUFFICES ASSUME Sound, NEW key \in Keys
             PROVE  /\ ReturnsTwo(key)
                    /\ ReturnsN(key, 0) <=> Search(key) # 1
                    /\ ToSet(GetN(key, 0)) = Members
                    /\ \A k \in 1..Cardinality(Members) + 1 :
                         /\ ReturnsN(key, k)
                         /\ Len(GetN(key, k)) = Min({k, Cardinality(Members)})
                         /\ GetMember(key) = GetN(key, k)[1]
                         /\ \A i \in DOMAIN GetN(key, k), e \in Members :
                              \/ Distance(key, GetN(key, k)[i]) <= Distance(key, e)
                              \/ \E j \in 1..i - 1 : GetN(key, k)[j] = e
  <2>1. ASSUME Sound
        PROVE  \A k \in 0..Cardinality(Members) + 1 :
                 (k = 0 /\ ~(k > 0)) \/ (k \in 1..Cardinality(Members) + 1 /\ k > 0)
    <3>1. Cardinality(Members) \in Int
      BY <2>1 DEF Sound, HashInv, HashTypeOK
    <3> QED BY <3>1
  <2>2. ASSUME Sound, NEW key \in Keys, ReturnsN(key, 0) <=> Search(key) # 1,
               \A k \in 1..Cardinality(Members) + 1 : ReturnsN(key, k)
        PROVE  \A n \in 0..Cardinality(Members) + 1 : ReturnsN(key, n) <=> n > 0 \/ Search(key) # 1
    <3> TAKE n \in 0..Cardinality(Members) + 1
    <3>1. CASE n = 0 /\ ~(n > 0)
      BY <2>2, <3>1
    <3>2. CASE n \in 1..Cardinality(Members) + 1 /\ n > 0
      BY <2>2, <3>2
    <3> QED BY <2>1, <2>2, <3>1, <3>2
  <2> QED BY <2>2 DEF LookupsAreRight, NearestMembers, LookupsReturn
<1> DEFINE met == Met(key)
           c == Cardinality(Members)
<1>1. Injective /\ Count = c /\ Circle # << >>
  BY DEF Sound
<1>2. /\ met \in Seq(Elts) /\ Len(met) = c /\ c \in Nat \ {0}
      /\ met[1] = GetMember(key) /\ ToSet(met) = Members
      /\ \A i \in 1..Len(met), e \in Members :
           \/ Distance(key, met[i]) <= Distance(key, e)
           \/ \E j \in 1..i - 1 : met[j] = e
  BY <1>1, MetIs
<1>3. ReturnsTwo(key)
  BY <1>1, <1>2 DEF ReturnsTwo
<1>5. (ReturnsN(key, 0) <=> Search(key) # 1) /\ ToSet(GetN(key, 0)) = Members
  <2>1. Wanted(0) = 0
    BY <1>1, <1>2 DEF Wanted
  <2>2. Wanted(0) \notin 1..Len(Met(key))
    BY <1>2, <2>1
  <2> QED BY <1>2, <2>2 DEF ReturnsN, GetN
<1>4. ASSUME NEW k \in 1..c + 1
      PROVE  /\ ReturnsN(key, k)
             /\ Len(GetN(key, k)) = Min({k, c})
             /\ GetMember(key) = GetN(key, k)[1]
             /\ \A i \in DOMAIN GetN(key, k), e \in Members :
                  \/ Distance(key, GetN(key, k)[i]) <= Distance(key, e)
                  \/ \E j \in 1..i - 1 : GetN(key, k)[j] = e
  <2> DEFINE w == IF c < k THEN c ELSE k
  <2>1. w \in 1..c /\ Wanted(k) = w
    BY <1>1, <1>2 DEF Wanted
  <2>2. Min({k, c}) = w
    <3>1. \A x, y \in Nat : Min({x, y}) = IF y < x THEN y ELSE x
      <4> SUFFICES ASSUME NEW x \in Nat, NEW y \in Nat
                   PROVE  Min({x, y}) = IF y < x THEN y ELSE x
        OBVIOUS
      <4>1. PICK m : m = Min({x, y})
        OBVIOUS
      <4>2. m = CHOOSE z \in {x, y} : \A u \in {x, y} : z <= u
        BY <4>1 DEF Min
      <4>3. \E z \in {x, y} : \A u \in {x, y} : z <= u
        OBVIOUS
      <4>4. m \in {x, y} /\ \A u \in {x, y} : m <= u
        BY <4>2, <4>3
      <4> QED BY <4>1, <4>4
    <3>2. k \in Nat /\ c \in Nat /\ w \in Nat
      BY <1>2, <2>1
    <3> QED BY <2>1, <3>1, <3>2
  <2>3. ReturnsN(key, k)
    BY <1>2, <2>1 DEF ReturnsN
  <2> HIDE DEF met, c, w
  <2>4. GetN(key, k) = SubSeq(met, 1, w)
    BY <1>2, <2>1 DEF GetN, met
  <2>5. /\ GetN(key, k) \in Seq(Elts) /\ Len(GetN(key, k)) = w
        /\ \A i \in 1..w : GetN(key, k)[i] = met[i]
    <3>1. \A i \in 1..w : met[i] \in Elts
      BY <1>2, <2>1, ElementOfSeq
    <3>2. 1 <= w + 1 /\ w - 1 + 1 = w /\ 1 \in Int /\ w \in Int
      BY <1>2, <2>1
    <3>3. \A i \in 1..w : 1 + i - 1 = i
      OBVIOUS
    <3> QED BY <1>2, <2>1, <2>4, <3>1, <3>2, <3>3, SubSeqProperties
  <2>6. DOMAIN GetN(key, k) = 1..w
    BY <2>5, LenProperties
  <2>7. 1 \in 1..w
    BY <1>2, <2>1
  <2>8. ASSUME NEW i \in 1..w, NEW e \in Members
        PROVE  \/ Distance(key, GetN(key, k)[i]) <= Distance(key, e)
               \/ \E j \in 1..i - 1 : GetN(key, k)[j] = e
    <3>1. i \in 1..Len(met) /\ \A j \in 1..i - 1 : j \in 1..w
      BY <1>2, <2>1
    <3> QED BY <1>2, <2>5, <3>1
  <2> QED BY <1>2, <2>2, <2>3, <2>5, <2>6, <2>7, <2>8 DEF w
<1> QED BY <1>3, <1>4, <1>5

\* Get, GetTwo, and GetN of one member or more, come back with the members nearest
\* clockwise, each once (consistent.go:163 to 282), for any hash function without
\* collisions, as long as the count of members did not drift.  GetN of no member
\* loops for ever from a key whose search begins at the first point, and gives
\* every member from any other.
THEOREM LookupsAlwaysRight == HashSpec => []LookupsAreRight
BY LookupsNow, HashInvariance, PTL


-----------------------------------------------------------------------------
(* The kernel lists.                                                       *)

Linked(p, x, y) == p.next[x] = y /\ p.prev[y] = x
Pointers == [next : [ListHeads -> ListHeads \cup {POISON}],
             prev : [ListHeads -> ListHeads \cup {POISON}]]

\* The i-th of the circle of h and s, counted from h on.
Nth(s, h, i) == IF i \in 1..Len(s) THEN s[i] ELSE h
Holds(p, s, h) == \A i \in 0..Len(s) : Linked(p, Nth(s, h, i), Nth(s, h, i + 1))

Apart(L) ==
  /\ L \in [Heads -> Seq(Entries)]
  /\ \A g, h \in Heads : \A i \in 1..Len(L[g]), j \in 1..Len(L[h]) :
       L[g][i] = L[h][j] => g = h /\ i = j

\* Pointers p show the lists L, except of the heads S.
Shows(p, L, S) ==
  /\ p \in Pointers /\ Apart(L) /\ S \subseteq Heads
  /\ \A h \in S : L[h] = << >>
  /\ \A h \in Heads \ S : Holds(p, L[h], h)

IsFree(L, e) == e \in Entries /\ \A g \in Heads : \A j \in 1..Len(L[g]) : L[g][j] # e

LEMMA NthAre ==
  ASSUME NEW L, Apart(L), NEW g \in Heads, NEW h \in Heads
  PROVE  /\ L[h] \in Seq(Entries) /\ Len(L[h]) \in Nat
         /\ \A i \in 1..Len(L[h]) : L[h][i] \in Entries
         /\ \A i \in Int : Nth(L[h], h, i) \in ListHeads
         /\ \A i \in 0..Len(L[g]), j \in 0..Len(L[h]) :
              Nth(L[g], g, i) = Nth(L[h], h, j) => g = h /\ i = j
         /\ \A i \in 1..Len(L[g]) + 1, j \in 1..Len(L[h]) + 1 :
              Nth(L[g], g, i) = Nth(L[h], h, j) => g = h /\ i = j
<1>1. /\ L[h] \in Seq(Entries) /\ Len(L[h]) \in Nat /\ L[g] \in Seq(Entries) /\ Len(L[g]) \in Nat
  BY LenProperties DEF Apart
<1>2. \A i \in 1..Len(L[h]) : L[h][i] \in Entries
  BY <1>1, ElementOfSeq
<1>3. \A i \in 1..Len(L[g]) : L[g][i] \in Entries
  BY <1>1, ElementOfSeq
<1>4. \A i \in Int : Nth(L[h], h, i) \in ListHeads
  BY <1>2 DEF Nth, ListHeads
<1>5. \A e \in Entries : e # g /\ e # h
  BY KernelAssumption
<1>6. \A i \in 1..Len(L[g]), j \in 1..Len(L[h]) : L[g][i] = L[h][j] => g = h /\ i = j
  BY DEF Apart
<1>7. \A i \in 0..Len(L[g]), j \in 0..Len(L[h]) :
        Nth(L[g], g, i) = Nth(L[h], h, j) => g = h /\ i = j
  BY <1>1, <1>2, <1>3, <1>5, <1>6 DEF Nth
<1>8. \A i \in 1..Len(L[g]) + 1, j \in 1..Len(L[h]) + 1 :
        Nth(L[g], g, i) = Nth(L[h], h, j) => g = h /\ i = j
  BY <1>1, <1>2, <1>3, <1>5, <1>6 DEF Nth
<1> QED BY <1>1, <1>2, <1>4, <1>7, <1>8

LEMMA ApartIs ==
  ASSUME NEW L, Apart(L), NEW g \in Heads, NEW h \in Heads,
         NEW i \in 1..Len(L[g]), NEW j \in 1..Len(L[h]), L[g][i] = L[h][j]
  PROVE  g = h /\ i = j
BY DEF Apart

\* q is p with b after a.
Joins(p, q, a, b) ==
  /\ q \in Pointers
  /\ \A x \in ListHeads : q.next[x] = IF x = a THEN b ELSE p.next[x]
  /\ \A y \in ListHeads : q.prev[y] = IF y = b THEN a ELSE p.prev[y]

LEMMA JoinIs ==
  ASSUME NEW p \in Pointers, NEW a \in ListHeads, NEW b \in ListHeads, NEW q, q = Join(p, a, b)
  PROVE  Joins(p, q, a, b)
BY DEF Join, Joins, Pointers

LEMMA PoisonedIs ==
  ASSUME NEW p \in Pointers, NEW n \in ListHeads
  PROVE  /\ Poisoned(p, n) \in Pointers
         /\ \A x \in ListHeads : x # n => /\ Poisoned(p, n).next[x] = p.next[x]
                                          /\ Poisoned(p, n).prev[x] = p.prev[x]
BY DEF Poisoned, Pointers

\* What is in no list may be changed.
LEMMA Changing ==
  ASSUME NEW p, NEW L, NEW S, Shows(p, L, S), NEW q \in Pointers, NEW n \in ListHeads,
         IsFree(L, n) \/ n \in S,
         \A x \in ListHeads : x # n => q.next[x] = p.next[x] /\ q.prev[x] = p.prev[x]
  PROVE  Shows(q, L, S)
<1> SUFFICES ASSUME NEW h \in Heads \ S, NEW i \in 0..Len(L[h])
             PROVE  Linked(q, Nth(L[h], h, i), Nth(L[h], h, i + 1))
  BY DEF Shows, Holds
<1>1. Apart(L) /\ Linked(p, Nth(L[h], h, i), Nth(L[h], h, i + 1))
  BY DEF Shows, Holds
<1>2. Len(L[h]) \in Nat /\ Nth(L[h], h, i) \in ListHeads /\ Nth(L[h], h, i + 1) \in ListHeads
  BY <1>1, NthAre
<1>3. \A j \in Int : Nth(L[h], h, j) # n
  <2> SUFFICES ASSUME NEW j \in Int, Nth(L[h], h, j) = n
               PROVE  FALSE
    OBVIOUS
  <2>1. \A k \in 1..Len(L[h]) : L[h][k] \in Entries /\ L[h][k] \notin Heads /\ (n \in S => n \in Heads)
    BY <1>1, NthAre, KernelAssumption DEF Shows
  <2>2. CASE j \in 1..Len(L[h])
    BY <2>1, <2>2 DEF Nth, IsFree
  <2>3. CASE j \notin 1..Len(L[h])
    BY <2>3, KernelAssumption DEF Nth, IsFree
  <2> QED BY <2>2, <2>3
<1>4. i \in Int /\ i + 1 \in Int
  BY <1>2
<1> QED BY <1>1, <1>2, <1>3, <1>4 DEF Linked

LEMMA Freeing ==
  ASSUME NEW p, NEW L, NEW S, Shows(p, L, S), NEW n \in ListHeads, IsFree(L, n) \/ n \in S
  PROVE  Shows(Poisoned(p, n), L, S) /\ Shows(Initialized(p, n), L, S)
<1>1. p \in Pointers
  BY DEF Shows
<1>2. Shows(Poisoned(p, n), L, S)
  <2>1. PICK q : q = Poisoned(p, n)
    OBVIOUS
  <2> QED BY <1>1, <2>1, PoisonedIs, Changing
<1>3. Shows(Initialized(p, n), L, S)
  <2>1. PICK q : q = Initialized(p, n)
    OBVIOUS
  <2>2. q = Join(p, n, n)
    BY <2>1 DEF Initialized
  <2>3. q \in Pointers /\ \A x \in ListHeads : x # n => q.next[x] = p.next[x] /\ q.prev[x] = p.prev[x]
    BY <1>1, <2>2, JoinIs DEF Joins
  <2> QED BY <2>1, <2>3, Changing
<1> QED BY <1>2, <1>3

\* M is L without the i-th of h.
RemovalOf(L, M, h, i) ==
  /\ M \in [Heads -> Seq(Entries)] /\ \A g \in Heads \ {h} : M[g] = L[g]
  /\ Len(M[h]) = Len(L[h]) - 1
  /\ \A j \in 1..Len(L[h]) - 1 : M[h][j] = IF j < i THEN L[h][j] ELSE L[h][j + 1]

LEMMA Removing ==
  ASSUME NEW p, NEW L, NEW S, Shows(p, L, S), NEW h \in Heads \ S, NEW i \in 1..Len(L[h]),
         NEW M, RemovalOf(L, M, h, i)
  PROVE  Shows(Unlink(p, L[h][i]), M, S) /\ IsFree(M, L[h][i])
<1>0. /\ M \in [Heads -> Seq(Entries)] /\ \A g \in Heads \ {h} : M[g] = L[g]
      /\ Len(M[h]) = Len(L[h]) - 1
      /\ \A j \in 1..Len(L[h]) - 1 : M[h][j] = IF j < i THEN L[h][j] ELSE L[h][j + 1]
  BY DEF RemovalOf
<1> USE <1>0
<1>1. Apart(L) /\ p \in Pointers /\ S \subseteq Heads
  BY DEF Shows
<1>2. Len(L[h]) \in Nat /\ L[h][i] \in Entries
  BY <1>1, NthAre
<1>3. PICK a, b : a = Nth(L[h], h, i - 1) /\ b = Nth(L[h], h, i + 1)
  OBVIOUS
<1>4. a \in ListHeads /\ b \in ListHeads
  BY <1>1, <1>3, NthAre
<1>5. p.prev[L[h][i]] = a /\ p.next[L[h][i]] = b
  <2>1. Nth(L[h], h, i) = L[h][i]
    BY DEF Nth
  <2>2. i \in 0..Len(L[h]) /\ i - 1 \in 0..Len(L[h]) /\ (i - 1) + 1 = i
    BY <1>2
  <2>3. Linked(p, Nth(L[h], h, i), Nth(L[h], h, i + 1)) /\ Linked(p, Nth(L[h], h, i - 1), Nth(L[h], h, i))
    BY <2>2 DEF Shows, Holds
  <2> QED BY <1>3, <2>1, <2>3 DEF Linked
<1>6. PICK q : q = Unlink(p, L[h][i])
  OBVIOUS
<1>7. Joins(p, q, a, b)
  <2>1. q = Join(p, a, b)
    BY <1>5, <1>6 DEF Unlink
  <2> QED BY <1>1, <1>4, <2>1, JoinIs
<1>8. \A g \in Heads : Len(M[g]) \in Nat
  BY LenProperties
<1>9. \A g \in Heads : \A j \in 1..Len(M[g]) :
        \E k \in 1..Len(L[g]) :
          M[g][j] = L[g][k] /\ (g # h => k = j) /\ (g = h => k = IF j < i THEN j ELSE j + 1)
  <2> SUFFICES ASSUME NEW g \in Heads, NEW j \in 1..Len(M[g])
               PROVE  \E k \in 1..Len(L[g]) : M[g][j] = L[g][k] /\ (g # h => k = j)
                                              /\ (g = h => k = IF j < i THEN j ELSE j + 1)
    OBVIOUS
  <2>1. CASE g # h
    BY <2>1
  <2>2. CASE g = h
    BY <1>2, <2>2
  <2> QED BY <2>1, <2>2
<1>10. Apart(M)
  <2> SUFFICES ASSUME NEW f \in Heads, NEW g \in Heads, NEW j \in 1..Len(M[f]), NEW k \in 1..Len(M[g]),
                      M[f][j] = M[g][k]
               PROVE  f = g /\ j = k
    BY DEF Apart
  <2>1. PICK x \in 1..Len(L[f]) : M[f][j] = L[f][x] /\ (f # h => x = j) /\ (f = h => x = IF j < i THEN j ELSE j + 1)
    BY <1>9
  <2>2. PICK y \in 1..Len(L[g]) : M[g][k] = L[g][y] /\ (g # h => y = k) /\ (g = h => y = IF k < i THEN k ELSE k + 1)
    BY <1>9
  <2>3. f = g /\ x = y
    <3>1. L[f][x] = L[g][y]
      BY <2>1, <2>2
    <3> QED BY <1>1, <3>1, ApartIs
  <2> QED BY <1>2, <1>8, <2>1, <2>2, <2>3
<1>11. IsFree(M, L[h][i])
  <2> SUFFICES ASSUME NEW g \in Heads, NEW j \in 1..Len(M[g]), M[g][j] = L[h][i]
               PROVE  FALSE
    BY <1>2 DEF IsFree
  <2>1. PICK k \in 1..Len(L[g]) : M[g][j] = L[g][k] /\ (g # h => k = j) /\ (g = h => k = IF j < i THEN j ELSE j + 1)
    BY <1>9
  <2>2. g = h /\ k = i
    <3>1. L[g][k] = L[h][i]
      BY <2>1
    <3> QED BY <1>1, <3>1, ApartIs
  <2> QED BY <1>2, <1>8, <2>1, <2>2
<1>12. ASSUME NEW g \in Heads \ S, NEW j \in 0..Len(M[g])
       PROVE  Linked(q, Nth(M[g], g, j), Nth(M[g], g, j + 1))
  <2>1. CASE g # h
    <3>1. /\ M[g] = L[g] /\ j \in 0..Len(L[g]) /\ j + 1 \in 1..Len(L[g]) + 1 /\ j \in Int /\ j + 1 \in Int
          /\ i - 1 \in 0..Len(L[h]) /\ i + 1 \in 1..Len(L[h]) + 1
      BY <1>2, <1>8, <2>1
    <3>2. Linked(p, Nth(L[g], g, j), Nth(L[g], g, j + 1))
      BY <3>1 DEF Shows, Holds
    <3>3. Nth(L[g], g, j) # a /\ Nth(L[g], g, j + 1) # b /\ Nth(L[g], g, j) \in ListHeads /\ Nth(L[g], g, j + 1) \in ListHeads
      BY <1>1, <1>3, <2>1, <3>1, NthAre
    <3> QED BY <1>7, <3>1, <3>2, <3>3 DEF Joins, Linked
  <2>2. CASE g = h
    <3>1. j \in 0..Len(L[h]) - 1
      BY <2>2
    <3>2. CASE j < i - 1
      <4>1. Nth(M[h], h, j) = Nth(L[h], h, j) /\ Nth(M[h], h, j + 1) = Nth(L[h], h, j + 1)
        <5>1. Nth(M[h], h, j) = Nth(L[h], h, j)
          BY <1>2, <3>1, <3>2 DEF Nth
        <5>2. Nth(M[h], h, j + 1) = Nth(L[h], h, j + 1)
          BY <1>2, <3>1, <3>2 DEF Nth
        <5> QED BY <5>1, <5>2
      <4>2. j \in 0..Len(L[h]) /\ j + 1 \in 1..Len(L[h]) + 1 /\ j # i - 1 /\ j + 1 # i + 1 /\ j \in Int /\ j + 1 \in Int
            /\ i - 1 \in 0..Len(L[h]) /\ i + 1 \in 1..Len(L[h]) + 1
        BY <1>2, <3>1, <3>2
      <4>3. Linked(p, Nth(L[h], h, j), Nth(L[h], h, j + 1))
        BY <4>2 DEF Shows, Holds
      <4>4. Nth(L[h], h, j) # a /\ Nth(L[h], h, j + 1) # b /\ Nth(L[h], h, j) \in ListHeads /\ Nth(L[h], h, j + 1) \in ListHeads
        BY <1>1, <1>3, <4>2, NthAre
      <4> QED BY <1>7, <2>2, <4>1, <4>3, <4>4 DEF Joins, Linked
    <3>3. CASE j = i - 1
      <4>1. Nth(M[h], h, j) = a /\ Nth(M[h], h, j + 1) = b
        <5>1. Nth(M[h], h, j) = a
          BY <1>2, <1>3, <3>1, <3>3 DEF Nth
        <5>2. Nth(M[h], h, j + 1) = b
          BY <1>2, <1>3, <3>1, <3>3 DEF Nth
        <5> QED BY <5>1, <5>2
      <4> QED BY <1>4, <1>7, <2>2, <4>1 DEF Joins, Linked
    <3>4. CASE j > i - 1
      <4>1. Nth(M[h], h, j) = Nth(L[h], h, j + 1) /\ Nth(M[h], h, j + 1) = Nth(L[h], h, j + 1 + 1)
        <5>1. Nth(M[h], h, j) = Nth(L[h], h, j + 1)
          BY <1>2, <3>1, <3>4 DEF Nth
        <5>2. Nth(M[h], h, j + 1) = Nth(L[h], h, j + 1 + 1)
          BY <1>2, <3>1, <3>4 DEF Nth
        <5> QED BY <5>1, <5>2
      <4>2. j + 1 \in 0..Len(L[h]) /\ j + 1 + 1 \in 1..Len(L[h]) + 1 /\ j + 1 # i - 1 /\ j + 1 + 1 # i + 1 /\ j + 1 \in Int
            /\ j + 1 + 1 \in Int /\ i - 1 \in 0..Len(L[h]) /\ i + 1 \in 1..Len(L[h]) + 1
        BY <1>2, <3>1, <3>4
      <4>3. Linked(p, Nth(L[h], h, j + 1), Nth(L[h], h, j + 1 + 1))
        BY <4>2 DEF Shows, Holds
      <4>4. Nth(L[h], h, j + 1) # a /\ Nth(L[h], h, j + 1 + 1) # b /\ Nth(L[h], h, j + 1) \in ListHeads /\ Nth(L[h], h, j + 1 + 1) \in ListHeads
        BY <1>1, <1>3, <4>2, NthAre
      <4> QED BY <1>7, <2>2, <4>1, <4>3, <4>4 DEF Joins, Linked
    <3> QED BY <1>2, <3>1, <3>2, <3>3, <3>4
  <2> QED BY <2>1, <2>2
<1>13. \A g \in S : M[g] = << >>
  BY <1>1 DEF Shows
<1>14. Shows(q, M, S)
  BY <1>1, <1>7, <1>10, <1>12, <1>13 DEF Joins, Shows, Holds
<1> QED BY <1>6, <1>11, <1>14

LEMMA FreeIsNowhere ==
  ASSUME NEW L, Apart(L), NEW e, IsFree(L, e), NEW g \in Heads, NEW i \in Int
  PROVE  Nth(L[g], g, i) # e /\ e \in ListHeads
BY KernelAssumption DEF Nth, IsFree, ListHeads

InsertionOf(L, M, h, k, e) ==
  /\ M \in [Heads -> Seq(Entries)] /\ \A g \in Heads \ {h} : M[g] = L[g]
  /\ Len(M[h]) = Len(L[h]) + 1
  /\ \A j \in 1..Len(L[h]) + 1 :
       M[h][j] = IF j <= k THEN L[h][j] ELSE IF j = k + 1 THEN e ELSE L[h][j - 1]

\* e comes after the k-th of h.
LEMMA Inserting ==
  ASSUME NEW p, NEW L, NEW S, Shows(p, L, S), NEW h \in Heads \ S, NEW k \in 0..Len(L[h]),
         NEW e, IsFree(L, e),
         NEW M, InsertionOf(L, M, h, k, e)
  PROVE  Shows(PutBetween(p, e, Nth(L[h], h, k), Nth(L[h], h, k + 1)), M, S)
<1>0. /\ M \in [Heads -> Seq(Entries)] /\ \A g \in Heads \ {h} : M[g] = L[g]
      /\ Len(M[h]) = Len(L[h]) + 1
      /\ \A j \in 1..Len(L[h]) + 1 :
           M[h][j] = IF j <= k THEN L[h][j] ELSE IF j = k + 1 THEN e ELSE L[h][j - 1]
  BY DEF InsertionOf
<1> USE <1>0
<1>1. Apart(L) /\ p \in Pointers /\ S \subseteq Heads
  BY DEF Shows
<1>2. Len(L[h]) \in Nat
  BY <1>1, NthAre
<1>3. PICK a, b : a = Nth(L[h], h, k) /\ b = Nth(L[h], h, k + 1)
  OBVIOUS
<1>4. a \in ListHeads /\ b \in ListHeads /\ e \in ListHeads /\ a # e /\ b # e
  BY <1>1, <1>2, <1>3, NthAre, FreeIsNowhere
<1>5. PICK r : r = Join(p, e, b)
  OBVIOUS
<1>6. Joins(p, r, e, b)
  BY <1>1, <1>4, <1>5, JoinIs
<1>7. PICK q : q = Join(r, a, e)
  OBVIOUS
<1>8. Joins(r, q, a, e)
  <2>1. r \in Pointers
    BY <1>6 DEF Joins
  <2> QED BY <1>4, <1>7, <2>1, JoinIs
<1>9. \A g \in Heads : Len(M[g]) \in Nat
  BY LenProperties
<1>10. \A g \in Heads : \A j \in 1..Len(M[g]) :
        \/ g = h /\ j = k + 1 /\ M[g][j] = e
        \/ \E l \in 1..Len(L[g]) :
             M[g][j] = L[g][l] /\ (g # h => l = j) /\ (g = h => l = IF j <= k THEN j ELSE j - 1)
                               /\ (g = h => j # k + 1)
  <2> SUFFICES ASSUME NEW g \in Heads, NEW j \in 1..Len(M[g])
               PROVE  \/ g = h /\ j = k + 1 /\ M[g][j] = e
                      \/ \E l \in 1..Len(L[g]) :
                           M[g][j] = L[g][l] /\ (g # h => l = j) /\ (g = h => l = IF j <= k THEN j ELSE j - 1)
                                             /\ (g = h => j # k + 1)
    OBVIOUS
  <2>1. CASE g # h
    BY <2>1
  <2>2. CASE g = h
    BY <1>2, <2>2
  <2> QED BY <2>1, <2>2
<1>11. Apart(M)
  <2> SUFFICES ASSUME NEW f \in Heads, NEW g \in Heads, NEW j \in 1..Len(M[f]), NEW m \in 1..Len(M[g]),
                      M[f][j] = M[g][m]
               PROVE  f = g /\ j = m
    BY DEF Apart
  <2>1. CASE (f = h /\ j = k + 1 /\ M[f][j] = e) \/ (g = h /\ m = k + 1 /\ M[g][m] = e)
    <3>1. M[f][j] = e /\ M[g][m] = e
      BY <2>1
    <3>2. f = h /\ j = k + 1
      <4>1. ~ \E l \in 1..Len(L[f]) : M[f][j] = L[f][l]
        BY <3>1 DEF IsFree
      <4> QED BY <1>10, <4>1
    <3>3. g = h /\ m = k + 1
      <4>1. ~ \E l \in 1..Len(L[g]) : M[g][m] = L[g][l]
        BY <3>1 DEF IsFree
      <4> QED BY <1>10, <4>1
    <3> QED BY <3>2, <3>3
  <2>2. CASE \E l \in 1..Len(L[f]) :
             M[f][j] = L[f][l] /\ (f # h => l = j) /\ (f = h => l = IF j <= k THEN j ELSE j - 1)
                               /\ (f = h => j # k + 1)
    <3>1. PICK x \in 1..Len(L[f]) : M[f][j] = L[f][x] /\ (f # h => x = j)
                                    /\ (f = h => x = IF j <= k THEN j ELSE j - 1) /\ (f = h => j # k + 1)
      BY <2>2
    <3>2. CASE g = h /\ m = k + 1 /\ M[g][m] = e
      BY <2>1, <3>2
    <3>3. CASE ~(g = h /\ m = k + 1 /\ M[g][m] = e)
      <4>1. PICK y \in 1..Len(L[g]) : M[g][m] = L[g][y] /\ (g # h => y = m)
                                      /\ (g = h => y = IF m <= k THEN m ELSE m - 1) /\ (g = h => m # k + 1)
        BY <1>10, <3>3
      <4>2. L[f][x] = L[g][y]
        BY <3>1, <4>1
      <4>3. f = g /\ x = y
        BY <1>1, <4>2, ApartIs
      <4> QED BY <1>2, <1>9, <3>1, <4>1, <4>3
    <3> QED BY <3>2, <3>3
  <2> QED BY <1>10, <2>1, <2>2
<1>12. \A j \in 0..Len(L[h]) : j # k => Linked(q, Nth(L[h], h, j), Nth(L[h], h, j + 1))
  <2> SUFFICES ASSUME NEW j \in 0..Len(L[h]), j # k
               PROVE  Linked(q, Nth(L[h], h, j), Nth(L[h], h, j + 1))
    OBVIOUS
  <2>1. Linked(p, Nth(L[h], h, j), Nth(L[h], h, j + 1))
    BY DEF Shows, Holds
  <2>2. j + 1 \in 1..Len(L[h]) + 1 /\ k + 1 \in 1..Len(L[h]) + 1 /\ j \in Int /\ j + 1 \in Int /\ j + 1 # k + 1
    BY <1>2
  <2>3. /\ Nth(L[h], h, j) # a /\ Nth(L[h], h, j + 1) # b
        /\ Nth(L[h], h, j) \in ListHeads /\ Nth(L[h], h, j + 1) \in ListHeads
    BY <1>1, <1>3, <2>2, NthAre
  <2>4. Nth(L[h], h, j) # e /\ Nth(L[h], h, j + 1) # e
    BY <1>1, <2>2, FreeIsNowhere
  <2> QED BY <1>6, <1>8, <2>1, <2>3, <2>4 DEF Joins, Linked
<1>13. ASSUME NEW g \in Heads \ S, NEW j \in 0..Len(M[g])
       PROVE  Linked(q, Nth(M[g], g, j), Nth(M[g], g, j + 1))
  <2>1. CASE g # h
    <3>1. /\ M[g] = L[g] /\ j \in 0..Len(L[g]) /\ j + 1 \in 1..Len(L[g]) + 1 /\ j \in Int /\ j + 1 \in Int
          /\ k + 1 \in 1..Len(L[h]) + 1
      BY <1>2, <1>9, <2>1
    <3>2. Linked(p, Nth(L[g], g, j), Nth(L[g], g, j + 1))
      BY <3>1 DEF Shows, Holds
    <3>3. Nth(L[g], g, j) # a /\ Nth(L[g], g, j + 1) # b /\ Nth(L[g], g, j) \in ListHeads /\ Nth(L[g], g, j + 1) \in ListHeads
      BY <1>1, <1>3, <2>1, <3>1, NthAre
    <3>4. Nth(L[g], g, j) # e /\ Nth(L[g], g, j + 1) # e
      BY <1>1, <3>1, FreeIsNowhere
    <3> QED BY <1>6, <1>8, <3>1, <3>2, <3>3, <3>4 DEF Joins, Linked
  <2>2. CASE g = h
    <3>1. j \in 0..Len(L[h]) + 1
      BY <2>2
    <3>2. CASE j < k
      <4>1. Nth(M[h], h, j) = Nth(L[h], h, j)
        BY <1>2, <3>1, <3>2 DEF Nth
      <4>2. Nth(M[h], h, j + 1) = Nth(L[h], h, j + 1)
        BY <1>2, <3>1, <3>2 DEF Nth
      <4>3. j \in 0..Len(L[h])
        BY <1>2, <3>1, <3>2
      <4> QED BY <1>12, <2>2, <3>2, <4>1, <4>2, <4>3
    <3>3. CASE j = k
      <4>1. Nth(M[h], h, j) = a
        BY <1>2, <1>3, <3>1, <3>3 DEF Nth
      <4>2. Nth(M[h], h, j + 1) = e
        BY <1>2, <1>3, <3>1, <3>3 DEF Nth
      <4> QED BY <1>4, <1>6, <1>8, <2>2, <4>1, <4>2 DEF Joins, Linked
    <3>4. CASE j = k + 1
      <4>1. Nth(M[h], h, j) = e
        BY <1>2, <1>3, <3>1, <3>4 DEF Nth
      <4>2. Nth(M[h], h, j + 1) = b
        BY <1>2, <1>3, <3>1, <3>4 DEF Nth
      <4> QED BY <1>4, <1>6, <1>8, <2>2, <4>1, <4>2 DEF Joins, Linked
    <3>5. CASE j > k + 1
      <4>1. Nth(M[h], h, j) = Nth(L[h], h, j - 1)
        BY <1>2, <3>1, <3>5 DEF Nth
      <4>2. Nth(M[h], h, j + 1) = Nth(L[h], h, (j - 1) + 1)
        BY <1>2, <3>1, <3>5 DEF Nth
      <4>3. j - 1 \in 0..Len(L[h]) /\ j - 1 # k
        BY <1>2, <3>1, <3>5
      <4> QED BY <1>12, <2>2, <4>1, <4>2, <4>3
    <3> QED BY <1>2, <3>1, <3>2, <3>3, <3>4, <3>5
  <2> QED BY <2>1, <2>2
<1>14. \A g \in S : M[g] = << >>
  BY <1>1 DEF Shows
<1>15. Shows(q, M, S)
  BY <1>1, <1>8, <1>11, <1>13, <1>14 DEF Joins, Shows, Holds
<1> QED BY <1>3, <1>5, <1>7, <1>15 DEF PutBetween

ReplacementOf(L, M, h, i, new) ==
  /\ M \in [Heads -> Seq(Entries)] /\ \A g \in Heads \ {h} : M[g] = L[g]
  /\ Len(M[h]) = Len(L[h])
  /\ \A j \in 1..Len(L[h]) : M[h][j] = IF j = i THEN new ELSE L[h][j]

\* new takes the place of the i-th of h.
LEMMA Replacing ==
  ASSUME NEW p, NEW L, NEW S, Shows(p, L, S), NEW h \in Heads \ S, NEW i \in 1..Len(L[h]),
         NEW new, IsFree(L, new),
         NEW M, ReplacementOf(L, M, h, i, new)
  PROVE  Shows(PutFor(p, L[h][i], new), M, S) /\ IsFree(M, L[h][i])
<1>0. /\ M \in [Heads -> Seq(Entries)] /\ \A g \in Heads \ {h} : M[g] = L[g]
      /\ Len(M[h]) = Len(L[h])
      /\ \A j \in 1..Len(L[h]) : M[h][j] = IF j = i THEN new ELSE L[h][j]
  BY DEF ReplacementOf
<1> USE <1>0
<1>1. Apart(L) /\ p \in Pointers /\ S \subseteq Heads
  BY DEF Shows
<1>2. Len(L[h]) \in Nat /\ L[h][i] \in Entries
  BY <1>1, NthAre
<1>3. PICK a, b, old : a = Nth(L[h], h, i - 1) /\ b = Nth(L[h], h, i + 1) /\ old = L[h][i]
  OBVIOUS
<1>4. /\ a \in ListHeads /\ b \in ListHeads /\ new \in ListHeads /\ old \in ListHeads
      /\ a # new /\ b # new /\ b # old /\ old # new
  <2>1. Nth(L[h], h, i) = old
    BY <1>3 DEF Nth
  <2>2. i \in 1..Len(L[h]) + 1 /\ i + 1 \in 1..Len(L[h]) + 1 /\ i \in Int /\ i + 1 \in Int /\ i - 1 \in Int /\ i # i + 1
    BY <1>2
  <2> QED BY <1>1, <1>3, <2>1, <2>2, NthAre, FreeIsNowhere
<1>5. p.prev[old] = a /\ p.next[old] = b
  <2>1. Nth(L[h], h, i) = old
    BY <1>3 DEF Nth
  <2>2. i \in 0..Len(L[h]) /\ i - 1 \in 0..Len(L[h]) /\ (i - 1) + 1 = i
    BY <1>2
  <2>3. Linked(p, Nth(L[h], h, i), Nth(L[h], h, i + 1)) /\ Linked(p, Nth(L[h], h, i - 1), Nth(L[h], h, i))
    BY <2>2 DEF Shows, Holds
  <2> QED BY <1>3, <2>1, <2>3 DEF Linked
<1>6. PICK r : r = Join(p, new, b)
  OBVIOUS
<1>7. Joins(p, r, new, b)
  BY <1>1, <1>4, <1>6, JoinIs
<1>8. r.prev[old] = a
  BY <1>4, <1>5, <1>7 DEF Joins
<1>9. PICK q : q = Join(r, a, new)
  OBVIOUS
<1>10. Joins(r, q, a, new)
  <2>1. r \in Pointers
    BY <1>7 DEF Joins
  <2> QED BY <1>4, <1>9, <2>1, JoinIs
<1>11. q = PutFor(p, L[h][i], new)
  BY <1>3, <1>5, <1>6, <1>8, <1>9 DEF PutFor
<1>12. \A g \in Heads : Len(M[g]) \in Nat /\ Len(M[g]) = Len(L[g])
  BY LenProperties
<1>13. \A g \in Heads : \A j \in 1..Len(M[g]) :
         M[g][j] = IF g = h /\ j = i THEN new ELSE L[g][j]
  BY <1>12
<1>14. Apart(M)
  <2> SUFFICES ASSUME NEW f \in Heads, NEW g \in Heads, NEW j \in 1..Len(M[f]), NEW m \in 1..Len(M[g]),
                      M[f][j] = M[g][m]
               PROVE  f = g /\ j = m
    BY DEF Apart
  <2>1. j \in 1..Len(L[f]) /\ m \in 1..Len(L[g])
    BY <1>12
  <2>2. CASE f = h /\ j = i
    BY <1>13, <2>1, <2>2 DEF IsFree
  <2>3. CASE g = h /\ m = i
    BY <1>13, <2>1, <2>3 DEF IsFree
  <2>4. CASE ~(f = h /\ j = i) /\ ~(g = h /\ m = i)
    <3>1. L[f][j] = L[g][m]
      BY <1>13, <2>4
    <3> QED BY <1>1, <2>1, <3>1, ApartIs
  <2> QED BY <2>2, <2>3, <2>4
<1>15. IsFree(M, L[h][i])
  <2> SUFFICES ASSUME NEW g \in Heads, NEW j \in 1..Len(M[g]), M[g][j] = L[h][i]
               PROVE  FALSE
    BY <1>2 DEF IsFree
  <2>1. j \in 1..Len(L[g])
    BY <1>12
  <2>2. CASE g = h /\ j = i
    BY <1>3, <1>4, <1>13, <2>2
  <2>3. CASE ~(g = h /\ j = i)
    <3>1. L[g][j] = L[h][i]
      BY <1>13, <2>3
    <3> QED BY <1>1, <2>1, <2>3, <3>1, ApartIs
  <2> QED BY <2>2, <2>3
<1>16. \A j \in 0..Len(L[h]) : j # i /\ j # i - 1 => Linked(q, Nth(L[h], h, j), Nth(L[h], h, j + 1))
  <2> SUFFICES ASSUME NEW j \in 0..Len(L[h]), j # i, j # i - 1
               PROVE  Linked(q, Nth(L[h], h, j), Nth(L[h], h, j + 1))
    OBVIOUS
  <2>1. Linked(p, Nth(L[h], h, j), Nth(L[h], h, j + 1))
    BY DEF Shows, Holds
  <2>2. /\ j + 1 \in 1..Len(L[h]) + 1 /\ i + 1 \in 1..Len(L[h]) + 1 /\ j \in Int /\ j + 1 \in Int /\ j + 1 # i + 1
        /\ i - 1 \in 0..Len(L[h])
    BY <1>2
  <2>3. /\ Nth(L[h], h, j) # a /\ Nth(L[h], h, j + 1) # b
        /\ Nth(L[h], h, j) \in ListHeads /\ Nth(L[h], h, j + 1) \in ListHeads
    BY <1>1, <1>3, <2>2, NthAre
  <2>4. Nth(L[h], h, j) # new /\ Nth(L[h], h, j + 1) # new
    BY <1>1, <2>2, FreeIsNowhere
  <2> QED BY <1>7, <1>10, <2>1, <2>3, <2>4 DEF Joins, Linked
<1>17. ASSUME NEW g \in Heads \ S, NEW j \in 0..Len(M[g])
       PROVE  Linked(q, Nth(M[g], g, j), Nth(M[g], g, j + 1))
  <2>1. CASE g # h
    <3>1. /\ M[g] = L[g] /\ j \in 0..Len(L[g]) /\ j + 1 \in 1..Len(L[g]) + 1 /\ j \in Int /\ j + 1 \in Int
          /\ i + 1 \in 1..Len(L[h]) + 1 /\ i - 1 \in 0..Len(L[h])
      BY <1>2, <1>12, <2>1
    <3>2. Linked(p, Nth(L[g], g, j), Nth(L[g], g, j + 1))
      BY <3>1 DEF Shows, Holds
    <3>3. Nth(L[g], g, j) # a /\ Nth(L[g], g, j + 1) # b /\ Nth(L[g], g, j) \in ListHeads /\ Nth(L[g], g, j + 1) \in ListHeads
      BY <1>1, <1>3, <2>1, <3>1, NthAre
    <3>4. Nth(L[g], g, j) # new /\ Nth(L[g], g, j + 1) # new
      BY <1>1, <3>1, FreeIsNowhere
    <3> QED BY <1>7, <1>10, <3>1, <3>2, <3>3, <3>4 DEF Joins, Linked
  <2>2. CASE g = h
    <3>1. j \in 0..Len(L[h])
      BY <2>2
    <3>2. \A m \in Int : m # i => Nth(M[h], h, m) = Nth(L[h], h, m)
      BY DEF Nth
    <3>3. Nth(M[h], h, i) = new
      BY DEF Nth
    <3>4. CASE j = i - 1
      <4>1. Nth(M[h], h, j) = a
        BY <1>3, <3>2, <3>4
      <4>2. Nth(M[h], h, j + 1) = new
        BY <3>3, <3>4
      <4> QED BY <1>4, <1>7, <1>10, <2>2, <4>1, <4>2 DEF Joins, Linked
    <3>5. CASE j = i
      <4>1. Nth(M[h], h, j) = new
        BY <3>3, <3>5
      <4>2. Nth(M[h], h, j + 1) = b
        BY <1>3, <3>2, <3>5
      <4> QED BY <1>4, <1>7, <1>10, <2>2, <4>1, <4>2 DEF Joins, Linked
    <3>6. CASE j # i /\ j # i - 1
      <4>1. Nth(M[h], h, j) = Nth(L[h], h, j)
        BY <3>2, <3>6
      <4>2. Nth(M[h], h, j + 1) = Nth(L[h], h, j + 1)
        BY <3>2, <3>6
      <4> QED BY <1>16, <2>2, <3>1, <3>6, <4>1, <4>2
    <3> QED BY <3>4, <3>5, <3>6
  <2> QED BY <2>1, <2>2
<1>18. \A g \in S : M[g] = << >>
  BY <1>1 DEF Shows
<1>19. Shows(q, M, S)
  BY <1>1, <1>10, <1>14, <1>17, <1>18 DEF Joins, Shows, Holds
<1> QED BY <1>11, <1>15, <1>19

\* Three entries get a new follower each; the other links stay.
LEMMA ThreeJoins ==
  ASSUME NEW p \in Pointers,
         NEW a1 \in ListHeads, NEW a2 \in ListHeads, NEW a3 \in ListHeads, a1 # a2, a1 # a3, a2 # a3,
         NEW b1 \in ListHeads, NEW b2 \in ListHeads, NEW b3 \in ListHeads, b1 # b2, b1 # b3, b2 # b3,
         NEW q, q = Join(Join(Join(p, a1, b1), a2, b2), a3, b3)
  PROVE  /\ q \in Pointers /\ Linked(q, a1, b1) /\ Linked(q, a2, b2) /\ Linked(q, a3, b3)
         /\ \A x, y \in ListHeads :
              x # a1 /\ x # a2 /\ x # a3 /\ y # b1 /\ y # b2 /\ y # b3 /\ Linked(p, x, y) => Linked(q, x, y)
<1>1. PICK r : r = Join(p, a1, b1)
  OBVIOUS
<1>2. Joins(p, r, a1, b1)
  BY <1>1, JoinIs
<1>3. PICK s : s = Join(r, a2, b2)
  OBVIOUS
<1>4. r \in Pointers
  BY <1>2 DEF Joins
<1>5. Joins(r, s, a2, b2)
  BY <1>3, <1>4, JoinIs
<1>6. s \in Pointers /\ q = Join(s, a3, b3)
  BY <1>1, <1>3, <1>5 DEF Joins
<1>7. Joins(s, q, a3, b3)
  BY <1>6, JoinIs
<1> QED BY <1>2, <1>5, <1>7 DEF Joins, Linked

LEMMA TwoJoins ==
  ASSUME NEW p \in Pointers,
         NEW a1 \in ListHeads, NEW a2 \in ListHeads, a1 # a2,
         NEW b1 \in ListHeads, NEW b2 \in ListHeads, b1 # b2,
         NEW q, q = Join(Join(p, a1, b1), a2, b2)
  PROVE  /\ q \in Pointers /\ Linked(q, a1, b1) /\ Linked(q, a2, b2)
         /\ \A x, y \in ListHeads :
              x # a1 /\ x # a2 /\ y # b1 /\ y # b2 /\ Linked(p, x, y) => Linked(q, x, y)
<1>1. PICK r : r = Join(p, a1, b1)
  OBVIOUS
<1>2. Joins(p, r, a1, b1)
  BY <1>1, JoinIs
<1>3. r \in Pointers /\ q = Join(r, a2, b2)
  BY <1>1, <1>2 DEF Joins
<1>4. Joins(r, q, a2, b2)
  BY <1>3, JoinIs
<1> QED BY <1>2, <1>4 DEF Joins, Linked

\* M has in h what L has, in the order that f gives.
Permuted(L, M, h, f) ==
  /\ M \in [Heads -> Seq(Entries)] /\ \A g \in Heads \ {h} : M[g] = L[g]
  /\ Len(M[h]) = Len(L[h])
  /\ \A j \in 1..Len(L[h]) : f[j] \in 1..Len(L[h]) /\ M[h][j] = L[h][f[j]]
  /\ \A j, k \in 1..Len(L[h]) : f[j] = f[k] => j = k

LEMMA Permuting ==
  ASSUME NEW L, Apart(L), NEW h \in Heads, NEW M, NEW f, Permuted(L, M, h, f)
  PROVE  Apart(M)
<1>0. /\ M \in [Heads -> Seq(Entries)] /\ \A g \in Heads \ {h} : M[g] = L[g]
      /\ Len(M[h]) = Len(L[h])
      /\ \A j \in 1..Len(L[h]) : f[j] \in 1..Len(L[h]) /\ M[h][j] = L[h][f[j]]
      /\ \A j, k \in 1..Len(L[h]) : f[j] = f[k] => j = k
  BY DEF Permuted
<1> SUFFICES ASSUME NEW g1 \in Heads, NEW g2 \in Heads, NEW j \in 1..Len(M[g1]), NEW k \in 1..Len(M[g2]),
                    M[g1][j] = M[g2][k]
             PROVE  g1 = g2 /\ j = k
  BY <1>0 DEF Apart
<1>1. PICK x \in 1..Len(L[g1]) : M[g1][j] = L[g1][x] /\ (g1 # h => x = j) /\ (g1 = h => x = f[j])
  <2>1. CASE g1 # h
    BY <1>0, <2>1
  <2>2. CASE g1 = h
    BY <1>0, <2>2
  <2> QED BY <2>1, <2>2
<1>2. PICK y \in 1..Len(L[g2]) : M[g2][k] = L[g2][y] /\ (g2 # h => y = k) /\ (g2 = h => y = f[k])
  <2>1. CASE g2 # h
    BY <1>0, <2>1
  <2>2. CASE g2 = h
    BY <1>0, <2>2
  <2> QED BY <2>1, <2>2
<1>3. L[g1][x] = L[g2][y]
  BY <1>1, <1>2
<1>4. g1 = g2 /\ x = y
  BY <1>3, ApartIs
<1> QED BY <1>0, <1>1, <1>2, <1>4

\* M is L, with the i-th to the j-th of h behind the others.
BulkOf(L, M, h, i, j) ==
  /\ M \in [Heads -> Seq(Entries)] /\ \A g \in Heads \ {h} : M[g] = L[g]
  /\ Len(M[h]) = Len(L[h])
  /\ \A k \in 1..Len(L[h]) :
       M[h][k] = IF k < i THEN L[h][k]
                 ELSE IF k <= Len(L[h]) - (j - i + 1) THEN L[h][k + (j - i + 1)]
                 ELSE L[h][k - (Len(L[h]) - j)]

\* The i-th to the j-th of h go behind the others.
LEMMA BulkMoving ==
  ASSUME NEW p, NEW L, NEW S, Shows(p, L, S), NEW h \in Heads \ S,
         NEW i \in 1..Len(L[h]), NEW j \in i..Len(L[h]),
         NEW M, BulkOf(L, M, h, i, j)
  PROVE  Shows(BulkMoved(p, h, L[h][i], L[h][j]), M, S)
<1>0. /\ M \in [Heads -> Seq(Entries)] /\ \A g \in Heads \ {h} : M[g] = L[g]
      /\ Len(M[h]) = Len(L[h])
      /\ \A k \in 1..Len(L[h]) :
           M[h][k] = IF k < i THEN L[h][k]
                     ELSE IF k <= Len(L[h]) - (j - i + 1) THEN L[h][k + (j - i + 1)]
                     ELSE L[h][k - (Len(L[h]) - j)]
  BY DEF BulkOf
<1>1. Apart(L) /\ p \in Pointers /\ S \subseteq Heads
  BY DEF Shows
<1>2. PICK n \in Nat : n = Len(L[h])
  BY <1>1, NthAre
<1>3. PICK d \in Nat : d = j - i + 1
  BY <1>2
<1>4. /\ i \in 1..n /\ j \in i..n /\ d \in 1..n /\ i \in Int /\ j \in Int
      /\ \A k \in 1..n : M[h][k] = IF k < i THEN L[h][k] ELSE IF k <= n - d THEN L[h][k + d]
                                   ELSE L[h][k - (n - j)]
  BY <1>0, <1>2, <1>3
<1>5. Apart(M)
  <2> DEFINE f == [k \in 1..n |-> IF k < i THEN k ELSE IF k <= n - d THEN k + d ELSE k - (n - j)]
  <2>1. \A k \in 1..n : f[k] \in 1..n /\ M[h][k] = L[h][f[k]]
    <3> SUFFICES ASSUME NEW k \in 1..n
                 PROVE  f[k] \in 1..n /\ M[h][k] = L[h][f[k]]
      OBVIOUS
    <3>1. f[k] = IF k < i THEN k ELSE IF k <= n - d THEN k + d ELSE k - (n - j)
      OBVIOUS
    <3> HIDE DEF f
    <3>2. f[k] \in 1..n
      BY <1>3, <1>4, <3>1
    <3> QED BY <1>4, <3>1, <3>2
  <2>2. \A k, m \in 1..n : f[k] = f[m] => k = m
    <3> SUFFICES ASSUME NEW k \in 1..n, NEW m \in 1..n, f[k] = f[m]
                 PROVE  k = m
      OBVIOUS
    <3>1. (IF k < i THEN k ELSE IF k <= n - d THEN k + d ELSE k - (n - j))
             = (IF m < i THEN m ELSE IF m <= n - d THEN m + d ELSE m - (n - j))
      OBVIOUS
    <3> HIDE DEF f
    <3>2. i \in 1..n /\ j \in i..n /\ d = j - i + 1
      BY <1>3, <1>4
    <3>3. CASE k < i
      BY <3>1, <3>2, <3>3
    <3>4. CASE k >= i /\ k <= n - d
      BY <3>1, <3>2, <3>4
    <3>5. CASE k >= i /\ k > n - d
      BY <3>1, <3>2, <3>5
    <3> QED BY <3>2, <3>3, <3>4, <3>5
  <2> HIDE DEF f
  <2>3. \A k \in 1..Len(L[h]) : f[k] \in 1..Len(L[h]) /\ M[h][k] = L[h][f[k]]
    BY <1>2, <2>1
  <2>4. \A k, m \in 1..Len(L[h]) : f[k] = f[m] => k = m
    BY <1>2, <2>2
  <2>5. Permuted(L, M, h, f)
    BY <1>0, <2>3, <2>4 DEF Permuted
  <2> QED BY <1>1, <2>5, Permuting
<1> DEFINE at(x) == Nth(L[h], h, x)
<1>6. PICK a, b, z, first, last : a = at(i - 1) /\ b = at(j + 1) /\ z = at(n) /\ first = at(i) /\ last = at(j)
  OBVIOUS
<1>7. /\ \A x \in Int : at(x) \in ListHeads
      /\ \A x, y \in 0..n : at(x) = at(y) => x = y
      /\ \A x, y \in 1..n + 1 : at(x) = at(y) => x = y
      /\ at(n + 1) = h /\ at(0) = h
      /\ \A x \in 0..n : Linked(p, at(x), at(x + 1))
  <2>1. at(n + 1) = h /\ at(0) = h
    BY <1>2 DEF Nth
  <2>2. \A x \in 0..n : Linked(p, at(x), at(x + 1))
    BY <1>2 DEF Shows, Holds
  <2>3. /\ \A x \in Int : Nth(L[h], h, x) \in ListHeads
        /\ \A x \in 0..Len(L[h]), y \in 0..Len(L[h]) : Nth(L[h], h, x) = Nth(L[h], h, y) => h = h /\ x = y
        /\ \A x \in 1..Len(L[h]) + 1, y \in 1..Len(L[h]) + 1 : Nth(L[h], h, x) = Nth(L[h], h, y) => h = h /\ x = y
    BY <1>1, NthAre
  <2> QED BY <1>2, <2>1, <2>2, <2>3
<1>8. /\ \A x \in 0..n : p.next[at(x)] = at(x + 1)
      /\ \A x \in 0..n : p.prev[at(x + 1)] = at(x)
  BY <1>7 DEF Linked
<1> HIDE DEF at
<1>9. p.prev[first] = a /\ p.next[last] = b /\ p.prev[h] = z
  <2>1. i - 1 \in 0..n /\ (i - 1) + 1 = i /\ j \in 0..n /\ n \in 0..n
    BY <1>4
  <2> QED BY <1>6, <1>7, <1>8, <2>1
<1>10. L[h][i] = first /\ L[h][j] = last
  BY <1>2, <1>4, <1>6 DEF at, Nth
<1>11. PICK q : q = BulkMoved(p, h, first, last)
  OBVIOUS
<1>12. PICK r : r = Join(p, a, b)
  OBVIOUS
<1>13. /\ a \in ListHeads /\ b \in ListHeads /\ z \in ListHeads /\ first \in ListHeads /\ last \in ListHeads
       /\ h \in ListHeads
  BY <1>4, <1>6, <1>7 DEF ListHeads
<1>14. Joins(p, r, a, b)
  BY <1>1, <1>12, <1>13, JoinIs
<1>15. q = Join(Join(r, r.prev[h], first), last, h)
  BY <1>9, <1>11, <1>12 DEF BulkMoved
<1>16. \A g \in Heads \ {h}, x \in Int :
         Nth(L[g], g, x) \in ListHeads
  BY <1>1, NthAre
<1>17. CASE j = n
  <2>1. b = h /\ last = z
    BY <1>6, <1>7, <1>17
  <2>2. r.prev[h] = a
    BY <1>13, <1>14, <2>1 DEF Joins
  <2>3. PICK s : s = Join(r, a, first)
    OBVIOUS
  <2>4. r \in Pointers
    BY <1>14 DEF Joins
  <2>5. Joins(r, s, a, first)
    BY <1>13, <2>3, <2>4, JoinIs
  <2>6. s \in Pointers /\ q = Join(s, last, h)
    BY <1>15, <2>2, <2>3, <2>5 DEF Joins
  <2>7. Joins(s, q, last, h)
    BY <1>13, <2>6, JoinIs
  <2>8. a # last /\ first # h
    <3>1. i - 1 \in 0..n /\ j \in 0..n /\ i - 1 # j /\ i \in 1..n + 1 /\ n + 1 \in 1..n + 1 /\ i # n + 1
      BY <1>4
    <3> QED BY <1>6, <1>7, <3>1
  <2>9. p.next[a] = first /\ p.prev[first] = a /\ p.next[last] = h /\ p.prev[h] = last
    <3>1. i - 1 \in 0..n /\ (i - 1) + 1 = i
      BY <1>4
    <3>2. p.next[a] = first
      BY <1>6, <1>8, <3>1
    <3> QED BY <1>9, <2>1, <3>2
  <2>10. q \in Pointers /\ \A x \in ListHeads : q.next[x] = p.next[x] /\ q.prev[x] = p.prev[x]
    BY <1>13, <1>14, <2>1, <2>5, <2>7, <2>8, <2>9 DEF Joins
  <2>11. M[h] = L[h]
    <3>1. M[h] \in Seq(Entries) /\ L[h] \in Seq(Entries)
      BY <1>0, <1>1 DEF Apart
    <3>2. \A k \in 1..n : M[h][k] = L[h][k]
      <4>1. n - d = i - 1 /\ \A k \in 1..n : k - (n - j) = k /\ (~(k < i) => ~(k <= i - 1))
        BY <1>3, <1>4, <1>17
      <4> QED BY <1>4, <4>1
    <3> QED BY <1>0, <1>2, <3>1, <3>2, SeqEqual
  <2>12. ASSUME NEW g \in Heads \ S, NEW x \in 0..Len(L[g])
         PROVE  Linked(q, Nth(L[g], g, x), Nth(L[g], g, x + 1))
    <3>1. Linked(p, Nth(L[g], g, x), Nth(L[g], g, x + 1))
      BY DEF Shows, Holds
    <3>2. Nth(L[g], g, x) \in ListHeads /\ Nth(L[g], g, x + 1) \in ListHeads
      <4>1. x \in Int /\ x + 1 \in Int
        BY <1>1, NthAre
      <4> QED BY <1>1, <4>1, NthAre
    <3> QED BY <2>10, <3>1, <3>2 DEF Linked
  <2>13. \A g \in Heads : M[g] = L[g]
    BY <1>0, <2>11
  <2>14. Shows(q, M, S)
    BY <1>1, <1>5, <2>10, <2>12, <2>13 DEF Shows, Holds
  <2> QED BY <1>10, <1>11, <2>14
<1>18. CASE j < n
  <2>1. /\ i - 1 \in 0..n /\ n \in 0..n /\ j \in 0..n /\ i - 1 # n /\ i - 1 # j /\ n # j
        /\ j + 1 \in 1..n + 1 /\ i \in 1..n + 1 /\ n + 1 \in 1..n + 1 /\ j + 1 # i /\ j + 1 # n + 1 /\ i # n + 1
    BY <1>4, <1>18
  <2>2. a # z /\ a # last /\ z # last /\ b # first /\ b # h /\ first # h
    BY <1>6, <1>7, <2>1
  <2>3. r.prev[h] = z
    BY <1>9, <1>13, <1>14, <2>2 DEF Joins
  <2>4. q = Join(Join(Join(p, a, b), z, first), last, h)
    BY <1>12, <1>15, <2>3
  <2>5. /\ q \in Pointers /\ Linked(q, a, b) /\ Linked(q, z, first) /\ Linked(q, last, h)
        /\ \A x, y \in ListHeads :
             x # a /\ x # z /\ x # last /\ y # b /\ y # first /\ y # h /\ Linked(p, x, y) => Linked(q, x, y)
    BY <1>1, <1>13, <2>2, <2>4, ThreeJoins
  <2>6. \A x \in 0..n : x # i - 1 /\ x # n /\ x # j => Linked(q, at(x), at(x + 1))
    <3> SUFFICES ASSUME NEW x \in 0..n, x # i - 1, x # n, x # j
                 PROVE  Linked(q, at(x), at(x + 1))
      OBVIOUS
    <3>1. x + 1 \in 1..n + 1 /\ x + 1 # i /\ x + 1 # n + 1 /\ x + 1 # j + 1 /\ x \in Int /\ x + 1 \in Int
      BY <1>4
    <3>2. at(x) # a /\ at(x) # z /\ at(x) # last /\ at(x + 1) # b /\ at(x + 1) # first /\ at(x + 1) # h
      BY <1>6, <1>7, <2>1, <3>1
    <3> QED BY <1>7, <2>5, <3>1, <3>2
  <2>7. ASSUME NEW g \in Heads \ S, NEW k \in 0..Len(M[g])
        PROVE  Linked(q, Nth(M[g], g, k), Nth(M[g], g, k + 1))
    <3>1. CASE g # h
      <4>1. /\ M[g] = L[g] /\ Len(L[g]) \in Nat /\ k \in 0..Len(L[g]) /\ k + 1 \in 1..Len(L[g]) + 1
            /\ k \in Int /\ k + 1 \in Int
        BY <1>0, <1>1, <3>1, NthAre
      <4>2. Linked(p, Nth(L[g], g, k), Nth(L[g], g, k + 1))
        BY <4>1 DEF Shows, Holds
      <4>3. \A x \in 0..n : Nth(L[g], g, k) # at(x)
        BY <1>1, <1>2, <3>1, <4>1, NthAre DEF at
      <4>4. \A x \in 1..n + 1 : Nth(L[g], g, k + 1) # at(x)
        BY <1>1, <1>2, <3>1, <4>1, NthAre DEF at
      <4> QED BY <1>6, <1>7, <1>16, <2>1, <2>5, <3>1, <4>1, <4>2, <4>3, <4>4
    <3>2. CASE g = h
      <4>1. k \in 0..n /\ Len(M[h]) = n
        BY <1>0, <1>2, <3>2
      <4>2. \A x \in 1..n : Nth(M[h], h, x) = M[h][x] /\ at(x) = L[h][x]
        BY <1>0, <1>2 DEF Nth, at
      <4>3. Nth(M[h], h, 0) = h /\ Nth(M[h], h, n + 1) = h
        BY <1>0, <1>2 DEF Nth
      <4>4. \A x \in 0..n + 1 :
              Nth(M[h], h, x) = IF x < i THEN at(x) ELSE IF x <= n - d THEN at(x + d)
                                ELSE IF x <= n THEN at(x - (n - j)) ELSE h
        <5> SUFFICES ASSUME NEW x \in 0..n + 1
                     PROVE  Nth(M[h], h, x) = IF x < i THEN at(x) ELSE IF x <= n - d THEN at(x + d)
                                              ELSE IF x <= n THEN at(x - (n - j)) ELSE h
          OBVIOUS
        <5>1. CASE x = 0
          BY <1>4, <1>7, <4>3, <5>1
        <5>2. CASE x = n + 1
          BY <1>3, <1>4, <4>3, <5>2
        <5>3. CASE x \in 1..n
          <6>1. x >= i /\ x <= n - d => x + d \in 1..n
            BY <1>4, <5>3
          <6>2. x >= i /\ x > n - d => x - (n - j) \in 1..n
            BY <1>3, <1>4, <5>3
          <6>3. CASE x < i
            BY <1>4, <4>2, <5>3, <6>3
          <6>4. CASE ~(x < i) /\ x <= n - d
            <7>1. x >= i
              BY <1>4, <5>3, <6>4
            <7> QED BY <1>4, <4>2, <5>3, <6>1, <6>4, <7>1
          <6>5. CASE ~(x < i) /\ ~(x <= n - d)
            <7>1. x >= i /\ x > n - d /\ x <= n
              BY <1>4, <5>3, <6>5
            <7> QED BY <1>4, <4>2, <5>3, <6>2, <6>5, <7>1
          <6> QED BY <6>3, <6>4, <6>5
        <5> QED BY <5>1, <5>2, <5>3
      <4>5. i <= n - d /\ k + 1 \in 0..n + 1 /\ k \in 0..n + 1
        BY <1>3, <1>4, <1>18, <4>1
      <4>6. CASE k < i - 1
        <5>1. k + 1 < i /\ k < i /\ k # i - 1 /\ k # n /\ k # j
          BY <1>4, <4>1, <4>6
        <5> QED BY <2>6, <3>2, <4>1, <4>4, <4>5, <5>1
      <4>7. CASE k = i - 1
        <5>1. k < i /\ ~(k + 1 < i) /\ k + 1 <= n - d /\ k + 1 + d = j + 1
          BY <1>3, <1>4, <4>5, <4>7
        <5>2. Nth(M[h], h, k) = a /\ Nth(M[h], h, k + 1) = b
          BY <1>6, <4>4, <4>5, <4>7, <5>1
        <5> QED BY <2>5, <3>2, <5>2
      <4>8. CASE i <= k /\ k < n - d
        <5>1. /\ ~(k < i) /\ ~(k + 1 < i) /\ k <= n - d /\ k + 1 <= n - d /\ (k + 1) + d = (k + d) + 1
              /\ k + d \in 0..n /\ k + d # i - 1 /\ k + d # n /\ k + d # j
          BY <1>3, <1>4, <4>1, <4>8
        <5>2. Nth(M[h], h, k) = at(k + d) /\ Nth(M[h], h, k + 1) = at((k + d) + 1)
          BY <4>4, <4>5, <5>1
        <5> QED BY <2>6, <3>2, <5>1, <5>2
      <4>9. CASE k = n - d
        <5>1. /\ ~(k < i) /\ ~(k + 1 < i) /\ k <= n - d /\ ~(k + 1 <= n - d) /\ k + 1 <= n /\ k + d = n
              /\ (k + 1) - (n - j) = i
          BY <1>3, <1>4, <4>1, <4>5, <4>9
        <5>2. Nth(M[h], h, k) = z /\ Nth(M[h], h, k + 1) = first
          BY <1>6, <4>4, <4>5, <5>1
        <5> QED BY <2>5, <3>2, <5>2
      <4>10. CASE n - d < k /\ k < n
        <5>1. /\ ~(k < i) /\ ~(k + 1 < i) /\ ~(k <= n - d) /\ ~(k + 1 <= n - d) /\ k + 1 <= n /\ k <= n
              /\ (k + 1) - (n - j) = (k - (n - j)) + 1 /\ k - (n - j) \in 0..n
              /\ k - (n - j) # i - 1 /\ k - (n - j) # n /\ k - (n - j) # j
          BY <1>3, <1>4, <1>18, <4>1, <4>5, <4>10
        <5>2. Nth(M[h], h, k) = at(k - (n - j)) /\ Nth(M[h], h, k + 1) = at((k - (n - j)) + 1)
          BY <4>4, <4>5, <5>1
        <5> QED BY <2>6, <3>2, <5>1, <5>2
      <4>11. CASE k = n
        <5>1. /\ ~(k < i) /\ ~(k + 1 < i) /\ ~(k <= n - d) /\ ~(k + 1 <= n - d) /\ ~(k + 1 <= n) /\ k <= n
              /\ k - (n - j) = j
          BY <1>3, <1>4, <4>1, <4>5, <4>11
        <5>2. Nth(M[h], h, k) = last /\ Nth(M[h], h, k + 1) = h
          BY <1>6, <4>4, <4>5, <5>1
        <5> QED BY <2>5, <3>2, <5>2
      <4>12. k < i - 1 \/ k = i - 1 \/ (i <= k /\ k < n - d) \/ k = n - d \/ (n - d < k /\ k < n) \/ k = n
        <5>1. i \in Int /\ d \in Int /\ n \in Int /\ k \in Int /\ k <= n /\ i <= n - d
          BY <1>4, <4>1, <4>5
        <5> QED BY <5>1
      <4> QED BY <4>6, <4>7, <4>8, <4>9, <4>10, <4>11, <4>12
    <3> QED BY <3>1, <3>2
  <2>8. \A g \in S : M[g] = << >>
    BY <1>0, <1>1 DEF Shows
  <2>9. Shows(q, M, S)
    BY <1>1, <1>5, <2>5, <2>7, <2>8 DEF Shows, Holds
  <2> QED BY <1>10, <1>11, <2>9
<1> QED BY <1>4, <1>17, <1>18

\* The circle of a list, by its places.
LEMMA CircleIs ==
  ASSUME NEW p, NEW L, NEW S, Shows(p, L, S), NEW h \in Heads \ S
  PROVE  /\ h \in ListHeads /\ Len(L[h]) \in Nat
         /\ \A x \in Int : Nth(L[h], h, x) \in ListHeads
         /\ \A x, y \in 0..Len(L[h]) : Nth(L[h], h, x) = Nth(L[h], h, y) => x = y
         /\ \A x, y \in 1..Len(L[h]) + 1 : Nth(L[h], h, x) = Nth(L[h], h, y) => x = y
         /\ Nth(L[h], h, Len(L[h]) + 1) = h /\ Nth(L[h], h, 0) = h
         /\ \A x \in 0..Len(L[h]) : /\ Linked(p, Nth(L[h], h, x), Nth(L[h], h, x + 1))
                                    /\ p.next[Nth(L[h], h, x)] = Nth(L[h], h, x + 1)
                                    /\ p.prev[Nth(L[h], h, x + 1)] = Nth(L[h], h, x)
<1>1. Apart(L) /\ h \in Heads
  BY DEF Shows
<1>2. /\ \A x \in Int : Nth(L[h], h, x) \in ListHeads
      /\ \A x \in 0..Len(L[h]), y \in 0..Len(L[h]) : Nth(L[h], h, x) = Nth(L[h], h, y) => h = h /\ x = y
      /\ \A x \in 1..Len(L[h]) + 1, y \in 1..Len(L[h]) + 1 : Nth(L[h], h, x) = Nth(L[h], h, y) => h = h /\ x = y
      /\ Len(L[h]) \in Nat
  BY <1>1, NthAre
<1>3. Nth(L[h], h, Len(L[h]) + 1) = h /\ Nth(L[h], h, 0) = h
  BY <1>2 DEF Nth
<1>4. \A x \in 0..Len(L[h]) : Linked(p, Nth(L[h], h, x), Nth(L[h], h, x + 1))
  BY DEF Shows, Holds
<1>5. h \in ListHeads
  BY <1>1 DEF ListHeads
<1> QED BY <1>2, <1>3, <1>4, <1>5 DEF Linked

\* The circles of two lists have no place in common.
LEMMA CirclesApart ==
  ASSUME NEW L, Apart(L), NEW g \in Heads, NEW h \in Heads, g # h
  PROVE  /\ \A x \in 0..Len(L[g]), y \in 0..Len(L[h]) : Nth(L[g], g, x) # Nth(L[h], h, y)
         /\ \A x \in 1..Len(L[g]) + 1, y \in 1..Len(L[h]) + 1 : Nth(L[g], g, x) # Nth(L[h], h, y)
BY NthAre

\* M is L, with the i-th of h and what follows it before the others.
RotationOf(L, M, h, i) ==
  /\ M \in [Heads -> Seq(Entries)] /\ \A g \in Heads \ {h} : M[g] = L[g]
  /\ Len(M[h]) = Len(L[h])
  /\ \A k \in 1..Len(L[h]) :
       M[h][k] = IF k <= Len(L[h]) - i + 1 THEN L[h][k + i - 1] ELSE L[h][k - (Len(L[h]) - i + 1)]

\* The head goes before the i-th.
LEMMA Rotating ==
  ASSUME NEW p, NEW L, NEW S, Shows(p, L, S), NEW h \in Heads \ S, NEW i \in 1..Len(L[h]),
         NEW M, RotationOf(L, M, h, i)
  PROVE  Shows(PutBefore(Unlink(p, h), h, L[h][i]), M, S)
<1>0. /\ M \in [Heads -> Seq(Entries)] /\ \A g \in Heads \ {h} : M[g] = L[g]
      /\ Len(M[h]) = Len(L[h])
      /\ \A k \in 1..Len(L[h]) :
           M[h][k] = IF k <= Len(L[h]) - i + 1 THEN L[h][k + i - 1] ELSE L[h][k - (Len(L[h]) - i + 1)]
  BY DEF RotationOf
<1>1. Apart(L) /\ p \in Pointers /\ S \subseteq Heads /\ h \in Heads
  BY DEF Shows
<1> DEFINE at(x) == Nth(L[h], h, x)
<1>2. PICK n \in Nat : n = Len(L[h])
  BY CircleIs
<1>3. PICK m \in Nat : m = n - i + 1
  <2>1. i \in 1..n
    BY <1>2
  <2>2. n - i + 1 \in Nat
    BY <2>1
  <2> QED BY <2>2
<1>4. i \in 1..n /\ i \in Int /\ m \in 1..n /\ n \in Int /\ m \in Int /\ m + i = n + 1
  BY <1>2, <1>3
<1>5. \A k \in 1..n : M[h][k] = IF k <= m THEN L[h][k + i - 1] ELSE L[h][k - m]
  BY <1>0, <1>2, <1>3
<1>6. /\ h \in ListHeads /\ \A x \in Int : at(x) \in ListHeads
      /\ \A x, y \in 0..n : at(x) = at(y) => x = y
      /\ \A x, y \in 1..n + 1 : at(x) = at(y) => x = y
      /\ at(n + 1) = h /\ at(0) = h
      /\ \A x \in 0..n : Linked(p, at(x), at(x + 1)) /\ p.next[at(x)] = at(x + 1) /\ p.prev[at(x + 1)] = at(x)
  BY <1>2, CircleIs
<1>7. Apart(M)
  <2> DEFINE f == [k \in 1..n |-> IF k <= m THEN k + i - 1 ELSE k - m]
  <2>1. ASSUME NEW k \in 1..n
        PROVE  f[k] \in 1..n /\ M[h][k] = L[h][f[k]]
    <3>1. f[k] = IF k <= m THEN k + i - 1 ELSE k - m
      OBVIOUS
    <3> HIDE DEF f
    <3>2. f[k] \in 1..n
      BY <1>4, <3>1
    <3> QED BY <1>5, <3>1, <3>2
  <2>2. \A k, l \in 1..n : f[k] = f[l] => k = l
    BY <1>4
  <2> HIDE DEF f
  <2>3. Permuted(L, M, h, f)
    BY <1>0, <1>2, <2>1, <2>2 DEF Permuted
  <2> QED BY <1>1, <2>3, Permuting
<1>8. \A x \in 1..n : at(x) = L[h][x]
  BY <1>2 DEF Nth
<1> HIDE DEF at
<1>9. PICK a, last, first, e : a = at(i - 1) /\ last = at(n) /\ first = at(1) /\ e = at(i)
  OBVIOUS
<1>10. /\ a \in ListHeads /\ last \in ListHeads /\ first \in ListHeads /\ e \in ListHeads
       /\ e = L[h][i] /\ p.next[h] = first /\ p.prev[h] = last /\ p.prev[e] = a
  <2>1. i - 1 \in 0..n /\ (i - 1) + 1 = i /\ 0 \in 0..n /\ n \in 0..n /\ 0 + 1 = 1
    BY <1>4
  <2>2. a \in ListHeads /\ last \in ListHeads /\ first \in ListHeads /\ e \in ListHeads
    BY <1>4, <1>6, <1>9
  <2>3. p.next[h] = first
    BY <1>6, <1>9, <2>1
  <2>4. p.prev[h] = last
    BY <1>6, <1>9, <2>1
  <2>5. p.prev[e] = a
    BY <1>6, <1>9, <2>1
  <2> QED BY <1>4, <1>8, <1>9, <2>2, <2>3, <2>4, <2>5
<1>11. PICK r : r = Join(p, last, first)
  OBVIOUS
<1>12. Joins(p, r, last, first)
  BY <1>1, <1>10, <1>11, JoinIs
<1>13. PICK q : q = Join(Join(r, h, e), r.prev[e], h)
  OBVIOUS
<1>14. q = PutBefore(Unlink(p, h), h, L[h][i])
  BY <1>10, <1>11, <1>13 DEF PutBefore, PutBetween, Unlink
<1>15. CASE i = 1
  <2>1. e = first /\ r.prev[e] = last
    BY <1>9, <1>10, <1>12, <1>15 DEF Joins
  <2>2. PICK s : s = Join(r, h, first)
    OBVIOUS
  <2>3. r \in Pointers
    BY <1>12 DEF Joins
  <2>4. Joins(r, s, h, first)
    BY <1>6, <1>10, <2>2, <2>3, JoinIs
  <2>5. s \in Pointers /\ q = Join(s, last, h)
    BY <1>13, <2>1, <2>2, <2>4 DEF Joins
  <2>6. Joins(s, q, last, h)
    BY <1>6, <1>10, <2>5, JoinIs
  <2>7. last # h /\ first # h
    <3>1. n \in 0..n /\ 0 \in 0..n /\ n # 0 /\ 1 \in 1..n + 1 /\ n + 1 \in 1..n + 1 /\ 1 # n + 1
      BY <1>4
    <3> QED BY <1>6, <1>9, <3>1
  <2>8. q \in Pointers /\ \A x \in ListHeads : q.next[x] = p.next[x] /\ q.prev[x] = p.prev[x]
    <3>1. p.prev[first] = h
      BY <1>6, <1>9, <1>10, <1>15, <2>1
    <3>2. p.next[last] = h
      <4>1. n \in 0..n
        BY <1>4
      <4> QED BY <1>6, <1>9, <4>1
    <3>3. p.next[h] = first /\ p.prev[h] = last /\ h \in ListHeads /\ q \in Pointers
      BY <1>6, <1>10, <2>6 DEF Joins
    <3>4. \A x \in ListHeads : q.next[x] = p.next[x]
      BY <1>12, <2>4, <2>6, <2>7, <3>1, <3>2, <3>3 DEF Joins
    <3>5. \A x \in ListHeads : q.prev[x] = p.prev[x]
      BY <1>12, <2>4, <2>6, <2>7, <3>1, <3>2, <3>3 DEF Joins
    <3> QED BY <3>3, <3>4, <3>5
  <2>9. \A g \in Heads : M[g] = L[g]
    <3>1. M[h] \in Seq(Entries) /\ L[h] \in Seq(Entries)
      BY <1>0, <1>1 DEF Apart
    <3>2. \A k \in 1..n : k <= m /\ k + i - 1 = k
      BY <1>4, <1>15
    <3>3. \A k \in 1..n : M[h][k] = L[h][k]
      BY <1>5, <3>2
    <3> QED BY <1>0, <1>2, <3>1, <3>3, SeqEqual
  <2>10. ASSUME NEW g \in Heads \ S, NEW x \in 0..Len(L[g])
         PROVE  Linked(q, Nth(L[g], g, x), Nth(L[g], g, x + 1))
    <3>1. Linked(p, Nth(L[g], g, x), Nth(L[g], g, x + 1))
      BY DEF Shows, Holds
    <3>2. Nth(L[g], g, x) \in ListHeads /\ Nth(L[g], g, x + 1) \in ListHeads
      <4>1. x \in Int /\ x + 1 \in Int
        BY <1>1, NthAre
      <4> QED BY <1>1, <4>1, NthAre
    <3> QED BY <2>8, <3>1, <3>2 DEF Linked
  <2>11. Shows(q, M, S)
    BY <1>1, <1>7, <2>8, <2>9, <2>10 DEF Shows, Holds
  <2> QED BY <1>14, <2>11
<1>16. CASE i > 1
  <2>1. /\ i - 1 \in 0..n /\ n \in 0..n /\ 0 \in 0..n /\ i - 1 # n /\ i - 1 # 0 /\ n # 0
        /\ 1 \in 1..n + 1 /\ i \in 1..n + 1 /\ n + 1 \in 1..n + 1 /\ 1 # i /\ 1 # n + 1 /\ i # n + 1
    BY <1>4, <1>16
  <2>2. a # last /\ a # h /\ last # h /\ first # e /\ first # h /\ e # h
    BY <1>6, <1>9, <2>1
  <2>3. r.prev[e] = a
    BY <1>10, <1>12, <2>2 DEF Joins
  <2>4. q = Join(Join(Join(p, last, first), h, e), a, h)
    BY <1>11, <1>13, <2>3
  <2>5. /\ q \in Pointers /\ Linked(q, last, first) /\ Linked(q, h, e) /\ Linked(q, a, h)
        /\ \A x, y \in ListHeads :
             x # last /\ x # h /\ x # a /\ y # first /\ y # e /\ y # h /\ Linked(p, x, y) => Linked(q, x, y)
    <3>1. /\ p \in Pointers /\ last \in ListHeads /\ h \in ListHeads /\ a \in ListHeads
          /\ first \in ListHeads /\ e \in ListHeads
      BY <1>1, <1>6, <1>10
    <3>2. last # h /\ last # a /\ h # a /\ first # e /\ first # h /\ e # h
      BY <2>2
    <3> QED BY <2>4, <3>1, <3>2, ThreeJoins
  <2>6. \A x \in 0..n : x # i - 1 /\ x # n /\ x # 0 => Linked(q, at(x), at(x + 1))
    <3> SUFFICES ASSUME NEW x \in 0..n, x # i - 1, x # n, x # 0
                 PROVE  Linked(q, at(x), at(x + 1))
      OBVIOUS
    <3>1. x + 1 \in 1..n + 1 /\ x + 1 # i /\ x + 1 # n + 1 /\ x + 1 # 1 /\ x \in Int /\ x + 1 \in Int
      BY <1>4
    <3>2. at(x) # a /\ at(x) # last /\ at(x) # h /\ at(x + 1) # e /\ at(x + 1) # first /\ at(x + 1) # h
      BY <1>6, <1>9, <2>1, <3>1
    <3> QED BY <1>6, <2>5, <3>1, <3>2
  <2>7. ASSUME NEW g \in Heads \ S, NEW k \in 0..Len(M[g])
        PROVE  Linked(q, Nth(M[g], g, k), Nth(M[g], g, k + 1))
    <3>1. CASE g # h
      <4>1. /\ M[g] = L[g] /\ Len(L[g]) \in Nat /\ k \in 0..Len(L[g]) /\ k + 1 \in 1..Len(L[g]) + 1
            /\ k \in Int /\ k + 1 \in Int
        BY <1>0, <1>1, <3>1, NthAre
      <4>2. Linked(p, Nth(L[g], g, k), Nth(L[g], g, k + 1))
        BY <4>1 DEF Shows, Holds
      <4>3. \A x \in 0..n : Nth(L[g], g, k) # at(x)
        BY <1>1, <1>2, <3>1, <4>1, CirclesApart DEF at
      <4>4. \A x \in 1..n + 1 : Nth(L[g], g, k + 1) # at(x)
        BY <1>1, <1>2, <3>1, <4>1, CirclesApart DEF at
      <4>5. Nth(L[g], g, k) \in ListHeads /\ Nth(L[g], g, k + 1) \in ListHeads
        BY <1>1, <4>1, NthAre
      <4> QED BY <1>6, <1>9, <2>1, <2>5, <4>1, <4>2, <4>3, <4>4, <4>5
    <3>2. CASE g = h
      <4>1. k \in 0..n /\ k \in Int
        BY <1>0, <1>2, <3>2
      <4>2. \A x \in 1..n : Nth(M[h], h, x) = M[h][x]
        BY <1>0, <1>2 DEF Nth
      <4>3. Nth(M[h], h, 0) = h /\ Nth(M[h], h, n + 1) = h
        BY <1>0, <1>2 DEF Nth
      <4>4. \A x \in 1..n : Nth(M[h], h, x) = IF x <= m THEN at(x + i - 1) ELSE at(x - m)
        <5> SUFFICES ASSUME NEW x \in 1..n
                     PROVE  Nth(M[h], h, x) = IF x <= m THEN at(x + i - 1) ELSE at(x - m)
          OBVIOUS
        <5>1. CASE x <= m
          <6>1. x + i - 1 \in 1..n
            BY <1>4, <5>1
          <6> QED BY <1>5, <1>8, <4>2, <5>1, <6>1
        <5>2. CASE ~(x <= m)
          <6>1. x - m \in 1..n
            BY <1>4, <5>2
          <6> QED BY <1>5, <1>8, <4>2, <5>2, <6>1
        <5> QED BY <5>1, <5>2
      <4>5. CASE k = 0
        <5>1. k + 1 \in 1..n /\ k + 1 <= m /\ (k + 1) + i - 1 = i
          BY <1>4, <4>5
        <5>2. Nth(M[h], h, k + 1) = e
          BY <1>9, <4>4, <5>1
        <5> QED BY <2>5, <3>2, <4>3, <4>5, <5>2
      <4>6. CASE 0 < k /\ k < m
        <5>1. /\ k \in 1..n /\ k + 1 \in 1..n /\ k + 1 <= m /\ k <= m /\ (k + 1) + i - 1 = (k + i - 1) + 1
              /\ k + i - 1 \in 0..n /\ k + i - 1 # i - 1 /\ k + i - 1 # n /\ k + i - 1 # 0
          <6>1. i \in Int /\ n \in Int /\ m \in Int /\ k \in Int /\ m + i = n + 1 /\ 0 < k /\ k < m /\ 1 <= i
            BY <1>4, <4>1, <4>6
          <6>2. k \in 1..n /\ k + 1 \in 1..n /\ k + 1 <= m /\ k <= m
            BY <6>1
          <6>3. (k + 1) + i - 1 = (k + i - 1) + 1 /\ k + i - 1 # i - 1 /\ k + i - 1 # n /\ k + i - 1 # 0
            BY <6>1
          <6>4. k + i - 1 \in 0..n
            BY <6>1
          <6> QED BY <6>2, <6>3, <6>4
        <5>2. Nth(M[h], h, k) = at(k + i - 1) /\ Nth(M[h], h, k + 1) = at((k + i - 1) + 1)
          BY <4>4, <5>1
        <5> QED BY <2>6, <3>2, <5>1, <5>2
      <4>7. CASE k = m
        <5>1. k \in 1..n /\ k + 1 \in 1..n /\ ~(k + 1 <= m) /\ k <= m /\ (k + 1) - m = 1 /\ k + i - 1 = n
          BY <1>4, <1>16, <4>7
        <5>2. Nth(M[h], h, k) = last /\ Nth(M[h], h, k + 1) = first
          BY <1>9, <4>4, <5>1
        <5> QED BY <2>5, <3>2, <5>2
      <4>8. CASE m < k /\ k < n
        <5>1. /\ k \in 1..n /\ k + 1 \in 1..n /\ ~(k + 1 <= m) /\ ~(k <= m) /\ (k + 1) - m = (k - m) + 1
              /\ k - m \in 0..n /\ k - m # i - 1 /\ k - m # n /\ k - m # 0
          <6>1. /\ i \in Int /\ n \in Int /\ m \in Int /\ k \in Int /\ m + i = n + 1 /\ m < k /\ k < n
                /\ 1 <= i /\ 1 <= m
            BY <1>4, <4>1, <4>8
          <6>2. k \in 1..n /\ k + 1 \in 1..n /\ ~(k + 1 <= m) /\ ~(k <= m)
            BY <6>1
          <6>3. (k + 1) - m = (k - m) + 1 /\ k - m # i - 1 /\ k - m # n /\ k - m # 0
            BY <6>1
          <6>4. k - m \in 0..n
            BY <6>1
          <6> QED BY <6>2, <6>3, <6>4
        <5>2. Nth(M[h], h, k) = at(k - m) /\ Nth(M[h], h, k + 1) = at((k - m) + 1)
          BY <4>4, <5>1
        <5> QED BY <2>6, <3>2, <5>1, <5>2
      <4>9. CASE k = n
        <5>1. k \in 1..n /\ ~(k <= m) /\ k - m = i - 1
          BY <1>4, <1>16, <4>9
        <5>2. Nth(M[h], h, k) = a
          BY <1>9, <4>4, <5>1
        <5> QED BY <2>5, <3>2, <4>3, <4>9, <5>2
      <4>10. k = 0 \/ (0 < k /\ k < m) \/ k = m \/ (m < k /\ k < n) \/ k = n
        BY <1>4, <4>1
      <4> QED BY <4>5, <4>6, <4>7, <4>8, <4>9, <4>10
    <3> QED BY <3>1, <3>2
  <2>8. \A g \in S : M[g] = << >>
    BY <1>0, <1>1 DEF Shows
  <2>9. Shows(q, M, S)
    BY <1>1, <1>7, <2>5, <2>7, <2>8 DEF Shows, Holds
  <2> QED BY <1>14, <2>9
<1> QED BY <1>4, <1>15, <1>16

\* INIT_LIST_HEAD of the head of an empty list.
LEMMA Settling ==
  ASSUME NEW p, NEW L, NEW S, Shows(p, L, S), NEW l \in Heads, L[l] = << >>
  PROVE  Shows(Initialized(p, l), L, S \ {l})
<1>1. Apart(L) /\ p \in Pointers /\ S \subseteq Heads /\ l \in ListHeads
  BY DEF Shows, ListHeads
<1>2. PICK q : q = Initialized(p, l)
  OBVIOUS
<1>3. Joins(p, q, l, l)
  BY <1>1, <1>2, JoinIs DEF Initialized
<1>4. ASSUME NEW h \in Heads \ (S \ {l}), NEW i \in 0..Len(L[h])
      PROVE  Linked(q, Nth(L[h], h, i), Nth(L[h], h, i + 1))
  <2>1. CASE h = l
    <3>1. Nth(L[h], h, i) = l /\ Nth(L[h], h, i + 1) = l
      BY <2>1 DEF Nth
    <3> QED BY <1>1, <1>3, <3>1 DEF Joins, Linked
  <2>2. CASE h # l
    <3>1. /\ Len(L[h]) \in Nat /\ i + 1 \in 1..Len(L[h]) + 1 /\ i \in Int /\ i + 1 \in Int
      BY <1>1, NthAre
    <3>2. Len(L[l]) = 0 /\ Nth(L[l], l, 0) = l /\ Nth(L[l], l, 1) = l
      BY DEF Nth
    <3>3. Nth(L[h], h, i) # l
      <4>1. 0 \in 0..Len(L[l])
        BY <3>2
      <4> QED BY <1>1, <2>2, <3>2, <4>1, CirclesApart
    <3>4. Nth(L[h], h, i + 1) # l
      <4>1. 1 \in 1..Len(L[l]) + 1
        BY <3>2
      <4> QED BY <1>1, <2>2, <3>1, <3>2, <4>1, CirclesApart
    <3>5. Linked(p, Nth(L[h], h, i), Nth(L[h], h, i + 1))
      BY <2>2 DEF Shows, Holds
    <3>6. Nth(L[h], h, i) \in ListHeads /\ Nth(L[h], h, i + 1) \in ListHeads
      BY <1>1, <3>1, NthAre
    <3> QED BY <1>3, <3>3, <3>4, <3>5, <3>6 DEF Joins, Linked
  <2> QED BY <2>1, <2>2
<1>5. q \in Pointers
  BY <1>3 DEF Joins
<1>6. Shows(q, L, S \ {l})
  BY <1>1, <1>4, <1>5 DEF Shows, Holds
<1> QED BY <1>2, <1>6

\* M has what l holds in h, behind the k-th.
SpliceOf(L, M, h, l, n, m, k) ==
  /\ n = Len(L[h]) /\ m = Len(L[l])
  /\ M \in [Heads -> Seq(Entries)] /\ \A g \in Heads \ {h, l} : M[g] = L[g]
  /\ M[l] = << >> /\ Len(M[h]) = n + m
  /\ \A j \in 1..n + m :
       M[h][j] = IF j <= k THEN L[h][j] ELSE IF j <= k + m THEN L[l][j - k] ELSE L[h][j - m]

PlacesOf(L, M, h, l, n, m, k) ==
  \A j \in 0..n + m + 1 :
    Nth(M[h], h, j) = IF j <= k THEN Nth(L[h], h, j)
               ELSE IF j <= k + m THEN Nth(L[l], l, j - k) ELSE Nth(L[h], h, j - m)

LEMMA PlacesOfSplice ==
  ASSUME NEW L, NEW h, NEW l, NEW M, NEW n \in Nat, NEW m \in Nat, NEW k \in 0..n,
         SpliceOf(L, M, h, l, n, m, k)
  PROVE  PlacesOf(L, M, h, l, n, m, k)
<1> SUFFICES ASSUME NEW j \in 0..n + m + 1
             PROVE  Nth(M[h], h, j) = IF j <= k THEN Nth(L[h], h, j)
                                      ELSE IF j <= k + m THEN Nth(L[l], l, j - k) ELSE Nth(L[h], h, j - m)
  BY DEF PlacesOf
<1>0. k \in Int /\ n \in Int /\ m \in Int /\ j \in Int /\ 0 <= k /\ k <= n /\ 0 <= j /\ 0 <= m
  OBVIOUS
<1>8. /\ n = Len(L[h]) /\ m = Len(L[l]) /\ Len(M[h]) = n + m
      /\ \A i \in 1..n + m :
           M[h][i] = IF i <= k THEN L[h][i] ELSE IF i <= k + m THEN L[l][i - k] ELSE L[h][i - m]
  BY DEF SpliceOf
<1>1. CASE j = 0
  <2>1. j <= k /\ j \notin 1..n + m /\ j \notin 1..n
    BY <1>0, <1>1
  <2> QED BY <1>8, <2>1 DEF Nth
<1>2. CASE j = n + m + 1
  <2>1. ~(j <= k) /\ ~(j <= k + m) /\ j \notin 1..n + m /\ j - m \notin 1..n
    BY <1>0, <1>2
  <2> QED BY <1>8, <2>1 DEF Nth
<1>3. CASE j \in 1..n + m
  <2>1. Nth(M[h], h, j) = M[h][j]
    BY <1>8, <1>3 DEF Nth
  <2>2. CASE j <= k
    <3>1. j \in 1..n
      BY <1>0, <1>3, <2>2
    <3> QED BY <1>8, <1>3, <2>1, <2>2, <3>1 DEF Nth
  <2>3. CASE ~(j <= k) /\ j <= k + m
    <3>1. j - k \in 1..m
      BY <1>0, <1>3, <2>3
    <3> QED BY <1>8, <1>3, <2>1, <2>3, <3>1 DEF Nth
  <2>4. CASE ~(j <= k) /\ ~(j <= k + m)
    <3>1. j - m \in 1..n
      BY <1>0, <1>3, <2>4
    <3> QED BY <1>8, <1>3, <2>1, <2>4, <3>1 DEF Nth
  <2> QED BY <2>2, <2>3, <2>4
<1> QED BY <1>0, <1>1, <1>2, <1>3

LEMMA SpliceApart ==
  ASSUME NEW L, Apart(L), NEW h \in Heads, NEW l \in Heads, l # h, NEW M,
         NEW n \in Nat, NEW m \in Nat, NEW k \in 0..n, SpliceOf(L, M, h, l, n, m, k)
  PROVE  Apart(M)
<1> DEFINE Origin(g, j, f, i) ==
             \/ g # h /\ f = g /\ i = j /\ g # l
             \/ g = h /\ f = h /\ j <= k /\ i = j
             \/ g = h /\ f = l /\ k < j /\ j <= k + m /\ i = j - k
             \/ g = h /\ f = h /\ k + m < j /\ i = j - m
<1>0. k \in Int /\ n \in Int /\ m \in Int /\ 0 <= k /\ k <= n /\ 0 <= m
  OBVIOUS
<1>4. /\ n = Len(L[h]) /\ m = Len(L[l]) /\ \A g \in Heads \ {h, l} : M[g] = L[g]
      /\ M[l] = << >> /\ Len(M[h]) = n + m
      /\ \A j \in 1..n + m :
           M[h][j] = IF j <= k THEN L[h][j] ELSE IF j <= k + m THEN L[l][j - k] ELSE L[h][j - m]
  BY DEF SpliceOf
<1>5. M \in [Heads -> Seq(Entries)] /\ \A g \in Heads : Len(M[g]) \in Nat /\ Len(L[g]) \in Nat
  BY LenProperties DEF Apart, SpliceOf
<1>1. ASSUME NEW g \in Heads, NEW j \in 1..Len(M[g])
      PROVE  \E f \in Heads : \E i \in 1..Len(L[f]) : M[g][j] = L[f][i] /\ Origin(g, j, f, i)
  <2>1. CASE g \notin {h, l}
    BY <1>4, <2>1
  <2>2. CASE g = l
    BY <1>4, <2>2
  <2>3. CASE g = h
    <3>1. j \in 1..n + m
      BY <1>4, <2>3
    <3>2. CASE j <= k
      <4>1. j \in 1..n
        BY <1>0, <3>1, <3>2
      <4> QED BY <1>4, <2>3, <3>1, <3>2, <4>1
    <3>3. CASE ~(j <= k) /\ j <= k + m
      <4>1. j - k \in 1..m /\ k < j
        BY <1>0, <3>1, <3>3
      <4> QED BY <1>4, <2>3, <3>1, <3>3, <4>1
    <3>4. CASE ~(j <= k) /\ ~(j <= k + m)
      <4>1. j - m \in 1..n /\ k + m < j
        BY <1>0, <3>1, <3>4
      <4> QED BY <1>4, <2>3, <3>1, <3>4, <4>1
    <3> QED BY <3>2, <3>3, <3>4
  <2> QED BY <2>1, <2>2, <2>3
<1>2. ASSUME NEW g1 \in Heads, NEW g2 \in Heads, NEW j1 \in Int, NEW j2 \in Int, NEW f, NEW i \in Int,
             Origin(g1, j1, f, i), Origin(g2, j2, f, i)
      PROVE  g1 = g2 /\ j1 = j2
  BY <1>0, <1>2
<1>3. ASSUME NEW g1 \in Heads, NEW g2 \in Heads, NEW j1 \in 1..Len(M[g1]), NEW j2 \in 1..Len(M[g2]),
             M[g1][j1] = M[g2][j2]
      PROVE  g1 = g2 /\ j1 = j2
  <2>1. PICK f1 \in Heads : \E i \in 1..Len(L[f1]) : M[g1][j1] = L[f1][i] /\ Origin(g1, j1, f1, i)
    BY <1>1
  <2>2. PICK i1 \in 1..Len(L[f1]) : M[g1][j1] = L[f1][i1] /\ Origin(g1, j1, f1, i1)
    BY <2>1
  <2>3. PICK f2 \in Heads : \E i \in 1..Len(L[f2]) : M[g2][j2] = L[f2][i] /\ Origin(g2, j2, f2, i)
    BY <1>1
  <2>4. PICK i2 \in 1..Len(L[f2]) : M[g2][j2] = L[f2][i2] /\ Origin(g2, j2, f2, i2)
    BY <2>3
  <2> HIDE DEF Origin
  <2>5. L[f1][i1] = L[f2][i2]
    BY <1>3, <2>2, <2>4
  <2>6. f1 = f2 /\ i1 = i2
    BY <2>2, <2>4, <2>5, ApartIs
  <2>7. j1 \in Int /\ j2 \in Int /\ i1 \in Int
    BY <1>5, <2>2
  <2> QED BY <1>2, <2>2, <2>4, <2>6, <2>7
<1> QED BY <1>3, <1>5 DEF Apart

\* What l has comes into h, behind its k-th.
LEMMA Splicing ==
  ASSUME NEW p, NEW L, NEW S, Shows(p, L, S), NEW h \in Heads \ S, NEW l \in Heads \ S, l # h,
         NEW M, NEW n, NEW m, m # 0, NEW k \in 0..n, SpliceOf(L, M, h, l, n, m, k)
  PROVE  Shows(Spliced(p, l, Nth(L[h], h, k), Nth(L[h], h, k + 1)), M, S \cup {l})
<1>1. Apart(L) /\ p \in Pointers /\ S \subseteq Heads /\ h \in Heads /\ l \in Heads
  BY DEF Shows
<1>2. n \in Nat /\ m \in Nat \ {0}
  BY CircleIs DEF SpliceOf
<1>3. k \in Int /\ n \in Int /\ m \in Int /\ 0 <= k /\ k <= n /\ 0 < m
  BY <1>2
<1>4. Apart(M)
  <2>1. Apart(L) /\ h \in Heads /\ l \in Heads /\ n \in Nat /\ m \in Nat
    BY <1>1, <1>2
  <2> QED BY <2>1, SpliceApart
<1> DEFINE at(x) == Nth(L[h], h, x)
           lt(x) == Nth(L[l], l, x)
           mt(x) == Nth(M[h], h, x)
<1>5. \A j \in 0..n + m + 1 : mt(j) = IF j <= k THEN at(j) ELSE IF j <= k + m THEN lt(j - k) ELSE at(j - m)
  <2>1. Apart(L) /\ h \in Heads /\ l \in Heads /\ n \in Nat /\ m \in Nat
    BY <1>1, <1>2
  <2>2. PlacesOf(L, M, h, l, n, m, k)
    BY <2>1, PlacesOfSplice
  <2> QED BY <2>2 DEF PlacesOf
<1>21. n = Len(L[h]) /\ m = Len(L[l]) /\ M[l] = << >> /\ \A g \in Heads \ {h, l} : M[g] = L[g]
  BY DEF SpliceOf
<1>22. M \in [Heads -> Seq(Entries)] /\ Len(M[h]) = n + m
  BY DEF SpliceOf
<1>6. /\ h \in ListHeads /\ \A x \in Int : at(x) \in ListHeads
      /\ \A x, y \in 0..n : at(x) = at(y) => x = y
      /\ \A x, y \in 1..n + 1 : at(x) = at(y) => x = y
      /\ \A x \in 0..n : Linked(p, at(x), at(x + 1))
  <2>1. /\ h \in ListHeads /\ \A x \in Int : Nth(L[h], h, x) \in ListHeads
        /\ \A x, y \in 0..Len(L[h]) : Nth(L[h], h, x) = Nth(L[h], h, y) => x = y
        /\ \A x, y \in 1..Len(L[h]) + 1 : Nth(L[h], h, x) = Nth(L[h], h, y) => x = y
        /\ \A x \in 0..Len(L[h]) : Linked(p, Nth(L[h], h, x), Nth(L[h], h, x + 1))
    BY CircleIs
  <2> QED BY <1>21, <2>1
<1>7. /\ l \in ListHeads /\ \A x \in Int : lt(x) \in ListHeads
      /\ \A x, y \in 0..m : lt(x) = lt(y) => x = y
      /\ \A x, y \in 1..m + 1 : lt(x) = lt(y) => x = y
      /\ lt(m + 1) = l /\ lt(0) = l
      /\ \A x \in 0..m : Linked(p, lt(x), lt(x + 1)) /\ p.next[lt(x)] = lt(x + 1) /\ p.prev[lt(x + 1)] = lt(x)
  BY <1>21, CircleIs
<1>8. /\ \A x \in 0..n, y \in 0..m : at(x) # lt(y)
      /\ \A x \in 1..n + 1, y \in 1..m + 1 : at(x) # lt(y)
  BY <1>1, <1>21, CirclesApart
<1> HIDE DEF at, lt
<1>9. PICK a, b, first, last : a = at(k) /\ b = at(k + 1) /\ first = lt(1) /\ last = lt(m)
  OBVIOUS
<1>10. /\ k + 1 \in 1..n + 1 /\ k \in 0..n /\ 1 \in 1..m + 1 /\ m \in 0..m /\ 0 \in 0..m /\ 0 + 1 = 1
       /\ k + 1 \in Int /\ k \in Int /\ 1 \in Int /\ m \in Int
  BY <1>3
<1>11. a \in ListHeads /\ b \in ListHeads /\ first \in ListHeads /\ last \in ListHeads
  BY <1>6, <1>7, <1>9, <1>10
<1>12. a # last /\ b # first /\ p.next[l] = first /\ p.prev[l] = last
  <2>1. a # last /\ b # first
    BY <1>8, <1>9, <1>10
  <2>2. p.next[l] = first
    BY <1>7, <1>9, <1>10
  <2>3. p.prev[l] = last
    BY <1>7, <1>9, <1>10
  <2> QED BY <2>1, <2>2, <2>3
<1>13. PICK q : q = Spliced(p, l, a, b)
  OBVIOUS
<1>14. q = Join(Join(p, a, first), last, b)
  BY <1>12, <1>13 DEF Spliced
<1>15. /\ q \in Pointers /\ Linked(q, a, first) /\ Linked(q, last, b)
       /\ \A x, y \in ListHeads :
            x # a /\ x # last /\ y # first /\ y # b /\ Linked(p, x, y) => Linked(q, x, y)
  <2>1. p \in Pointers /\ a # last /\ first # b
    BY <1>1, <1>12
  <2> QED BY <1>11, <1>14, <2>1, TwoJoins
<1>16. \A x \in 0..n : x # k => Linked(q, at(x), at(x + 1))
  <2> SUFFICES ASSUME NEW x \in 0..n, x # k
               PROVE  Linked(q, at(x), at(x + 1))
    OBVIOUS
  <2>1. x + 1 \in 1..n + 1 /\ x + 1 # k + 1 /\ x \in Int /\ x + 1 \in Int
    BY <1>3
  <2>2. at(x) # a /\ at(x) # last /\ at(x + 1) # first /\ at(x + 1) # b
    BY <1>6, <1>8, <1>9, <1>10, <2>1
  <2>3. at(x) \in ListHeads /\ at(x + 1) \in ListHeads /\ Linked(p, at(x), at(x + 1))
    BY <1>6, <2>1
  <2> QED BY <1>15, <2>2, <2>3
<1>17. \A x \in 1..m - 1 : Linked(q, lt(x), lt(x + 1))
  <2> SUFFICES ASSUME NEW x \in 1..m - 1
               PROVE  Linked(q, lt(x), lt(x + 1))
    OBVIOUS
  <2>1. x + 1 \in 1..m + 1 /\ x + 1 # 1 /\ x \in Int /\ x + 1 \in Int /\ x \in 0..m /\ x # m
    BY <1>3
  <2>2. lt(x) # a /\ lt(x) # last /\ lt(x + 1) # first /\ lt(x + 1) # b
    BY <1>7, <1>8, <1>9, <1>10, <2>1
  <2>3. lt(x) \in ListHeads /\ lt(x + 1) \in ListHeads /\ Linked(p, lt(x), lt(x + 1))
    BY <1>7, <2>1
  <2> QED BY <1>15, <2>2, <2>3
<1>18. ASSUME NEW j \in 0..n + m
       PROVE  Linked(q, mt(j), mt(j + 1))
  <2>0. j \in Int /\ j \in 0..n + m + 1 /\ j + 1 \in 0..n + m + 1 /\ 0 <= j /\ j <= n + m
    BY <1>3
  <2> HIDE DEF mt
  <2>1. CASE j < k
    <3>1. j <= k /\ j + 1 <= k /\ j \in 0..n /\ j # k
      BY <1>3, <2>0, <2>1
    <3>2. mt(j) = at(j) /\ mt(j + 1) = at(j + 1)
      BY <1>5, <2>0, <3>1
    <3> QED BY <1>16, <3>1, <3>2
  <2>2. CASE j = k
    <3>1. j <= k /\ ~(j + 1 <= k) /\ j + 1 <= k + m /\ (j + 1) - k = 1
      BY <1>3, <2>0, <2>2
    <3>2. mt(j) = a /\ mt(j + 1) = first
      BY <1>5, <1>9, <2>0, <2>2, <3>1
    <3> QED BY <1>15, <3>2
  <2>3. CASE k < j /\ j < k + m
    <3>1. /\ ~(j <= k) /\ ~(j + 1 <= k) /\ j <= k + m /\ j + 1 <= k + m /\ (j + 1) - k = (j - k) + 1
          /\ j - k \in 1..m - 1
      BY <1>3, <2>0, <2>3
    <3>2. mt(j) = lt(j - k) /\ mt(j + 1) = lt((j - k) + 1)
      BY <1>5, <2>0, <3>1
    <3> QED BY <1>17, <3>1, <3>2
  <2>4. CASE j = k + m
    <3>1. ~(j <= k) /\ ~(j + 1 <= k) /\ j <= k + m /\ ~(j + 1 <= k + m) /\ j - k = m /\ (j + 1) - m = k + 1
      BY <1>3, <2>0, <2>4
    <3>2. mt(j) = last /\ mt(j + 1) = b
      BY <1>5, <1>9, <2>0, <3>1
    <3> QED BY <1>15, <3>2
  <2>5. CASE k + m < j
    <3>1. /\ ~(j <= k) /\ ~(j + 1 <= k) /\ ~(j <= k + m) /\ ~(j + 1 <= k + m) /\ (j + 1) - m = (j - m) + 1
          /\ j - m \in 0..n /\ j - m # k
      BY <1>3, <2>0, <2>5
    <3>2. mt(j) = at(j - m) /\ mt(j + 1) = at((j - m) + 1)
      BY <1>5, <2>0, <3>1
    <3> QED BY <1>16, <3>1, <3>2
  <2> QED BY <1>3, <2>0, <2>1, <2>2, <2>3, <2>4, <2>5
<1>19. ASSUME NEW g \in Heads \ (S \cup {l}), NEW j \in 0..Len(M[g])
       PROVE  Linked(q, Nth(M[g], g, j), Nth(M[g], g, j + 1))
  <2>1. CASE g = h
    BY <1>18, <1>22, <2>1
  <2>2. CASE g # h
    <3>1. /\ M[g] = L[g] /\ Len(L[g]) \in Nat /\ j \in 0..Len(L[g]) /\ j + 1 \in 1..Len(L[g]) + 1
          /\ j \in Int /\ j + 1 \in Int
      BY <1>1, <1>21, <2>2, NthAre
    <3>2. Linked(p, Nth(L[g], g, j), Nth(L[g], g, j + 1))
      BY <3>1 DEF Shows, Holds
    <3>3. Nth(L[g], g, j) # a /\ Nth(L[g], g, j + 1) # b
      BY <1>1, <1>9, <1>10, <2>2, <1>21, <3>1, CirclesApart DEF at
    <3>4. Nth(L[g], g, j) # last
      BY <1>1, <1>9, <1>10, <1>21, <3>1, CirclesApart DEF lt
    <3>5. Nth(L[g], g, j + 1) # first
      BY <1>1, <1>9, <1>10, <1>21, <3>1, CirclesApart DEF lt
    <3>6. Nth(L[g], g, j) \in ListHeads /\ Nth(L[g], g, j + 1) \in ListHeads
      BY <1>1, <3>1, NthAre
    <3> QED BY <1>15, <3>1, <3>2, <3>3, <3>4, <3>5, <3>6
  <2> QED BY <2>1, <2>2
<1>20. \A g \in S \cup {l} : M[g] = << >>
  BY <1>1, <1>21 DEF Shows
<1>23. Shows(q, M, S \cup {l})
  BY <1>1, <1>4, <1>15, <1>19, <1>20, <1>22 DEF Shows, Holds
<1> QED BY <1>9, <1>13, <1>23 DEF at

\* M has in l the first i of what h had.
CutOf(L, M, h, l, n, i) ==
  /\ n = Len(L[h]) /\ L[l] = << >>
  /\ M \in [Heads -> Seq(Entries)] /\ \A g \in Heads \ {h, l} : M[g] = L[g]
  /\ Len(M[l]) = i /\ \A j \in 1..i : M[l][j] = L[h][j]
  /\ Len(M[h]) = n - i /\ \A j \in 1..n - i : M[h][j] = L[h][j + i]

LEMMA CutApart ==
  ASSUME NEW L, Apart(L), NEW h \in Heads, NEW l \in Heads, l # h, NEW M,
         NEW n \in Nat, NEW i \in 1..n, CutOf(L, M, h, l, n, i)
  PROVE  Apart(M)
<1> DEFINE Origin(g, j, f, k) == \/ g \notin {h, l} /\ f = g /\ k = j
                                 \/ g = l /\ f = h /\ k = j /\ j <= i
                                 \/ g = h /\ f = h /\ k = j + i /\ j >= 1
<1>0. i \in Int /\ n \in Int /\ 1 <= i /\ i <= n
  OBVIOUS
<1>1. /\ n = Len(L[h]) /\ \A g \in Heads \ {h, l} : M[g] = L[g]
      /\ Len(M[l]) = i /\ \A j \in 1..i : M[l][j] = L[h][j]
      /\ Len(M[h]) = n - i /\ \A j \in 1..n - i : M[h][j] = L[h][j + i]
  BY DEF CutOf
<1>2. M \in [Heads -> Seq(Entries)] /\ \A g \in Heads : Len(M[g]) \in Nat /\ Len(L[g]) \in Nat
  BY LenProperties DEF Apart, CutOf
<1>3. ASSUME NEW g \in Heads, NEW j \in 1..Len(M[g])
      PROVE  \E f \in Heads : \E k \in 1..Len(L[f]) : M[g][j] = L[f][k] /\ Origin(g, j, f, k)
  <2>1. CASE g \notin {h, l}
    BY <1>1, <2>1
  <2>2. CASE g = l
    <3>1. j \in 1..i
      BY <1>1, <2>2
    <3>2. j \in 1..n /\ j <= i
      BY <1>0, <3>1
    <3> QED BY <1>1, <2>2, <3>1, <3>2
  <2>3. CASE g = h
    <3>1. j \in 1..n - i
      BY <1>1, <2>3
    <3>2. j + i \in 1..n /\ j >= 1
      BY <1>0, <3>1
    <3> QED BY <1>1, <2>3, <3>1, <3>2
  <2> QED BY <2>1, <2>2, <2>3
<1>4. ASSUME NEW g1 \in Heads, NEW g2 \in Heads, NEW j1 \in Int, NEW j2 \in Int, NEW f, NEW k \in Int,
             Origin(g1, j1, f, k), Origin(g2, j2, f, k)
      PROVE  g1 = g2 /\ j1 = j2
  BY <1>0, <1>4
<1>5. ASSUME NEW g1 \in Heads, NEW g2 \in Heads, NEW j1 \in 1..Len(M[g1]), NEW j2 \in 1..Len(M[g2]),
             M[g1][j1] = M[g2][j2]
      PROVE  g1 = g2 /\ j1 = j2
  <2>1. PICK f1 \in Heads : \E k \in 1..Len(L[f1]) : M[g1][j1] = L[f1][k] /\ Origin(g1, j1, f1, k)
    BY <1>3
  <2>2. PICK i1 \in 1..Len(L[f1]) : M[g1][j1] = L[f1][i1] /\ Origin(g1, j1, f1, i1)
    BY <2>1
  <2>3. PICK f2 \in Heads : \E k \in 1..Len(L[f2]) : M[g2][j2] = L[f2][k] /\ Origin(g2, j2, f2, k)
    BY <1>3
  <2>4. PICK i2 \in 1..Len(L[f2]) : M[g2][j2] = L[f2][i2] /\ Origin(g2, j2, f2, i2)
    BY <2>3
  <2> HIDE DEF Origin
  <2>5. L[f1][i1] = L[f2][i2]
    BY <1>5, <2>2, <2>4
  <2>6. f1 = f2 /\ i1 = i2
    BY <2>2, <2>4, <2>5, ApartIs
  <2>7. j1 \in Int /\ j2 \in Int /\ i1 \in Int
    BY <1>2, <2>2
  <2> QED BY <1>4, <2>2, <2>4, <2>6, <2>7
<1> QED BY <1>2, <1>5 DEF Apart

\* The first i of h get head l, the others stay behind h.
LEMMA Cutting ==
  ASSUME NEW p, NEW L, NEW S, Shows(p, L, S), NEW h \in Heads \ S, NEW l \in Heads \ S, l # h,
         NEW M, NEW n, NEW i \in 1..n, CutOf(L, M, h, l, n, i)
  PROVE  Shows(Join(Join(Join(p, l, Nth(L[h], h, 1)), Nth(L[h], h, i), l), h, Nth(L[h], h, i + 1)), M, S)
<1>1. Apart(L) /\ p \in Pointers /\ S \subseteq Heads /\ h \in Heads /\ l \in Heads
  BY DEF Shows
<1>2. n = Len(L[h]) /\ L[l] = << >> /\ \A g \in Heads \ {h, l} : M[g] = L[g]
  BY DEF CutOf
<1>3. /\ M \in [Heads -> Seq(Entries)] /\ Len(M[l]) = i /\ Len(M[h]) = n - i
      /\ \A j \in 1..i : M[l][j] = L[h][j]
      /\ \A j \in 1..n - i : M[h][j] = L[h][j + i]
  BY DEF CutOf
<1>4. n \in Nat
  BY <1>1, <1>2, NthAre
<1>5. n \in Int /\ i \in Int /\ 1 <= i /\ i <= n
  BY <1>4
<1>6. Apart(M)
  <2>1. Apart(L) /\ h \in Heads /\ l \in Heads /\ n \in Nat
    BY <1>1, <1>4
  <2> QED BY <2>1, CutApart
<1> DEFINE at(x) == Nth(L[h], h, x)
<1>7. /\ h \in ListHeads /\ \A x \in Int : at(x) \in ListHeads
      /\ \A x, y \in 0..n : at(x) = at(y) => x = y
      /\ \A x, y \in 1..n + 1 : at(x) = at(y) => x = y
      /\ at(n + 1) = h /\ at(0) = h
      /\ \A x \in 0..n : Linked(p, at(x), at(x + 1))
  <2>1. /\ h \in ListHeads /\ \A x \in Int : Nth(L[h], h, x) \in ListHeads
        /\ \A x, y \in 0..Len(L[h]) : Nth(L[h], h, x) = Nth(L[h], h, y) => x = y
        /\ \A x, y \in 1..Len(L[h]) + 1 : Nth(L[h], h, x) = Nth(L[h], h, y) => x = y
        /\ Nth(L[h], h, Len(L[h]) + 1) = h /\ Nth(L[h], h, 0) = h
        /\ \A x \in 0..Len(L[h]) : Linked(p, Nth(L[h], h, x), Nth(L[h], h, x + 1))
    BY CircleIs
  <2> QED BY <1>2, <2>1
<1>8. l \in ListHeads /\ Len(L[l]) = 0 /\ Nth(L[l], l, 0) = l /\ Nth(L[l], l, 1) = l
  BY <1>1, <1>2 DEF ListHeads, Nth
<1>9. /\ \A x \in 0..n : at(x) # l
      /\ \A x \in 1..n + 1 : at(x) # l
  <2>1. 0 \in 0..Len(L[l]) /\ 1 \in 1..Len(L[l]) + 1
    BY <1>8
  <2> QED BY <1>1, <1>2, <1>8, <2>1, CirclesApart
<1>10. /\ \A x \in 1..i : Nth(M[l], l, x) = at(x)
       /\ Nth(M[l], l, 0) = l /\ Nth(M[l], l, i + 1) = l
  <2>1. i + 1 \notin 1..i /\ 0 \notin 1..i /\ \A x \in 1..i : x \in 1..n
    BY <1>5
  <2> QED BY <1>2, <1>3, <2>1 DEF Nth
<1>11. /\ \A x \in 1..n - i : Nth(M[h], h, x) = at(x + i)
       /\ Nth(M[h], h, 0) = h /\ Nth(M[h], h, n - i + 1) = h
  <2>1. n - i + 1 \notin 1..n - i /\ 0 \notin 1..n - i /\ \A x \in 1..n - i : x + i \in 1..n
    BY <1>5
  <2> QED BY <1>2, <1>3, <2>1 DEF Nth
<1> HIDE DEF at
<1>12. PICK first, last, b : first = at(1) /\ last = at(i) /\ b = at(i + 1)
  OBVIOUS
<1>13. PICK q : q = Join(Join(Join(p, l, first), last, l), h, b)
  OBVIOUS
<1>14. /\ 1 \in 1..n + 1 /\ i \in 0..n /\ i + 1 \in 1..n + 1 /\ 0 \in 0..n /\ i # 0 /\ i + 1 # 1
       /\ i \in Int /\ i + 1 \in Int /\ 1 \in Int /\ i \in 1..n + 1
  BY <1>5
<1>15. /\ first \in ListHeads /\ last \in ListHeads /\ b \in ListHeads
       /\ l # last /\ l # h /\ last # h /\ first # l /\ first # b /\ l # b
  BY <1>7, <1>9, <1>12, <1>14
<1>16. /\ q \in Pointers /\ Linked(q, l, first) /\ Linked(q, last, l) /\ Linked(q, h, b)
       /\ \A x, y \in ListHeads :
            x # l /\ x # last /\ x # h /\ y # first /\ y # l /\ y # b /\ Linked(p, x, y) => Linked(q, x, y)
  <2>1. p \in Pointers /\ l \in ListHeads /\ h \in ListHeads
    BY <1>1, <1>7, <1>8
  <2> QED BY <1>13, <1>15, <2>1, ThreeJoins
<1>17. \A x \in 0..n : x # 0 /\ x # i => Linked(q, at(x), at(x + 1))
  <2> SUFFICES ASSUME NEW x \in 0..n, x # 0, x # i
               PROVE  Linked(q, at(x), at(x + 1))
    OBVIOUS
  <2>1. x + 1 \in 1..n + 1 /\ x + 1 # 1 /\ x + 1 # i + 1 /\ x \in Int /\ x + 1 \in Int
    BY <1>5
  <2>2. at(x) # l /\ at(x) # last /\ at(x) # h /\ at(x + 1) # first /\ at(x + 1) # l /\ at(x + 1) # b
    BY <1>7, <1>9, <1>12, <1>14, <2>1
  <2>3. at(x) \in ListHeads /\ at(x + 1) \in ListHeads /\ Linked(p, at(x), at(x + 1))
    BY <1>7, <2>1
  <2> QED BY <1>16, <2>2, <2>3
<1>18. ASSUME NEW j \in 0..i
       PROVE  Linked(q, Nth(M[l], l, j), Nth(M[l], l, j + 1))
  <2>1. j \in Int /\ 0 <= j /\ j <= i
    BY <1>5
  <2>2. CASE j = 0
    <3>1. j + 1 = 1 /\ 1 \in 1..i
      BY <1>5, <2>2
    <3> QED BY <1>10, <1>12, <1>16, <2>2, <3>1
  <2>3. CASE 0 < j /\ j < i
    <3>1. j \in 1..i /\ j + 1 \in 1..i /\ j \in 0..n /\ j # 0 /\ j # i
      BY <1>5, <2>1, <2>3
    <3> QED BY <1>10, <1>17, <3>1
  <2>4. CASE j = i
    <3>1. j \in 1..i
      BY <1>5, <2>4
    <3> QED BY <1>10, <1>12, <1>16, <2>4, <3>1
  <2> QED BY <1>5, <2>1, <2>2, <2>3, <2>4
<1>19. ASSUME NEW j \in 0..n - i
       PROVE  Linked(q, Nth(M[h], h, j), Nth(M[h], h, j + 1))
  <2>1. j \in Int /\ 0 <= j /\ j <= n - i
    BY <1>5
  <2>2. CASE j = 0
    <3>1. Nth(M[h], h, j + 1) = b
      <4>1. CASE i = n
        <5>1. j + 1 = n - i + 1 /\ i + 1 = n + 1
          BY <1>5, <2>2, <4>1
        <5> QED BY <1>7, <1>11, <1>12, <5>1
      <4>2. CASE i # n
        <5>1. j + 1 \in 1..n - i /\ (j + 1) + i = i + 1
          BY <1>5, <2>2, <4>2
        <5> QED BY <1>11, <1>12, <5>1
      <4> QED BY <4>1, <4>2
    <3> QED BY <1>11, <1>16, <2>2, <3>1
  <2>3. CASE j # 0
    <3>1. j \in 1..n - i /\ j + i \in 0..n /\ j + i # 0 /\ j + i # i /\ (j + 1) + i = (j + i) + 1
      BY <1>5, <2>1, <2>3
    <3>2. Nth(M[h], h, j + 1) = at((j + i) + 1)
      <4>1. CASE j = n - i
        <5>1. j + 1 = n - i + 1 /\ (j + i) + 1 = n + 1
          BY <1>5, <4>1
        <5> QED BY <1>7, <1>11, <5>1
      <4>2. CASE j # n - i
        <5>1. j + 1 \in 1..n - i
          BY <1>5, <2>1, <4>2
        <5> QED BY <1>11, <3>1, <5>1
      <4> QED BY <4>1, <4>2
    <3> QED BY <1>11, <1>17, <3>1, <3>2
  <2> QED BY <2>2, <2>3
<1>20. ASSUME NEW g \in Heads \ S, NEW j \in 0..Len(M[g])
       PROVE  Linked(q, Nth(M[g], g, j), Nth(M[g], g, j + 1))
  <2>1. CASE g = h
    BY <1>3, <1>19, <2>1
  <2>2. CASE g = l
    BY <1>3, <1>18, <2>2
  <2>3. CASE g # h /\ g # l
    <3>1. /\ M[g] = L[g] /\ Len(L[g]) \in Nat /\ j \in 0..Len(L[g]) /\ j + 1 \in 1..Len(L[g]) + 1
          /\ j \in Int /\ j + 1 \in Int
      BY <1>1, <1>2, <2>3, NthAre
    <3>2. Linked(p, Nth(L[g], g, j), Nth(L[g], g, j + 1))
      BY <3>1 DEF Shows, Holds
    <3>3. Nth(L[g], g, j) # last /\ Nth(L[g], g, j) # h
      BY <1>1, <1>2, <1>7, <1>12, <1>14, <2>3, <3>1, CirclesApart DEF at
    <3>4. Nth(L[g], g, j + 1) # first /\ Nth(L[g], g, j + 1) # b
      BY <1>1, <1>2, <1>12, <1>14, <2>3, <3>1, CirclesApart DEF at
    <3>5. Nth(L[g], g, j) # l /\ Nth(L[g], g, j + 1) # l
      <4>1. 0 \in 0..Len(L[l]) /\ 1 \in 1..Len(L[l]) + 1
        BY <1>8
      <4>2. /\ \A x \in 0..Len(L[g]), y \in 0..Len(L[l]) : Nth(L[g], g, x) # Nth(L[l], l, y)
            /\ \A x \in 1..Len(L[g]) + 1, y \in 1..Len(L[l]) + 1 : Nth(L[g], g, x) # Nth(L[l], l, y)
        BY <1>1, <2>3, CirclesApart
      <4> QED BY <1>8, <3>1, <4>1, <4>2
    <3>6. Nth(L[g], g, j) \in ListHeads /\ Nth(L[g], g, j + 1) \in ListHeads
      BY <1>1, <3>1, NthAre
    <3> QED BY <1>16, <3>1, <3>2, <3>3, <3>4, <3>5, <3>6
  <2> QED BY <2>1, <2>2, <2>3
<1>21. \A g \in S : M[g] = << >>
  BY <1>1, <1>2 DEF Shows
<1>22. Shows(q, M, S)
  BY <1>1, <1>3, <1>6, <1>16, <1>20, <1>21 DEF Shows, Holds
<1> QED BY <1>12, <1>13, <1>22 DEF at

\* L, but h has s.
With(L, h, s) == [L EXCEPT ![h] = s]

LEMMA WithIs ==
  ASSUME NEW L, L \in [Heads -> Seq(Entries)], NEW h \in Heads, NEW s \in Seq(Entries)
  PROVE  /\ With(L, h, s) \in [Heads -> Seq(Entries)] /\ With(L, h, s)[h] = s
         /\ \A g \in Heads \ {h} : With(L, h, s)[g] = L[g]
BY DEF With

LEMMA PlaceIs ==
  ASSUME NEW L, Apart(L), NEW h \in Heads, NEW i \in 1..Len(L[h])
  PROVE  PlaceOf(L[h], L[h][i]) = i
<1>1. DOMAIN L[h] = 1..Len(L[h])
  BY LenProperties DEF Apart
<1>2. \A j \in 1..Len(L[h]) : L[h][j] = L[h][i] => j = i
  BY ApartIs
<1> QED BY <1>1, <1>2 DEF PlaceOf

\* What a list is before, up to and after its i-th.
LEMMA PartsAre ==
  ASSUME NEW s \in Seq(Entries), NEW n \in Nat, n = Len(s), NEW i \in 1..n, NEW e, PlaceOf(s, e) = i
  PROVE  /\ Preceding(s, e) \in Seq(Entries) /\ Len(Preceding(s, e)) = i - 1
         /\ \A j \in 1..i - 1 : Preceding(s, e)[j] = s[j]
         /\ Upto(s, e) \in Seq(Entries) /\ Len(Upto(s, e)) = i
         /\ \A j \in 1..i : Upto(s, e)[j] = s[j]
         /\ After(s, e) \in Seq(Entries) /\ Len(After(s, e)) = n - i
         /\ \A j \in 1..n - i : After(s, e)[j] = s[j + i]
<1>1. \A j \in 1..n : s[j] \in Entries
  BY ElementOfSeq
<1>2. i \in Int /\ n \in Int /\ 1 <= i /\ i <= n
  OBVIOUS
<1>3. /\ SubSeq(s, 1, i - 1) \in Seq(Entries) /\ Len(SubSeq(s, 1, i - 1)) = i - 1
      /\ \A j \in 1..i - 1 : SubSeq(s, 1, i - 1)[j] = s[j]
  <2>1. i - 1 \in Int /\ \A j \in 1..i - 1 : s[j] \in Entries
    BY <1>1, <1>2
  <2>2. /\ SubSeq(s, 1, i - 1) \in Seq(Entries)
        /\ Len(SubSeq(s, 1, i - 1)) = IF 1 <= i - 1 THEN (i - 1) - 1 + 1 ELSE 0
        /\ \A j \in 1..(i - 1) - 1 + 1 : SubSeq(s, 1, i - 1)[j] = s[1 + j - 1]
    BY <2>1, SubSeqProperties
  <2>3. (IF 1 <= i - 1 THEN (i - 1) - 1 + 1 ELSE 0) = i - 1 /\ (i - 1) - 1 + 1 = i - 1
    BY <1>2
  <2>4. \A j \in 1..i - 1 : 1 + j - 1 = j
    BY <1>2
  <2> QED BY <2>2, <2>3, <2>4
<1>4. /\ SubSeq(s, 1, i) \in Seq(Entries) /\ Len(SubSeq(s, 1, i)) = i
      /\ \A j \in 1..i : SubSeq(s, 1, i)[j] = s[j]
  <2>1. \A j \in 1..i : s[j] \in Entries
    BY <1>1, <1>2
  <2>2. /\ SubSeq(s, 1, i) \in Seq(Entries)
        /\ Len(SubSeq(s, 1, i)) = IF 1 <= i THEN i - 1 + 1 ELSE 0
        /\ \A j \in 1..i - 1 + 1 : SubSeq(s, 1, i)[j] = s[1 + j - 1]
    BY <1>2, <2>1, SubSeqProperties
  <2>3. (IF 1 <= i THEN i - 1 + 1 ELSE 0) = i /\ i - 1 + 1 = i
    BY <1>2
  <2>4. \A j \in 1..i : 1 + j - 1 = j
    BY <1>2
  <2> QED BY <2>2, <2>3, <2>4
<1>5. /\ SubSeq(s, i + 1, n) \in Seq(Entries) /\ Len(SubSeq(s, i + 1, n)) = n - i
      /\ \A j \in 1..n - i : SubSeq(s, i + 1, n)[j] = s[j + i]
  <2>1. i + 1 \in Int /\ n \in Int /\ \A j \in i + 1..n : s[j] \in Entries
    BY <1>1, <1>2
  <2>2. /\ SubSeq(s, i + 1, n) \in Seq(Entries)
        /\ Len(SubSeq(s, i + 1, n)) = IF i + 1 <= n THEN n - (i + 1) + 1 ELSE 0
        /\ \A j \in 1..n - (i + 1) + 1 : SubSeq(s, i + 1, n)[j] = s[(i + 1) + j - 1]
    BY <2>1, SubSeqProperties
  <2>3. (IF i + 1 <= n THEN n - (i + 1) + 1 ELSE 0) = n - i /\ n - (i + 1) + 1 = n - i
    BY <1>2
  <2>4. \A j \in 1..n - i : (i + 1) + j - 1 = j + i
    BY <1>2
  <2> QED BY <2>2, <2>3, <2>4
<1> QED BY <1>3, <1>4, <1>5 DEF Preceding, Upto, After

LEMMA UptoIs ==
  ASSUME NEW s \in Seq(Entries), NEW n \in Nat, n = Len(s), NEW i \in 1..n, NEW e, PlaceOf(s, e) = i
  PROVE  Upto(s, e) \in Seq(Entries) /\ Len(Upto(s, e)) = i /\ \A j \in 1..i : Upto(s, e)[j] = s[j]
BY PartsAre

LEMMA PrecedingIs ==
  ASSUME NEW s \in Seq(Entries), NEW n \in Nat, n = Len(s), NEW i \in 1..n, NEW e, PlaceOf(s, e) = i
  PROVE  /\ Preceding(s, e) \in Seq(Entries) /\ Len(Preceding(s, e)) = i - 1
         /\ \A j \in 1..i - 1 : Preceding(s, e)[j] = s[j]
BY PartsAre

LEMMA AfterIs ==
  ASSUME NEW s \in Seq(Entries), NEW n \in Nat, n = Len(s), NEW i \in 1..n, NEW e, PlaceOf(s, e) = i
  PROVE  /\ After(s, e) \in Seq(Entries) /\ Len(After(s, e)) = n - i
         /\ \A j \in 1..n - i : After(s, e)[j] = s[j + i]
BY PartsAre

LEMMA WithoutIs ==
  ASSUME NEW s \in Seq(Entries), NEW n \in Nat, n = Len(s), NEW i \in 1..n, NEW e, PlaceOf(s, e) = i
  PROVE  /\ Without(s, e) \in Seq(Entries) /\ Len(Without(s, e)) = n - 1
         /\ \A j \in 1..n - 1 : Without(s, e)[j] = IF j < i THEN s[j] ELSE s[j + 1]
<1>1. PICK a, b : a = Preceding(s, e) /\ b = After(s, e)
  OBVIOUS
<1>2. /\ a \in Seq(Entries) /\ Len(a) = i - 1 /\ \A j \in 1..i - 1 : a[j] = s[j]
      /\ b \in Seq(Entries) /\ Len(b) = n - i /\ \A j \in 1..n - i : b[j] = s[j + i]
  BY <1>1, PartsAre
<1>3. i \in Int /\ n \in Int /\ 1 <= i /\ i <= n
  OBVIOUS
<1>4. /\ a \o b \in Seq(Entries) /\ Len(a \o b) = Len(a) + Len(b)
      /\ \A j \in 1..Len(a) + Len(b) : (a \o b)[j] = IF j <= Len(a) THEN a[j] ELSE b[j - Len(a)]
  BY <1>2, ConcatProperties
<1>5. Len(a) + Len(b) = n - 1
  BY <1>2, <1>3
<1>6. ASSUME NEW j \in 1..n - 1
      PROVE  (a \o b)[j] = IF j < i THEN s[j] ELSE s[j + 1]
  <2>1. CASE j < i
    <3>1. j <= i - 1 /\ j \in 1..i - 1
      BY <1>3, <2>1
    <3> QED BY <1>2, <1>4, <1>5, <2>1, <3>1
  <2>2. CASE ~(j < i)
    <3>1. ~(j <= i - 1) /\ j - (i - 1) \in 1..n - i /\ (j - (i - 1)) + i = j + 1
      BY <1>3, <2>2
    <3>2. (a \o b)[j] = b[j - (i - 1)]
      BY <1>2, <1>4, <1>5, <3>1
    <3>3. b[j - (i - 1)] = s[(j - (i - 1)) + i]
      BY <1>2, <3>1
    <3> QED BY <2>2, <3>1, <3>2, <3>3
  <2> QED BY <2>1, <2>2
<1> QED BY <1>1, <1>4, <1>5, <1>6 DEF Without

\* e before s and behind s.
LEMMA EndsAre ==
  ASSUME NEW s \in Seq(Entries), NEW n \in Nat, n = Len(s), NEW e \in Entries
  PROVE  /\ <<e>> \o s \in Seq(Entries) /\ Len(<<e>> \o s) = n + 1
         /\ \A j \in 1..n + 1 : (<<e>> \o s)[j] = IF j = 1 THEN e ELSE s[j - 1]
         /\ Append(s, e) \in Seq(Entries) /\ Len(Append(s, e)) = n + 1
         /\ \A j \in 1..n + 1 : Append(s, e)[j] = IF j <= n THEN s[j] ELSE e
<1>1. <<e>> \in Seq(Entries) /\ Len(<<e>>) = 1 /\ <<e>>[1] = e
  OBVIOUS
<1>2. /\ <<e>> \o s \in Seq(Entries) /\ Len(<<e>> \o s) = 1 + n
      /\ \A j \in 1..1 + n : (<<e>> \o s)[j] = IF j <= 1 THEN <<e>>[j] ELSE s[j - 1]
  BY <1>1, ConcatProperties
<1>3. \A j \in 1..n + 1 : (j <= 1 <=> j = 1)
  OBVIOUS
<1>4. 1 + n = n + 1
  OBVIOUS
<1>5. \A j \in 1..n + 1 : (<<e>> \o s)[j] = IF j = 1 THEN e ELSE s[j - 1]
  BY <1>1, <1>2, <1>3, <1>4
<1>6. Append(s, e) \in Seq(Entries) /\ Len(Append(s, e)) = n + 1
  OBVIOUS
<1>7. \A j \in 1..n + 1 : Append(s, e)[j] = IF j <= n THEN s[j] ELSE e
  OBVIOUS
<1> QED BY <1>2, <1>4, <1>5, <1>6, <1>7

\* What the pointers of a head and of an entry are.
LEMMA HeadPoints ==
  ASSUME NEW p, NEW L, NEW S, Shows(p, L, S), NEW h \in Heads \ S
  PROVE  p.next[h] = Nth(L[h], h, 1) /\ p.prev[h] = Nth(L[h], h, Len(L[h]))
<1>1. PICK n \in Nat : n = Len(L[h])
  BY CircleIs
<1>2. /\ Nth(L[h], h, n + 1) = h /\ Nth(L[h], h, 0) = h
      /\ \A x \in 0..n : p.next[Nth(L[h], h, x)] = Nth(L[h], h, x + 1) /\ p.prev[Nth(L[h], h, x + 1)] = Nth(L[h], h, x)
  BY <1>1, CircleIs
<1>3. 0 \in 0..n /\ n \in 0..n /\ 0 + 1 = 1
  OBVIOUS
<1>4. p.next[h] = Nth(L[h], h, 1)
  BY <1>2, <1>3
<1>5. p.prev[h] = Nth(L[h], h, n)
  BY <1>2, <1>3
<1> QED BY <1>1, <1>4, <1>5

LEMMA EntryPoints ==
  ASSUME NEW p, NEW L, NEW S, Shows(p, L, S), NEW h \in Heads \ S, NEW i \in 1..Len(L[h])
  PROVE  /\ Nth(L[h], h, i) = L[h][i]
         /\ p.next[L[h][i]] = Nth(L[h], h, i + 1) /\ p.prev[L[h][i]] = Nth(L[h], h, i - 1)
<1>1. PICK n \in Nat : n = Len(L[h])
  BY CircleIs
<1>2. \A x \in 0..n : p.next[Nth(L[h], h, x)] = Nth(L[h], h, x + 1) /\ p.prev[Nth(L[h], h, x + 1)] = Nth(L[h], h, x)
  BY <1>1, CircleIs
<1>3. i \in 0..n /\ i - 1 \in 0..n /\ (i - 1) + 1 = i
  BY <1>1
<1>4. Nth(L[h], h, i) = L[h][i]
  BY DEF Nth
<1>5. p.next[Nth(L[h], h, i)] = Nth(L[h], h, i + 1)
  BY <1>2, <1>3
<1>6. p.prev[Nth(L[h], h, i)] = Nth(L[h], h, i - 1)
  BY <1>2, <1>3
<1> QED BY <1>4, <1>5, <1>6

\* A head whose list holds something is not one that was left.
LEMMA HolderIs ==
  ASSUME NEW p, NEW L, NEW S, Shows(p, L, S), NEW h \in Heads, NEW i \in 1..Len(L[h])
  PROVE  h \in Heads \ S /\ L[h][i] \in Entries
<1>1. Apart(L)
  BY DEF Shows
<1>2. L[h] # << >>
  BY LenProperties
<1> QED BY <1>1, <1>2, NthAre DEF Shows

\* e comes first.
LEMMA Adding ==
  ASSUME NEW p, NEW L, NEW S, Shows(p, L, S), NEW h \in Heads \ S, NEW e, IsFree(L, e)
  PROVE  Shows(PutAfter(p, e, h), With(L, h, <<e>> \o L[h]), S)
<1>1. Apart(L) /\ e \in Entries
  BY DEF Shows, IsFree
<1>2. L \in [Heads -> Seq(Entries)] /\ L[h] \in Seq(Entries) /\ h \in Heads
  BY <1>1 DEF Apart
<1>3. PICK n \in Nat : n = Len(L[h])
  BY <1>2, LenProperties
<1>4. PICK s : s = <<e>> \o L[h]
  OBVIOUS
<1>5. s \in Seq(Entries) /\ Len(s) = n + 1 /\ \A j \in 1..n + 1 : s[j] = IF j = 1 THEN e ELSE L[h][j - 1]
  BY <1>1, <1>2, <1>3, <1>4, EndsAre
<1>6. PICK M : M = With(L, h, s)
  OBVIOUS
<1>7. M \in [Heads -> Seq(Entries)] /\ M[h] = s /\ \A g \in Heads \ {h} : M[g] = L[g]
  BY <1>2, <1>5, <1>6, WithIs
<1>8. 0 \in 0..n /\ 0 + 1 = 1 /\ \A j \in 1..n + 1 : ~(j <= 0)
  OBVIOUS
<1>9. InsertionOf(L, M, h, 0, e)
  BY <1>3, <1>5, <1>7, <1>8 DEF InsertionOf
<1>11. Shows(PutBetween(p, e, Nth(L[h], h, 0), Nth(L[h], h, 0 + 1)), M, S)
  <2>1. 0 \in 0..Len(L[h])
    BY <1>3
  <2> QED BY <1>9, <2>1, Inserting
<1>12. Nth(L[h], h, 0) = h /\ p.next[h] = Nth(L[h], h, 0 + 1)
  BY <1>8, CircleIs, HeadPoints
<1> QED BY <1>4, <1>6, <1>11, <1>12 DEF PutAfter

\* e comes last.
LEMMA AddingLast ==
  ASSUME NEW p, NEW L, NEW S, Shows(p, L, S), NEW h \in Heads \ S, NEW e, IsFree(L, e)
  PROVE  Shows(PutBefore(p, e, h), With(L, h, Append(L[h], e)), S)
<1>1. Apart(L) /\ e \in Entries
  BY DEF Shows, IsFree
<1>2. L \in [Heads -> Seq(Entries)] /\ L[h] \in Seq(Entries) /\ h \in Heads
  BY <1>1 DEF Apart
<1>3. PICK n \in Nat : n = Len(L[h])
  BY <1>2, LenProperties
<1>4. PICK s : s = Append(L[h], e)
  OBVIOUS
<1>5. s \in Seq(Entries) /\ Len(s) = n + 1 /\ \A j \in 1..n + 1 : s[j] = IF j <= n THEN L[h][j] ELSE e
  BY <1>1, <1>2, <1>3, <1>4, EndsAre
<1>6. PICK M : M = With(L, h, s)
  OBVIOUS
<1>7. M \in [Heads -> Seq(Entries)] /\ M[h] = s /\ \A g \in Heads \ {h} : M[g] = L[g]
  BY <1>2, <1>5, <1>6, WithIs
<1>8. \A j \in 1..n + 1 : ~(j <= n) => j = n + 1
  OBVIOUS
<1>9. InsertionOf(L, M, h, n, e)
  BY <1>3, <1>5, <1>7, <1>8 DEF InsertionOf
<1>11. Shows(PutBetween(p, e, Nth(L[h], h, n), Nth(L[h], h, n + 1)), M, S)
  <2>1. n \in 0..Len(L[h])
    BY <1>3
  <2> QED BY <1>9, <2>1, Inserting
<1>12. Nth(L[h], h, n + 1) = h /\ p.prev[h] = Nth(L[h], h, n)
  BY <1>3, CircleIs, HeadPoints
<1> QED BY <1>4, <1>6, <1>11, <1>12 DEF PutBefore

\* The i-th goes.
LEMMA Deleting ==
  ASSUME NEW p, NEW L, NEW S, Shows(p, L, S), NEW h \in Heads, NEW i \in 1..Len(L[h]), NEW e, e = L[h][i],
         NEW M, M = With(L, h, Without(L[h], e))
  PROVE  /\ Shows(Unlink(p, e), M, S) /\ IsFree(M, e) /\ h \in Heads \ S
         /\ RemovalOf(L, M, h, i)
<1>1. Apart(L)
  BY DEF Shows
<1>2. L \in [Heads -> Seq(Entries)] /\ L[h] \in Seq(Entries)
  BY <1>1 DEF Apart
<1>3. PICK n \in Nat : n = Len(L[h])
  BY <1>2, LenProperties
<1>4. h \in Heads \ S
  BY HolderIs
<1>5. PlaceOf(L[h], e) = i
  BY <1>1, PlaceIs
<1>6. PICK s : s = Without(L[h], e)
  OBVIOUS
<1>7. s \in Seq(Entries) /\ Len(s) = n - 1 /\ \A j \in 1..n - 1 : s[j] = IF j < i THEN L[h][j] ELSE L[h][j + 1]
  BY <1>2, <1>3, <1>5, <1>6, WithoutIs
<1>8. M \in [Heads -> Seq(Entries)] /\ M[h] = s /\ \A g \in Heads \ {h} : M[g] = L[g]
  BY <1>2, <1>6, <1>7, WithIs
<1>9. RemovalOf(L, M, h, i)
  BY <1>3, <1>7, <1>8 DEF RemovalOf
<1>10. Shows(Unlink(p, L[h][i]), M, S) /\ IsFree(M, L[h][i])
  BY <1>4, <1>9, Removing
<1> QED BY <1>4, <1>9, <1>10

\* The i-th goes and is poisoned or initialised.
LEMMA Dropping ==
  ASSUME NEW p, NEW L, NEW S, Shows(p, L, S), NEW h \in Heads, NEW i \in 1..Len(L[h]), NEW e, e = L[h][i]
  PROVE  /\ Shows(Poisoned(Unlink(p, e), e), With(L, h, Without(L[h], e)), S)
         /\ Shows(Initialized(Unlink(p, e), e), With(L, h, Without(L[h], e)), S)
<1>1. PICK M, q : M = With(L, h, Without(L[h], e)) /\ q = Unlink(p, e)
  OBVIOUS
<1>2. Shows(q, M, S) /\ IsFree(M, e) /\ e \in ListHeads
  BY <1>1, Deleting DEF IsFree, ListHeads
<1> QED BY <1>1, <1>2, Freeing

\* t is s with a and b for each other.
RenamingOf(s, t, a, b) ==
  /\ t \in Seq(Entries) /\ Len(t) = Len(s)
  /\ \A i \in 1..Len(s) : t[i] = IF s[i] = a THEN b ELSE IF s[i] = b THEN a ELSE s[i]

LEMMA RenamedIs ==
  ASSUME NEW s \in Seq(Entries), NEW a \in Entries, NEW b \in Entries
  PROVE  RenamingOf(s, Renamed(s, a, b), a, b)
<1>1. PICK n \in Nat : n = Len(s) /\ DOMAIN s = 1..n
  BY LenProperties
<1>2. \A i \in 1..n : s[i] \in Entries
  BY <1>1, ElementOfSeq
<1>3. PICK t : t = [i \in 1..n |-> IF s[i] = a THEN b ELSE IF s[i] = b THEN a ELSE s[i]]
  OBVIOUS
<1>4. t \in [1..n -> Entries]
  BY <1>2, <1>3
<1>5. t \in Seq(Entries) /\ Len(t) = n
  BY <1>4
<1>6. t = Renamed(s, a, b)
  BY <1>1, <1>3 DEF Renamed
<1> QED BY <1>1, <1>3, <1>5, <1>6 DEF RenamingOf

\* new takes the place of the i-th, and of every old in the list there is no other.
LEMMA Renaming ==
  ASSUME NEW p, NEW L, NEW S, Shows(p, L, S), NEW h \in Heads, NEW i \in 1..Len(L[h]), NEW old, old = L[h][i],
         NEW new, IsFree(L, new), NEW M, M = With(L, h, Renamed(L[h], old, new))
  PROVE  /\ Shows(PutFor(p, old, new), M, S) /\ Shows(Initialized(PutFor(p, old, new), old), M, S)
         /\ ReplacementOf(L, M, h, i, new) /\ IsFree(M, old)
<1>1. Apart(L) /\ new \in Entries
  BY DEF Shows, IsFree
<1>2. L \in [Heads -> Seq(Entries)] /\ L[h] \in Seq(Entries)
  BY <1>1 DEF Apart
<1>3. h \in Heads \ S /\ old \in Entries
  BY HolderIs
<1>4. PICK s : s = Renamed(L[h], old, new)
  OBVIOUS
<1>5. /\ s \in Seq(Entries) /\ Len(s) = Len(L[h])
      /\ \A j \in 1..Len(L[h]) : s[j] = IF L[h][j] = old THEN new ELSE IF L[h][j] = new THEN old ELSE L[h][j]
  <2>1. RenamingOf(L[h], s, old, new)
    BY <1>1, <1>2, <1>3, <1>4, RenamedIs
  <2> QED BY <2>1 DEF RenamingOf
<1>6. \A j \in 1..Len(L[h]) : (L[h][j] = old <=> j = i) /\ L[h][j] # new
  <2> SUFFICES ASSUME NEW j \in 1..Len(L[h])
               PROVE  (L[h][j] = old <=> j = i) /\ L[h][j] # new
    OBVIOUS
  <2>1. L[h][j] = L[h][i] => j = i
    BY <1>1, ApartIs
  <2> QED BY <2>1 DEF IsFree
<1>7. M \in [Heads -> Seq(Entries)] /\ M[h] = s /\ \A g \in Heads \ {h} : M[g] = L[g]
  BY <1>2, <1>4, <1>5, WithIs
<1>8. ReplacementOf(L, M, h, i, new)
  BY <1>5, <1>6, <1>7 DEF ReplacementOf
<1>9. Shows(PutFor(p, L[h][i], new), M, S) /\ IsFree(M, L[h][i])
  BY <1>3, <1>8, Replacing
<1>10. PICK q : q = PutFor(p, old, new)
  OBVIOUS
<1>11. Shows(q, M, S) /\ IsFree(M, old) /\ old \in ListHeads
  BY <1>3, <1>9, <1>10 DEF ListHeads
<1>12. Shows(Initialized(q, old), M, S)
  BY <1>11, Freeing
<1> QED BY <1>8, <1>10, <1>11, <1>12

\* e goes from one list to the front or the end of another, or of the same.
LEMMA Moving ==
  ASSUME NEW p, NEW L, NEW S, Shows(p, L, S), NEW g \in Heads, NEW i \in 1..Len(L[g]), NEW e, e = L[g][i],
         NEW h \in Heads \ S, NEW M, M = With(L, g, Without(L[g], e))
  PROVE  /\ Shows(PutAfter(Unlink(p, e), e, h), With(M, h, <<e>> \o M[h]), S)
         /\ Shows(PutBefore(Unlink(p, e), e, h), With(M, h, Append(M[h], e)), S)
<1>1. PICK q : q = Unlink(p, e)
  OBVIOUS
<1>2. Shows(q, M, S) /\ IsFree(M, e)
  BY <1>1, Deleting
<1>3. Shows(PutAfter(q, e, h), With(M, h, <<e>> \o M[h]), S)
  BY <1>2, Adding
<1>4. Shows(PutBefore(q, e, h), With(M, h, Append(M[h], e)), S)
  BY <1>2, AddingLast
<1> QED BY <1>1, <1>3, <1>4

LEMMA RotatingLeft ==
  ASSUME NEW p, NEW L, NEW S, Shows(p, L, S), NEW h \in Heads \ S, 1 \in 1..Len(L[h]), NEW e, e = L[h][1]
  PROVE  /\ Shows(PutBefore(Unlink(p, e), e, h), With(L, h, Append(Tail(L[h]), Head(L[h]))), S)
         /\ p.next[h] = e
<1>1. Apart(L)
  BY DEF Shows
<1>2. L \in [Heads -> Seq(Entries)] /\ L[h] \in Seq(Entries) /\ h \in Heads
  BY <1>1 DEF Apart
<1>3. PICK n \in Nat : n = Len(L[h])
  BY <1>2, LenProperties
<1>4. PICK s, t : s = L[h] /\ t = Without(s, e)
  OBVIOUS
<1>5. PlaceOf(s, e) = 1
  BY <1>1, <1>2, <1>4, PlaceIs
<1>6. 1 \in 1..n /\ s \in Seq(Entries) /\ n = Len(s) /\ s # << >>
  BY <1>2, <1>3, <1>4
<1>7. t \in Seq(Entries) /\ Len(t) = n - 1 /\ \A j \in 1..n - 1 : t[j] = s[j + 1]
  <2>1. t \in Seq(Entries) /\ Len(t) = n - 1 /\ \A j \in 1..n - 1 : t[j] = IF j < 1 THEN s[j] ELSE s[j + 1]
    BY <1>4, <1>5, <1>6, WithoutIs
  <2>2. \A j \in 1..n - 1 : ~(j < 1)
    OBVIOUS
  <2> QED BY <2>1, <2>2
<1>8. t = Tail(s)
  <2>1. Tail(s) \in Seq(Entries) /\ Len(Tail(s)) = n - 1 /\ \A j \in 1..n - 1 : Tail(s)[j] = s[j + 1]
    BY <1>6, HeadTailProperties
  <2>2. \A j \in 1..Len(t) : t[j] = Tail(s)[j]
    BY <1>7, <2>1
  <2> QED BY <1>7, <2>1, <2>2, SeqEqual
<1>9. Head(s) = e
  BY <1>4, <1>6
<1>10. PICK M : M = With(L, h, t)
  OBVIOUS
<1>11. With(M, h, Append(M[h], e)) = With(L, h, Append(Tail(s), Head(s)))
  <2>1. M[h] = t
    BY <1>2, <1>7, <1>10, WithIs
  <2>2. With(M, h, Append(t, e)) = With(L, h, Append(t, e))
    BY <1>2, <1>10 DEF With
  <2> QED BY <1>8, <1>9, <2>1, <2>2
<1>12. Shows(PutBefore(Unlink(p, e), e, h), With(M, h, Append(M[h], e)), S)
  BY <1>2, <1>4, <1>10, Moving
<1>13. p.next[h] = e
  <2>1. p.next[h] = Nth(L[h], h, 1)
    BY HeadPoints
  <2> QED BY <2>1 DEF Nth
<1> QED BY <1>4, <1>11, <1>12, <1>13

\* Two entries of whatever lists for each other.
LEMMA Swapping ==
  ASSUME NEW p, NEW L, NEW S, Shows(p, L, S), NEW g \in Heads, NEW i \in 1..Len(L[g]), NEW a, a = L[g][i],
         NEW h \in Heads, NEW j \in 1..Len(L[h]), NEW b, b = L[h][j], a # b,
         NEW M, M = [x \in Heads |-> Renamed(L[x], a, b)]
  PROVE  Shows(Swapped(p, a, b), M, S)
<1>1. Apart(L)
  BY DEF Shows
<1>2. /\ L \in [Heads -> Seq(Entries)] /\ a \in Entries /\ b \in Entries /\ g \in Heads \ S /\ h \in Heads \ S
      /\ \A x \in Heads : Len(L[x]) \in Nat
  BY <1>1, HolderIs, LenProperties DEF Apart
<1> DEFINE Ren(x) == IF x = a THEN b ELSE IF x = b THEN a ELSE x
<1>3. /\ M \in [Heads -> Seq(Entries)]
      /\ \A x \in Heads : Len(M[x]) = Len(L[x]) /\ \A y \in 1..Len(L[x]) : M[x][y] = Ren(L[x][y])
  <2>1. ASSUME NEW x \in Heads
        PROVE  RenamingOf(L[x], M[x], a, b)
    <3>1. M[x] = Renamed(L[x], a, b) /\ L[x] \in Seq(Entries)
      BY <1>2
    <3> QED BY <1>2, <3>1, RenamedIs
  <2>2. M = [x \in Heads |-> M[x]]
    OBVIOUS
  <2>3. \A x \in Heads : M[x] \in Seq(Entries)
    BY <2>1 DEF RenamingOf
  <2>4. M \in [Heads -> Seq(Entries)]
    BY <2>2, <2>3
  <2> QED BY <2>1, <2>4 DEF RenamingOf
<1>4. PICK M1, p1 : M1 = With(L, h, Without(L[h], b)) /\ p1 = Poisoned(Unlink(p, b), b)
  OBVIOUS
<1>5. RemovalOf(L, M1, h, j) /\ IsFree(M1, b) /\ Shows(p1, M1, S)
  BY <1>4, Deleting, Dropping
<1>6. PICK n \in Nat : n = Len(L[h])
  BY <1>2
<1>7. j \in 1..n /\ j \in Int /\ n \in Int /\ 1 <= j /\ j <= n
  BY <1>6
<1>8. /\ M1 \in [Heads -> Seq(Entries)] /\ \A x \in Heads \ {h} : M1[x] = L[x]
      /\ Len(M1[h]) = n - 1
      /\ \A y \in 1..n - 1 : M1[h][y] = IF y < j THEN L[h][y] ELSE L[h][y + 1]
  BY <1>5, <1>6 DEF RemovalOf
<1>9. PICK i1 \in 1..Len(M1[g]) : M1[g][i1] = a /\ (g = h /\ i < j => i1 = i)
  <2>1. CASE g # h
    BY <1>8, <2>1
  <2>2. CASE g = h
    <3>1. i \in 1..n /\ i # j
      BY <1>6, <2>2
    <3>2. CASE i < j
      <4>1. i \in 1..n - 1
        BY <1>7, <3>1, <3>2
      <4> QED BY <1>8, <2>2, <3>2, <4>1
    <3>3. CASE ~(i < j)
      <4>1. i - 1 \in 1..n - 1 /\ ~(i - 1 < j) /\ (i - 1) + 1 = i
        BY <1>7, <3>1, <3>3
      <4> QED BY <1>8, <2>2, <3>3, <4>1
    <3> QED BY <3>2, <3>3
  <2> QED BY <2>1, <2>2
<1>10. PICK M2, q : M2 = With(M1, g, Renamed(M1[g], a, b)) /\ q = PutFor(p1, a, b)
  OBVIOUS
<1>11. Shows(q, M2, S) /\ ReplacementOf(M1, M2, g, i1, b) /\ IsFree(M2, a)
  BY <1>5, <1>9, <1>10, Renaming
<1>12. \A x \in Heads : Len(M2[x]) = Len(M1[x]) /\ Len(M1[x]) \in Nat
  BY <1>8, <1>11, LenProperties DEF ReplacementOf
<1>13. \A x \in Heads : \A y \in 1..Len(M1[x]) : M2[x][y] = IF x = g /\ y = i1 THEN b ELSE M1[x][y]
  BY <1>11 DEF ReplacementOf
<1>14. \A x \in Heads : \A y \in 1..Len(M1[x]) : M2[x][y] = Ren(M1[x][y])
  <2> SUFFICES ASSUME NEW x \in Heads, NEW y \in 1..Len(M1[x])
               PROVE  M2[x][y] = Ren(M1[x][y])
    OBVIOUS
  <2>1. M1[x][y] # b
    BY <1>5 DEF IsFree
  <2>2. M1[x][y] = a => x = g /\ y = i1
    <3>1. Apart(M1)
      BY <1>5 DEF Shows
    <3> QED BY <1>9, <3>1, ApartIs
  <2> QED BY <1>9, <1>13, <2>1, <2>2
<1>15. PICK pos : pos = IF p.prev[b] = a THEN b ELSE p.prev[b]
  OBVIOUS
<1>16. p.prev[b] = Nth(L[h], h, j - 1)
  BY <1>2, EntryPoints
<1>17. pos = Nth(M2[h], h, j - 1)
  <2>0. j - 1 \in 1..n => j - 1 \in 1..n - 1 /\ j - 1 < j
    BY <1>7
  <2>00. Len(M2[h]) = n - 1 /\ (j - 1 \in 1..n - 1 => j - 1 \in 1..n)
    BY <1>7, <1>8, <1>12
  <2>1. CASE j - 1 \in 1..n
    <3>1. p.prev[b] = L[h][j - 1]
      BY <1>6, <1>16, <2>1 DEF Nth
    <3>2. M1[h][j - 1] = L[h][j - 1]
      BY <1>8, <2>0, <2>1
    <3>3. M2[h][j - 1] = Ren(L[h][j - 1])
      BY <1>8, <1>14, <2>0, <2>1, <3>2
    <3>4. L[h][j - 1] # b
      <4>1. j - 1 # j /\ j - 1 \in 1..Len(L[h])
        BY <1>6, <1>7, <2>1
      <4> QED BY <1>1, <4>1, ApartIs
    <3>5. Nth(M2[h], h, j - 1) = M2[h][j - 1]
      BY <2>0, <2>00, <2>1 DEF Nth
    <3> QED BY <1>15, <3>1, <3>3, <3>4, <3>5
  <2>2. CASE j - 1 \notin 1..n
    <3>1. p.prev[b] = h
      BY <1>6, <1>16, <2>2 DEF Nth
    <3>2. h # a
      BY <1>2, KernelAssumption
    <3>3. Nth(M2[h], h, j - 1) = h
      BY <2>00, <2>2 DEF Nth
    <3> QED BY <1>15, <3>1, <3>2, <3>3
  <2> QED BY <2>1, <2>2
<1>18. q.next[pos] = Nth(M2[h], h, (j - 1) + 1) /\ j - 1 \in 0..Len(M2[h])
  <2>1. j - 1 \in 0..Len(M2[h])
    BY <1>7, <1>8, <1>12
  <2>2. \A x \in 0..Len(M2[h]) : q.next[Nth(M2[h], h, x)] = Nth(M2[h], h, x + 1)
    BY <1>2, <1>11, CircleIs
  <2> QED BY <1>17, <2>1, <2>2
<1>19. InsertionOf(M2, M, h, j - 1, a)
  <2>1. \A x \in Heads \ {h} : M[x] = M2[x]
    <3> SUFFICES ASSUME NEW x \in Heads \ {h}
                 PROVE  M[x] = M2[x]
      OBVIOUS
    <3>1. M1[x] = L[x]
      BY <1>8
    <3>2. M[x] \in Seq(Entries) /\ M2[x] \in Seq(Entries)
      BY <1>3, <1>11 DEF ReplacementOf
    <3>3. Len(M[x]) = Len(M2[x])
      BY <1>3, <1>12, <3>1
    <3>4. ASSUME NEW y \in 1..Len(M[x])
          PROVE  M[x][y] = M2[x][y]
      <4>1. y \in 1..Len(L[x]) /\ y \in 1..Len(M1[x])
        BY <1>3, <3>1
      <4>2. M[x][y] = Ren(L[x][y])
        BY <1>3, <4>1
      <4>3. M2[x][y] = Ren(M1[x][y])
        BY <1>14, <4>1
      <4> QED BY <3>1, <4>2, <4>3
    <3> QED BY <3>2, <3>3, <3>4, SeqEqual
  <2>2. Len(M[h]) = Len(M2[h]) + 1 /\ Len(M2[h]) + 1 = n
    BY <1>3, <1>6, <1>8, <1>12
  <2>3. ASSUME NEW y \in 1..n
        PROVE  M[h][y] = IF y <= j - 1 THEN M2[h][y] ELSE IF y = (j - 1) + 1 THEN a ELSE M2[h][y - 1]
    <3>1. M[h][y] = Ren(L[h][y])
      BY <1>3, <1>6
    <3>2. CASE y <= j - 1
      <4>1. y \in 1..n - 1 /\ y < j
        BY <1>7, <3>2
      <4>2. M1[h][y] = L[h][y] /\ y \in 1..Len(M1[h])
        BY <1>8, <4>1
      <4>3. M2[h][y] = Ren(M1[h][y])
        BY <1>14, <4>2
      <4> QED BY <3>1, <3>2, <4>2, <4>3
    <3>3. CASE y = j
      <4>1. ~(y <= j - 1) /\ y = (j - 1) + 1
        BY <1>7, <3>3
      <4>2. M[h][y] = a
        BY <3>1, <3>3
      <4> QED BY <4>1, <4>2
    <3>4. CASE y > j
      <4>1. y - 1 \in 1..n - 1 /\ ~(y - 1 < j) /\ (y - 1) + 1 = y /\ ~(y <= j - 1) /\ ~(y = (j - 1) + 1)
        BY <1>7, <3>4
      <4>2. M1[h][y - 1] = L[h][y] /\ y - 1 \in 1..Len(M1[h])
        BY <1>8, <4>1
      <4>3. M2[h][y - 1] = Ren(M1[h][y - 1])
        BY <1>14, <4>2
      <4> QED BY <3>1, <4>1, <4>2, <4>3
    <3> QED BY <1>7, <3>2, <3>3, <3>4
  <2> QED BY <1>3, <2>1, <2>2, <2>3 DEF InsertionOf
<1>20. Shows(PutBetween(q, a, Nth(M2[h], h, j - 1), Nth(M2[h], h, (j - 1) + 1)), M, S)
  BY <1>2, <1>11, <1>18, <1>19, Inserting
<1>21. Swapped(p, a, b) = PutBetween(q, a, pos, q.next[pos])
  BY <1>4, <1>10, <1>15 DEF Swapped, PutAfter
<1> QED BY <1>17, <1>18, <1>20, <1>21

LEMMA RotatingToFront ==
  ASSUME NEW p, NEW L, NEW S, Shows(p, L, S), NEW h \in Heads, NEW i \in 1..Len(L[h]), NEW e, e = L[h][i]
  PROVE  Shows(PutBefore(Unlink(p, h), h, e), With(L, h, <<e>> \o After(L[h], e) \o Preceding(L[h], e)), S)
<1>1. Apart(L)
  BY DEF Shows
<1>2. L \in [Heads -> Seq(Entries)] /\ L[h] \in Seq(Entries) /\ h \in Heads \ S /\ e \in Entries
  BY <1>1, HolderIs DEF Apart
<1>3. PICK n \in Nat : n = Len(L[h])
  BY <1>2, LenProperties
<1>4. i \in 1..n /\ i \in Int /\ n \in Int /\ 1 <= i /\ i <= n
  BY <1>3
<1>5. PICK s, a, b : s = L[h] /\ a = After(s, e) /\ b = Preceding(s, e)
  OBVIOUS
<1>6. PlaceOf(s, e) = i
  BY <1>1, <1>5, PlaceIs
<1>7. /\ b \in Seq(Entries) /\ Len(b) = i - 1 /\ \A j \in 1..i - 1 : b[j] = s[j]
      /\ a \in Seq(Entries) /\ Len(a) = n - i /\ \A j \in 1..n - i : a[j] = s[j + i]
  BY <1>2, <1>3, <1>4, <1>5, <1>6, PartsAre
<1>8. PICK c : c = <<e>> \o a
  OBVIOUS
<1>9. /\ c \in Seq(Entries) /\ Len(c) = n - i + 1
      /\ \A j \in 1..n - i + 1 : c[j] = IF j = 1 THEN e ELSE a[j - 1]
  <2>1. PICK m \in Nat : m = n - i
    BY <1>4
  <2>2. m = Len(a) /\ a \in Seq(Entries) /\ e \in Entries
    BY <1>2, <1>7, <2>1
  <2>3. c \in Seq(Entries) /\ Len(c) = m + 1 /\ \A j \in 1..m + 1 : c[j] = IF j = 1 THEN e ELSE a[j - 1]
    BY <1>8, <2>2, EndsAre
  <2> QED BY <2>1, <2>3
<1>10. PICK t : t = c \o b
  OBVIOUS
<1>11. /\ t \in Seq(Entries) /\ Len(t) = Len(c) + Len(b)
       /\ \A j \in 1..Len(c) + Len(b) : t[j] = IF j <= Len(c) THEN c[j] ELSE b[j - Len(c)]
  BY <1>7, <1>9, <1>10, ConcatProperties
<1>12. Len(t) = n /\ Len(c) + Len(b) = n
  BY <1>4, <1>7, <1>9, <1>11
<1>13. ASSUME NEW j \in 1..n
       PROVE  t[j] = IF j <= n - i + 1 THEN s[j + i - 1] ELSE s[j - (n - i + 1)]
  <2>1. CASE j = 1
    <3>1. j <= n - i + 1 /\ j + i - 1 = i /\ j \in 1..n - i + 1
      BY <1>4, <2>1
    <3>2. t[j] = e
      BY <1>9, <1>11, <1>12, <2>1, <3>1
    <3> QED BY <1>5, <3>1, <3>2
  <2>2. CASE j # 1 /\ j <= n - i + 1
    <3>1. j \in 1..n - i + 1 /\ j - 1 \in 1..n - i /\ (j - 1) + i = j + i - 1
      BY <1>4, <2>2
    <3>2. t[j] = a[j - 1]
      BY <1>9, <1>11, <1>12, <2>2, <3>1
    <3>3. a[j - 1] = s[(j - 1) + i]
      BY <1>7, <3>1
    <3> QED BY <2>2, <3>1, <3>2, <3>3
  <2>3. CASE ~(j <= n - i + 1)
    <3>1. j - (n - i + 1) \in 1..i - 1
      BY <1>4, <2>3
    <3>2. t[j] = b[j - (n - i + 1)]
      BY <1>9, <1>11, <1>12, <2>3
    <3> QED BY <1>7, <2>3, <3>1, <3>2
  <2> QED BY <2>1, <2>2, <2>3
<1>14. PICK M : M = With(L, h, t)
  OBVIOUS
<1>15. M \in [Heads -> Seq(Entries)] /\ M[h] = t /\ \A g \in Heads \ {h} : M[g] = L[g]
  <2>1. t \in Seq(Entries) /\ L \in [Heads -> Seq(Entries)] /\ h \in Heads
    BY <1>2, <1>11
  <2> QED BY <1>14, <2>1, WithIs
<1>16. RotationOf(L, M, h, i)
  BY <1>3, <1>5, <1>12, <1>13, <1>15 DEF RotationOf
<1>17. Shows(PutBefore(Unlink(p, h), h, L[h][i]), M, S)
  BY <1>2, <1>16, Rotating
<1> QED BY <1>5, <1>8, <1>10, <1>14, <1>17

LEMMA SliceIs ==
  ASSUME NEW s \in Seq(Entries), NEW n \in Nat, n = Len(s), NEW a \in 1..n + 1, NEW b \in a - 1..n
  PROVE  /\ SubSeq(s, a, b) \in Seq(Entries) /\ Len(SubSeq(s, a, b)) = b - a + 1
         /\ \A x \in 1..b - a + 1 : SubSeq(s, a, b)[x] = s[x + a - 1]
<1>0. a \in Int /\ b \in Int /\ n \in Int /\ 1 <= a /\ a <= n + 1 /\ a - 1 <= b /\ b <= n
  OBVIOUS
<1>1. \A j \in 1..n : s[j] \in Entries
  BY ElementOfSeq
<1>2. \A j \in a..b : s[j] \in Entries
  BY <1>0, <1>1
<1>3. /\ SubSeq(s, a, b) \in Seq(Entries)
      /\ Len(SubSeq(s, a, b)) = IF a <= b THEN b - a + 1 ELSE 0
      /\ \A x \in 1..b - a + 1 : SubSeq(s, a, b)[x] = s[a + x - 1]
  BY <1>0, <1>2, SubSeqProperties
<1>4. (IF a <= b THEN b - a + 1 ELSE 0) = b - a + 1 /\ \A x \in 1..b - a + 1 : a + x - 1 = x + a - 1
  BY <1>0
<1> QED BY <1>3, <1>4

LEMMA BulkMovingTail ==
  ASSUME NEW p, NEW L, NEW S, Shows(p, L, S), NEW h \in Heads,
         NEW i \in 1..Len(L[h]), NEW j \in 1..Len(L[h]), i <= j, NEW s, s = L[h]
  PROVE  Shows(BulkMoved(p, h, s[i], s[j]),
               With(L, h, SubSeq(s, 1, i - 1) \o SubSeq(s, j + 1, Len(s)) \o SubSeq(s, i, j)), S)
<1>1. Apart(L)
  BY DEF Shows
<1>2. L \in [Heads -> Seq(Entries)] /\ s \in Seq(Entries) /\ h \in Heads \ S
  BY <1>1, HolderIs DEF Apart
<1>3. PICK n \in Nat : n = Len(s)
  BY <1>2, LenProperties
<1>4. i \in Int /\ j \in Int /\ n \in Int /\ 1 <= i /\ i <= j /\ j <= n
  BY <1>3
<1>5. PICK a, b, c : a = SubSeq(s, 1, i - 1) /\ b = SubSeq(s, j + 1, n) /\ c = SubSeq(s, i, j)
  OBVIOUS
<1>6. a \in Seq(Entries) /\ Len(a) = i - 1 /\ \A x \in 1..i - 1 : a[x] = s[x]
  <2>1. 1 \in 1..n + 1 /\ i - 1 \in 1 - 1..n /\ (i - 1) - 1 + 1 = i - 1 /\ \A x \in 1..i - 1 : x + 1 - 1 = x
    BY <1>4
  <2>2. /\ a \in Seq(Entries) /\ Len(a) = (i - 1) - 1 + 1
        /\ \A x \in 1..(i - 1) - 1 + 1 : a[x] = s[x + 1 - 1]
    BY <1>2, <1>3, <1>5, <2>1, SliceIs
  <2> QED BY <2>1, <2>2
<1>7. b \in Seq(Entries) /\ Len(b) = n - j /\ \A x \in 1..n - j : b[x] = s[x + j]
  <2>1. /\ j + 1 \in 1..n + 1 /\ n \in (j + 1) - 1..n /\ n - (j + 1) + 1 = n - j
        /\ \A x \in 1..n - j : x + (j + 1) - 1 = x + j
    BY <1>4
  <2>2. /\ b \in Seq(Entries) /\ Len(b) = n - (j + 1) + 1
        /\ \A x \in 1..n - (j + 1) + 1 : b[x] = s[x + (j + 1) - 1]
    BY <1>2, <1>3, <1>5, <2>1, SliceIs
  <2> QED BY <2>1, <2>2
<1>8. c \in Seq(Entries) /\ Len(c) = j - i + 1 /\ \A x \in 1..j - i + 1 : c[x] = s[x + i - 1]
  <2>1. i \in 1..n + 1 /\ j \in i - 1..n
    BY <1>4
  <2> QED BY <1>2, <1>3, <1>5, <2>1, SliceIs
<1>9. PICK u : u = a \o b
  OBVIOUS
<1>10. /\ u \in Seq(Entries) /\ Len(u) = Len(a) + Len(b)
       /\ \A x \in 1..Len(a) + Len(b) : u[x] = IF x <= Len(a) THEN a[x] ELSE b[x - Len(a)]
  BY <1>6, <1>7, <1>9, ConcatProperties
<1>11. PICK d : d = j - i + 1
  OBVIOUS
<1>12. Len(u) = n - d /\ Len(a) + Len(b) = n - d /\ d \in Int /\ d \in 1..n /\ n - d \in Nat
  BY <1>4, <1>6, <1>7, <1>10, <1>11
<1>13. PICK t : t = u \o c
  OBVIOUS
<1>14. /\ t \in Seq(Entries) /\ Len(t) = Len(u) + Len(c)
       /\ \A x \in 1..Len(u) + Len(c) : t[x] = IF x <= Len(u) THEN u[x] ELSE c[x - Len(u)]
  <2>1. u \in Seq(Entries) /\ c \in Seq(Entries)
    BY <1>8, <1>10
  <2> QED BY <1>13, <2>1, ConcatProperties
<1>15. Len(t) = n /\ Len(u) + Len(c) = n
  BY <1>4, <1>8, <1>11, <1>12, <1>14
<1>16. ASSUME NEW x \in 1..n
       PROVE  t[x] = IF x < i THEN s[x] ELSE IF x <= n - d THEN s[x + d] ELSE s[x - (n - j)]
  <2>0. x \in Int /\ 1 <= x /\ x <= n /\ i - 1 <= n - d /\ n - d = (n - j) + (i - 1)
    BY <1>4, <1>11
  <2>1. CASE x < i
    <3>1. x <= n - d /\ x <= i - 1 /\ x \in 1..n - d /\ x \in 1..i - 1
      BY <1>4, <1>12, <2>0, <2>1
    <3>2. t[x] = u[x]
      BY <1>12, <1>14, <1>15, <3>1
    <3>3. u[x] = a[x]
      BY <1>6, <1>10, <1>12, <3>1
    <3> QED BY <1>6, <2>1, <3>1, <3>2, <3>3
  <2>2. CASE ~(x < i) /\ x <= n - d
    <3>1. /\ ~(x <= i - 1) /\ x \in 1..n - d /\ x - (i - 1) \in 1..n - j /\ (x - (i - 1)) + j = x + d
      BY <1>4, <1>11, <1>12, <2>0, <2>2
    <3>2. t[x] = u[x]
      BY <1>12, <1>14, <1>15, <2>2
    <3>3. u[x] = b[x - (i - 1)]
      BY <1>6, <1>10, <1>12, <3>1
    <3>4. b[x - (i - 1)] = s[(x - (i - 1)) + j]
      BY <1>7, <3>1
    <3> QED BY <2>2, <3>1, <3>2, <3>3, <3>4
  <2>3. CASE ~(x <= n - d)
    <3>1. ~(x < i) /\ x - (n - d) \in 1..j - i + 1 /\ (x - (n - d)) + i - 1 = x - (n - j)
      BY <1>4, <1>11, <1>12, <2>0, <2>3
    <3>2. t[x] = c[x - (n - d)]
      BY <1>12, <1>14, <1>15, <2>3
    <3>3. c[x - (n - d)] = s[(x - (n - d)) + i - 1]
      BY <1>8, <3>1
    <3> QED BY <2>3, <3>1, <3>2, <3>3
  <2>4. x < i \/ (~(x < i) /\ x <= n - d) \/ ~(x <= n - d)
    OBVIOUS
  <2> QED BY <2>1, <2>2, <2>3, <2>4
<1>17. PICK M : M = With(L, h, t)
  OBVIOUS
<1>18. M \in [Heads -> Seq(Entries)] /\ M[h] = t /\ \A g \in Heads \ {h} : M[g] = L[g]
  BY <1>2, <1>14, <1>17, WithIs
<1>19. BulkOf(L, M, h, i, j)
  BY <1>3, <1>11, <1>15, <1>16, <1>18 DEF BulkOf
<1>20. Shows(BulkMoved(p, h, L[h][i], L[h][j]), M, S)
  <2>1. j \in i..Len(L[h])
    BY <1>3, <1>4
  <2> QED BY <1>2, <1>19, <2>1, BulkMoving
<1> QED BY <1>3, <1>5, <1>9, <1>13, <1>17, <1>20

LEMMA NotEmpty ==
  ASSUME NEW p, NEW L, NEW S, Shows(p, L, S), NEW l \in Heads \ S
  PROVE  /\ p.next[l] = l <=> L[l] = << >>
         /\ p.next[l] = l <=> Len(L[l]) = 0
<1>1. PICK n \in Nat : n = Len(L[l])
  BY CircleIs
<1>2. L[l] \in Seq(Entries)
  BY DEF Shows, Apart
<1>3. L[l] = << >> <=> n = 0
  BY <1>1, <1>2
<1>4. p.next[l] = Nth(L[l], l, 1)
  BY HeadPoints
<1>5. CASE n = 0
  BY <1>1, <1>3, <1>4, <1>5 DEF Nth
<1>6. CASE n # 0
  <2>1. 1 \in 1..n + 1 /\ n + 1 \in 1..n + 1 /\ 1 # n + 1
    BY <1>6
  <2>2. Nth(L[l], l, n + 1) = l /\ \A x, y \in 1..n + 1 : Nth(L[l], l, x) = Nth(L[l], l, y) => x = y
    BY <1>1, CircleIs
  <2>3. Nth(L[l], l, 1) # l
    BY <2>1, <2>2
  <2> QED BY <1>1, <1>3, <1>4, <1>6, <2>3
<1> QED BY <1>5, <1>6

\* M is L, but l has s and h has t.
BothIn(L, M, l, s, h, t) ==
  /\ M \in [Heads -> Seq(Entries)] /\ M[l] = s /\ M[h] = t
  /\ \A g \in Heads \ {h, l} : M[g] = L[g]

LEMMA WithBoth ==
  ASSUME NEW L, L \in [Heads -> Seq(Entries)], NEW h \in Heads, NEW l \in Heads, l # h,
         NEW s \in Seq(Entries), NEW t \in Seq(Entries)
  PROVE  BothIn(L, With(With(L, l, s), h, t), l, s, h, t)
BY DEF With, BothIn

LEMMA SpliceLists ==
  ASSUME NEW L, L \in [Heads -> Seq(Entries)], NEW h \in Heads, NEW l \in Heads, l # h,
         NEW n, n = Len(L[h]), NEW m, m = Len(L[l])
  PROVE  /\ SpliceOf(L, With(With(L, l, << >>), h, L[l] \o L[h]), h, l, n, m, 0)
         /\ SpliceOf(L, With(With(L, l, << >>), h, L[h] \o L[l]), h, l, n, m, n)
<1>1. L[h] \in Seq(Entries) /\ L[l] \in Seq(Entries) /\ n \in Nat /\ m \in Nat /\ << >> \in Seq(Entries)
  <2>1. L[h] \in Seq(Entries) /\ L[l] \in Seq(Entries) /\ << >> \in Seq(Entries)
    OBVIOUS
  <2> QED BY <2>1, LenProperties
<1>2. SpliceOf(L, With(With(L, l, << >>), h, L[l] \o L[h]), h, l, n, m, 0)
  <2>1. PICK s, t : s = L[l] /\ t = L[h]
    OBVIOUS
  <2>2. s \in Seq(Entries) /\ t \in Seq(Entries) /\ Len(s) = m /\ Len(t) = n /\ n \in Nat /\ m \in Nat
    BY <1>1, <2>1
  <2>3. /\ s \o t \in Seq(Entries) /\ Len(s \o t) = Len(s) + Len(t)
        /\ \A i \in 1..Len(s) + Len(t) : (s \o t)[i] = IF i <= Len(s) THEN s[i] ELSE t[i - Len(s)]
    BY <2>2, ConcatProperties
  <2>4. PICK M : M = With(With(L, l, << >>), h, s \o t)
    OBVIOUS
  <2>5. BothIn(L, M, l, << >>, h, s \o t)
    <3>1. s \o t \in Seq(Entries) /\ << >> \in Seq(Entries)
      BY <1>1, <2>3
    <3> QED BY <2>4, <3>1, WithBoth
  <2>8. M \in [Heads -> Seq(Entries)] /\ (\A g \in Heads \ {h, l} : M[g] = L[g]) /\ M[l] = << >> /\ M[h] = s \o t
    BY <2>5 DEF BothIn
  <2>6. Len(M[h]) = n + m
    BY <2>2, <2>3, <2>8
  <2>7. ASSUME NEW j \in 1..n + m
        PROVE  M[h][j] = IF j <= 0 THEN t[j] ELSE IF j <= 0 + m THEN s[j - 0] ELSE t[j - m]
    <3>1. ~(j <= 0) /\ 0 + m = m /\ j - 0 = j /\ j \in 1..m + n
      BY <2>2
    <3> QED BY <2>2, <2>3, <2>8, <3>1
  <2> QED BY <2>1, <2>4, <2>6, <2>7, <2>8 DEF SpliceOf
<1>3. SpliceOf(L, With(With(L, l, << >>), h, L[h] \o L[l]), h, l, n, m, n)
  <2>1. PICK s, t : s = L[l] /\ t = L[h]
    OBVIOUS
  <2>2. s \in Seq(Entries) /\ t \in Seq(Entries) /\ Len(s) = m /\ Len(t) = n /\ n \in Nat /\ m \in Nat
    BY <1>1, <2>1
  <2>3. /\ t \o s \in Seq(Entries) /\ Len(t \o s) = Len(t) + Len(s)
        /\ \A i \in 1..Len(t) + Len(s) : (t \o s)[i] = IF i <= Len(t) THEN t[i] ELSE s[i - Len(t)]
    BY <2>2, ConcatProperties
  <2>4. PICK M : M = With(With(L, l, << >>), h, t \o s)
    OBVIOUS
  <2>5. BothIn(L, M, l, << >>, h, t \o s)
    <3>1. t \o s \in Seq(Entries) /\ << >> \in Seq(Entries)
      BY <1>1, <2>3
    <3> QED BY <2>4, <3>1, WithBoth
  <2>8. M \in [Heads -> Seq(Entries)] /\ (\A g \in Heads \ {h, l} : M[g] = L[g]) /\ M[l] = << >> /\ M[h] = t \o s
    BY <2>5 DEF BothIn
  <2>6. Len(M[h]) = n + m
    BY <2>2, <2>3, <2>8
  <2>7. ASSUME NEW j \in 1..n + m
        PROVE  M[h][j] = IF j <= n THEN t[j] ELSE IF j <= n + m THEN s[j - n] ELSE t[j - m]
    <3>1. j <= n + m
      BY <2>2
    <3> QED BY <2>2, <2>3, <2>8, <3>1
  <2> QED BY <2>1, <2>4, <2>6, <2>7, <2>8 DEF SpliceOf
<1> QED BY <1>2, <1>3

\* What l has comes before or behind what h has.
LEMMA SplicingLists ==
  ASSUME NEW p, NEW L, NEW S, Shows(p, L, S), NEW h \in Heads \ S, NEW l \in Heads \ S, l # h, p.next[l] # l,
         NEW M1, M1 = With(With(L, l, << >>), h, L[l] \o L[h]),
         NEW M2, M2 = With(With(L, l, << >>), h, L[h] \o L[l]),
         NEW q1, q1 = Spliced(p, l, h, p.next[h]),
         NEW q2, q2 = Spliced(p, l, p.prev[h], h)
  PROVE  /\ Shows(q1, M1, S \cup {l}) /\ Shows(Initialized(q1, l), M1, S)
         /\ Shows(q2, M2, S \cup {l}) /\ Shows(Initialized(q2, l), M2, S)
<1>1. L \in [Heads -> Seq(Entries)] /\ h \in Heads /\ l \in Heads /\ S \subseteq Heads
  BY DEF Shows, Apart
<1>2. PICK n \in Nat : n = Len(L[h])
  BY CircleIs
<1>3. PICK m \in Nat : m = Len(L[l])
  BY CircleIs
<1>4. m # 0
  BY <1>3, NotEmpty
<1>5. SpliceOf(L, M1, h, l, n, m, 0) /\ SpliceOf(L, M2, h, l, n, m, n)
  BY <1>1, <1>2, <1>3, SpliceLists
<1>6. Nth(L[h], h, n + 1) = h /\ Nth(L[h], h, 0) = h /\ p.next[h] = Nth(L[h], h, 0 + 1) /\ p.prev[h] = Nth(L[h], h, n)
  BY <1>2, CircleIs, HeadPoints
<1>7. Shows(q1, M1, S \cup {l})
  <2>1. 0 \in 0..n
    OBVIOUS
  <2>2. Shows(Spliced(p, l, Nth(L[h], h, 0), Nth(L[h], h, 0 + 1)), M1, S \cup {l})
    BY <1>4, <1>5, <2>1, Splicing
  <2> QED BY <1>6, <2>2
<1>8. Shows(q2, M2, S \cup {l})
  <2>1. n \in 0..n
    OBVIOUS
  <2>2. Shows(Spliced(p, l, Nth(L[h], h, n), Nth(L[h], h, n + 1)), M2, S \cup {l})
    BY <1>4, <1>5, <2>1, Splicing
  <2> QED BY <1>6, <2>2
<1>9. (S \cup {l}) \ {l} = S /\ M1[l] = << >> /\ M2[l] = << >>
  BY <1>5 DEF SpliceOf
<1>10. Shows(Initialized(q1, l), M1, (S \cup {l}) \ {l}) /\ Shows(Initialized(q2, l), M2, (S \cup {l}) \ {l})
  BY <1>1, <1>7, <1>8, <1>9, Settling
<1> QED BY <1>7, <1>8, <1>9, <1>10

LEMMA CutLists ==
  ASSUME NEW L, L \in [Heads -> Seq(Entries)], NEW h \in Heads, NEW l \in Heads, l # h, L[l] = << >>,
         NEW n \in Nat, n = Len(L[h]), NEW i \in 1..n, NEW s \in Seq(Entries), NEW t \in Seq(Entries),
         Len(s) = i, \A j \in 1..i : s[j] = L[h][j],
         Len(t) = n - i, \A j \in 1..n - i : t[j] = L[h][j + i]
  PROVE  CutOf(L, With(With(L, l, s), h, t), h, l, n, i)
<1>1. PICK M : M = With(With(L, l, s), h, t)
  OBVIOUS
<1>2. BothIn(L, M, l, s, h, t)
  BY <1>1, WithBoth
<1> QED BY <1>1, <1>2 DEF BothIn, CutOf

\* The first of h up to e go to l.
LEMMA CuttingPosition ==
  ASSUME NEW p, NEW L, NEW S, Shows(p, L, S), NEW h \in Heads \ S, NEW l \in Heads \ S, l # h, L[l] = << >>,
         NEW i \in 1..Len(L[h]), NEW e, e = L[h][i]
  PROVE  Shows(Cut(p, l, h, e), With(With(L, l, Upto(L[h], e)), h, After(L[h], e)), S)
<1>1. L \in [Heads -> Seq(Entries)] /\ h \in Heads /\ l \in Heads /\ Apart(L)
  BY DEF Shows, Apart
<1>2. PICK n \in Nat : n = Len(L[h])
  BY CircleIs
<1>3. PICK s, t, u : s = Upto(u, e) /\ t = After(u, e) /\ u = L[h]
  OBVIOUS
<1>4. PlaceOf(u, e) = i /\ u \in Seq(Entries) /\ n = Len(u) /\ i \in 1..n
  BY <1>1, <1>2, <1>3, PlaceIs
<1>5. /\ s \in Seq(Entries) /\ Len(s) = i /\ \A j \in 1..i : s[j] = u[j]
      /\ t \in Seq(Entries) /\ Len(t) = n - i /\ \A j \in 1..n - i : t[j] = u[j + i]
  <2>1. u \in Seq(Entries) /\ n = Len(u) /\ i \in 1..n /\ PlaceOf(u, e) = i
    BY <1>4
  <2>2. /\ Upto(u, e) \in Seq(Entries) /\ Len(Upto(u, e)) = i
        /\ \A j \in 1..i : Upto(u, e)[j] = u[j]
    BY <2>1, UptoIs
  <2>3. /\ After(u, e) \in Seq(Entries) /\ Len(After(u, e)) = n - i
        /\ \A j \in 1..n - i : After(u, e)[j] = u[j + i]
    BY <2>1, AfterIs
  <2> QED BY <1>3, <2>2, <2>3
<1>6. PICK M : M = With(With(L, l, s), h, t)
  OBVIOUS
<1>7. CutOf(L, M, h, l, n, i)
  BY <1>1, <1>3, <1>4, <1>5, <1>6, CutLists
<1>8. Shows(Join(Join(Join(p, l, Nth(L[h], h, 1)), Nth(L[h], h, i), l), h, Nth(L[h], h, i + 1)), M, S)
  BY <1>4, <1>7, Cutting
<1>9. p.next[h] = Nth(L[h], h, 1) /\ e = Nth(L[h], h, i) /\ p.next[e] = Nth(L[h], h, i + 1)
  BY HeadPoints, EntryPoints
<1>10. Cut(p, l, h, e) = Join(Join(Join(p, l, Nth(L[h], h, 1)), Nth(L[h], h, i), l), h, Nth(L[h], h, i + 1))
  BY <1>9 DEF Cut
<1> QED BY <1>3, <1>6, <1>8, <1>10

\* How list_cut_before cuts behind the i-th.
LEMMA CutBeforeIs ==
  ASSUME NEW p, NEW L, NEW S, Shows(p, L, S), NEW h \in Heads \ S, NEW l \in Heads,
         NEW n \in Nat, n = Len(L[h]), NEW i \in 1..n, NEW e, e = Nth(L[h], h, i + 1)
  PROVE  CutBefore(p, l, h, e) = Join(Join(Join(p, l, Nth(L[h], h, 1)), Nth(L[h], h, i), l), h, e)
<1>1. PICK first : first = Nth(L[h], h, 1)
  OBVIOUS
<1>2. 1 \in 1..n + 1 /\ i + 1 \in 1..n + 1 /\ 1 # i + 1 /\ i \in 0..n /\ 1 \in Int /\ i + 1 \in Int
  OBVIOUS
<1>3. /\ \A x \in Int : Nth(L[h], h, x) \in ListHeads
      /\ \A x, y \in 1..n + 1 : Nth(L[h], h, x) = Nth(L[h], h, y) => x = y
      /\ \A x \in 0..n : p.prev[Nth(L[h], h, x + 1)] = Nth(L[h], h, x)
  BY CircleIs
<1>4. first # e /\ e \in ListHeads /\ first \in ListHeads /\ p.prev[e] = Nth(L[h], h, i)
  BY <1>1, <1>2, <1>3
<1>5. p.next[h] = first
  BY <1>1, HeadPoints
<1>6. PICK q : q = Join(p, l, first)
  OBVIOUS
<1>7. Joins(p, q, l, first)
  <2>1. p \in Pointers /\ l \in ListHeads
    BY DEF Shows, ListHeads
  <2> QED BY <1>4, <1>6, <2>1, JoinIs
<1>8. q.prev[e] = Nth(L[h], h, i)
  BY <1>4, <1>7 DEF Joins
<1> QED BY <1>1, <1>4, <1>5, <1>6, <1>8 DEF CutBefore

\* What is in h up to e, without e, goes to l.
LEMMA CuttingBefore ==
  ASSUME NEW p, NEW L, NEW S, Shows(p, L, S), NEW h \in Heads \ S, NEW l \in Heads \ S, l # h, L[l] = << >>,
         NEW i \in 1..Len(L[h]), NEW e, e = L[h][i]
  PROVE  Shows(CutBefore(p, l, h, e), With(With(L, l, Preceding(L[h], e)), h, <<e>> \o After(L[h], e)), S)
<1>1. L \in [Heads -> Seq(Entries)] /\ h \in Heads /\ l \in Heads /\ Apart(L) /\ e \in Entries
  BY HolderIs DEF Shows, Apart
<1>2. PICK n \in Nat : n = Len(L[h])
  BY CircleIs
<1>3. PICK u : u = L[h]
  OBVIOUS
<1>4. PlaceOf(u, e) = i /\ u \in Seq(Entries) /\ n = Len(u) /\ i \in 1..n
  BY <1>1, <1>2, <1>3, PlaceIs
<1>5. i \in Int /\ n \in Int /\ 1 <= i /\ i <= n
  BY <1>4
<1>6. PICK s, a, t : s = Preceding(u, e) /\ a = After(u, e) /\ t = <<e>> \o a
  OBVIOUS
<1>7. /\ s \in Seq(Entries) /\ Len(s) = i - 1 /\ \A j \in 1..i - 1 : s[j] = u[j]
      /\ a \in Seq(Entries) /\ Len(a) = n - i /\ \A j \in 1..n - i : a[j] = u[j + i]
  <2>1. /\ Preceding(u, e) \in Seq(Entries) /\ Len(Preceding(u, e)) = i - 1
        /\ \A j \in 1..i - 1 : Preceding(u, e)[j] = u[j]
    BY <1>4, PrecedingIs
  <2>2. /\ After(u, e) \in Seq(Entries) /\ Len(After(u, e)) = n - i
        /\ \A j \in 1..n - i : After(u, e)[j] = u[j + i]
    BY <1>4, AfterIs
  <2> QED BY <1>6, <2>1, <2>2
<1>8. t \in Seq(Entries) /\ Len(t) = n - i + 1 /\ \A j \in 1..n - i + 1 : t[j] = u[j + (i - 1)]
  <2>1. PICK m \in Nat : m = n - i
    BY <1>5
  <2>2. m = Len(a) /\ a \in Seq(Entries) /\ e \in Entries
    BY <1>1, <1>7, <2>1
  <2>3. t \in Seq(Entries) /\ Len(t) = m + 1 /\ \A j \in 1..m + 1 : t[j] = IF j = 1 THEN e ELSE a[j - 1]
    BY <1>6, <2>2, EndsAre
  <2>4. ASSUME NEW j \in 1..m + 1
        PROVE  t[j] = u[j + (i - 1)]
    <3>1. CASE j = 1
      <4>1. j + (i - 1) = i
        BY <1>5, <3>1
      <4> QED BY <1>3, <2>3, <3>1, <4>1
    <3>2. CASE j # 1
      <4>1. j - 1 \in 1..m /\ (j - 1) + i = j + (i - 1)
        BY <1>5, <3>2
      <4>2. t[j] = a[j - 1]
        BY <2>3, <3>2
      <4>3. a[j - 1] = u[(j - 1) + i]
        BY <1>7, <2>1, <4>1
      <4> QED BY <4>1, <4>2, <4>3
    <3> QED BY <3>1, <3>2
  <2> QED BY <2>1, <2>3, <2>4
<1>9. PICK M : M = With(With(L, l, s), h, t)
  OBVIOUS
<1>10. e = Nth(L[h], h, i) /\ p.next[h] = Nth(L[h], h, 1)
  BY HeadPoints, EntryPoints
<1>11. CASE i = 1
  <2>1. BothIn(L, M, l, s, h, t)
    BY <1>1, <1>7, <1>8, <1>9, WithBoth
  <2>2. s = << >>
    BY <1>7, <1>11
  <2>3. t = u
    <3>1. Len(t) = Len(u) /\ \A j \in 1..Len(t) : t[j] = u[j]
      <4>1. n - i + 1 = n /\ \A j \in 1..n : j + (i - 1) = j
        BY <1>5, <1>11
      <4> QED BY <1>4, <1>8, <4>1
    <3>2. t \in Seq(Entries) /\ u \in Seq(Entries)
      BY <1>4, <1>8
    <3> QED BY <3>1, <3>2, SeqEqual
  <2>4. M = L
    <3>1. \A g \in Heads : M[g] = L[g]
      BY <1>3, <2>1, <2>2, <2>3 DEF BothIn
    <3> QED BY <1>1, <2>1, <3>1 DEF BothIn
  <2>5. CutBefore(p, l, h, e) = Initialized(p, l)
    BY <1>10, <1>11 DEF CutBefore
  <2>6. Shows(Initialized(p, l), L, S \ {l}) /\ S \ {l} = S
    BY Settling
  <2> QED BY <1>3, <1>6, <1>9, <2>4, <2>5, <2>6
<1>12. CASE i # 1
  <2>1. PICK k \in 1..n : k = i - 1
    BY <1>5, <1>12
  <2>2. k + 1 = i /\ n - i + 1 = n - k
    BY <1>5, <2>1
  <2>3. /\ s \in Seq(Entries) /\ Len(s) = k /\ \A j \in 1..k : s[j] = L[h][j]
    BY <1>3, <1>7, <2>1
  <2>4. t \in Seq(Entries) /\ Len(t) = n - k /\ \A j \in 1..n - k : t[j] = L[h][j + k]
    BY <1>3, <1>8, <2>1, <2>2
  <2>5. CutOf(L, M, h, l, n, k)
    BY <1>1, <1>2, <1>9, <2>3, <2>4, CutLists
  <2>6. Shows(Join(Join(Join(p, l, Nth(L[h], h, 1)), Nth(L[h], h, k), l), h, Nth(L[h], h, k + 1)), M, S)
    BY <2>5, Cutting
  <2>7. e = Nth(L[h], h, k + 1)
    BY <1>10, <2>2
  <2>8. CutBefore(p, l, h, e) = Join(Join(Join(p, l, Nth(L[h], h, 1)), Nth(L[h], h, k), l), h, e)
    BY <1>1, <1>2, <2>7, CutBeforeIs
  <2> QED BY <1>3, <1>6, <1>9, <2>6, <2>7, <2>8
<1> QED BY <1>11, <1>12

\* All of h goes to l.
LEMMA CuttingAll ==
  ASSUME NEW p, NEW L, NEW S, Shows(p, L, S), NEW h \in Heads \ S, NEW l \in Heads \ S, l # h, L[l] = << >>
  PROVE  Shows(CutBefore(p, l, h, h), With(With(L, l, L[h]), h, << >>), S)
<1>1. L \in [Heads -> Seq(Entries)] /\ h \in Heads /\ l \in Heads /\ Apart(L)
  BY DEF Shows, Apart
<1>2. PICK n \in Nat : n = Len(L[h])
  BY CircleIs
<1>3. PICK s, t : s = L[h] /\ t = << >>
  OBVIOUS
<1>4. s \in Seq(Entries) /\ t \in Seq(Entries) /\ Len(s) = n /\ Len(t) = 0
  BY <1>1, <1>2, <1>3
<1>5. PICK M : M = With(With(L, l, s), h, t)
  OBVIOUS
<1>6. CASE n = 0
  <2>1. BothIn(L, M, l, s, h, t)
    BY <1>1, <1>4, <1>5, WithBoth
  <2>2. s = << >>
    BY <1>4, <1>6
  <2>3. M = L
    <3>1. \A g \in Heads : M[g] = L[g]
      BY <1>3, <2>1, <2>2 DEF BothIn
    <3> QED BY <1>1, <2>1, <3>1 DEF BothIn
  <2>4. p.next[h] = h
    <3>1. Len(L[h]) = 0
      BY <1>2, <1>6
    <3>2. p.next[h] = h <=> Len(L[h]) = 0
      BY NotEmpty
    <3> QED BY <3>1, <3>2
  <2>5. CutBefore(p, l, h, h) = Initialized(p, l)
    BY <2>4 DEF CutBefore
  <2>6. Shows(Initialized(p, l), L, S \ {l}) /\ S \ {l} = S
    BY Settling
  <2> QED BY <1>3, <1>5, <2>3, <2>5, <2>6
<1>7. CASE n # 0
  <2>1. n \in 1..n /\ n - n = 0
    BY <1>7
  <2>2. CutOf(L, M, h, l, n, n)
    <3>1. Len(t) = n - n /\ \A j \in 1..n - n : t[j] = L[h][j + n]
      BY <1>4, <2>1
    <3>2. \A j \in 1..n : s[j] = L[h][j]
      BY <1>3
    <3> QED BY <1>1, <1>2, <1>4, <1>5, <2>1, <3>1, <3>2, CutLists
  <2>3. Shows(Join(Join(Join(p, l, Nth(L[h], h, 1)), Nth(L[h], h, n), l), h, Nth(L[h], h, n + 1)), M, S)
    BY <2>1, <2>2, Cutting
  <2>4. h = Nth(L[h], h, n + 1)
    BY <1>2, CircleIs
  <2>5. CutBefore(p, l, h, h) = Join(Join(Join(p, l, Nth(L[h], h, 1)), Nth(L[h], h, n), l), h, h)
    BY <1>1, <1>2, <2>1, <2>4, CutBeforeIs
  <2> QED BY <1>3, <1>5, <2>3, <2>4, <2>5
<1> QED BY <1>6, <1>7

Shown == Shows(ptr, lists, stale)

LEMMA InIs ==
  ASSUME Shown, NEW h \in Heads
  PROVE  /\ \A e \in In(h) : \E i \in 1..Len(lists[h]) : e = lists[h][i]
         /\ \A i \in 1..Len(lists[h]) : lists[h][i] \in In(h)
         /\ DOMAIN lists[h] = 1..Len(lists[h])
<1>1. DOMAIN lists[h] = 1..Len(lists[h])
  BY LenProperties DEF Shown, Shows, Apart
<1> QED BY <1>1 DEF In, ToSet

LEMMA FreeIs ==
  ASSUME Shown, NEW e \in FreeEntries
  PROVE  IsFree(lists, e)
BY InIs DEF FreeEntries, IsFree

LEMMA LiveIs == Live = Heads \ stale
BY DEF Live

LEMMA ListAddShows ==
  ASSUME Shown, NEW h \in Live, NEW e \in FreeEntries, ListAdd(e, h) \/ ListAddTail(e, h)
  PROVE  Shown'
<1>1. Shows(ptr, lists, stale) /\ h \in Heads \ stale /\ IsFree(lists, e)
  BY FreeIs, LiveIs DEF Shown
<1>2. CASE ListAdd(e, h)
  <2>1. ptr' = PutAfter(ptr, e, h) /\ lists' = With(lists, h, <<e>> \o lists[h]) /\ stale' = stale
    BY <1>2 DEF ListAdd, Change, Holding, With
  <2>2. Shows(PutAfter(ptr, e, h), With(lists, h, <<e>> \o lists[h]), stale)
    BY <1>1, Adding
  <2> QED BY <2>1, <2>2 DEF Shown
<1>3. CASE ListAddTail(e, h)
  <2>1. ptr' = PutBefore(ptr, e, h) /\ lists' = With(lists, h, Append(lists[h], e)) /\ stale' = stale
    BY <1>3 DEF ListAddTail, Change, Holding, With
  <2>2. Shows(PutBefore(ptr, e, h), With(lists, h, Append(lists[h], e)), stale)
    BY <1>1, AddingLast
  <2> QED BY <2>1, <2>2 DEF Shown
<1> QED BY <1>2, <1>3

LEMMA ListDelShows ==
  ASSUME Shown, NEW h \in Heads, NEW e \in In(h), ListDel(e, h) \/ ListDelInit(e, h)
  PROVE  Shown'
<1>1. PICK i \in 1..Len(lists[h]) : e = lists[h][i]
  BY InIs
<1>2. Shows(ptr, lists, stale)
  BY DEF Shown
<1>3. PICK M : M = With(lists, h, Without(lists[h], e))
  OBVIOUS
<1>4. Shows(Poisoned(Unlink(ptr, e), e), M, stale) /\ Shows(Initialized(Unlink(ptr, e), e), M, stale)
  BY <1>1, <1>2, <1>3, Dropping
<1>5. lists' = M /\ stale' = stale
  BY <1>3 DEF ListDel, ListDelInit, Change, Holding, With
<1>6. ptr' = Poisoned(Unlink(ptr, e), e) \/ ptr' = Initialized(Unlink(ptr, e), e)
  BY DEF ListDel, ListDelInit, Change
<1> QED BY <1>4, <1>5, <1>6 DEF Shown

LEMMA ListReplaceShows ==
  ASSUME Shown, NEW h \in Heads, NEW e \in In(h), NEW new \in FreeEntries,
         ListReplace(e, new, h) \/ ListReplaceInit(e, new, h)
  PROVE  Shown'
<1>1. PICK i \in 1..Len(lists[h]) : e = lists[h][i]
  BY InIs
<1>2. Shows(ptr, lists, stale) /\ IsFree(lists, new)
  BY FreeIs DEF Shown
<1>3. PICK M : M = With(lists, h, Renamed(lists[h], e, new))
  OBVIOUS
<1>4. Shows(PutFor(ptr, e, new), M, stale) /\ Shows(Initialized(PutFor(ptr, e, new), e), M, stale)
  BY <1>1, <1>2, <1>3, Renaming
<1>5. lists' = M /\ stale' = stale
  BY <1>3 DEF ListReplace, ListReplaceInit, Change, Holding, With
<1>6. ptr' = PutFor(ptr, e, new) \/ ptr' = Initialized(PutFor(ptr, e, new), e)
  BY DEF ListReplace, ListReplaceInit, Change
<1> QED BY <1>4, <1>5, <1>6 DEF Shown

LEMMA ListMoveShows ==
  ASSUME Shown, NEW g \in Heads, NEW e \in In(g), NEW h \in Live, ListMove(e, g, h)
  PROVE  Shown'
<1>1. PICK i \in 1..Len(lists[g]) : e = lists[g][i]
  BY InIs
<1>2. Shows(ptr, lists, stale) /\ h \in Heads \ stale
  BY LiveIs DEF Shown
<1>3. PICK M : M = With(lists, g, Without(lists[g], e))
  OBVIOUS
<1>4. /\ Shows(PutAfter(Unlink(ptr, e), e, h), With(M, h, <<e>> \o M[h]), stale)
      /\ Shows(PutBefore(Unlink(ptr, e), e, h), With(M, h, Append(M[h], e)), stale)
  BY <1>1, <1>2, <1>3, Moving
<1>5. M = Holding(g, Without(lists[g], e)) /\ M \in [Heads -> Seq(Entries)] /\ h \in Heads
  <2>1. M = Holding(g, Without(lists[g], e))
    BY <1>3 DEF Holding, With
  <2>2. M \in [Heads -> Seq(Entries)]
    BY <1>1, <1>2, <1>3, Deleting DEF RemovalOf
  <2> QED BY <1>2, <2>1, <2>2
<1>6. /\ [M EXCEPT ![h] = <<e>> \o @] = With(M, h, <<e>> \o M[h])
      /\ [M EXCEPT ![h] = Append(@, e)] = With(M, h, Append(M[h], e))
  BY <1>5 DEF With
<1>7. \/ ptr' = PutAfter(Unlink(ptr, e), e, h) /\ lists' = [M EXCEPT ![h] = <<e>> \o @] /\ stale' = stale
      \/ ptr' = PutBefore(Unlink(ptr, e), e, h) /\ lists' = [M EXCEPT ![h] = Append(@, e)] /\ stale' = stale
  BY <1>5 DEF ListMove, Change
<1> QED BY <1>4, <1>6, <1>7 DEF Shown

LEMMA ListSwapShows ==
  ASSUME Shown, NEW a \in Entries \ FreeEntries, NEW b \in Entries \ FreeEntries, a # b, ListSwap(a, b)
  PROVE  Shown'
<1>1. PICK g \in Heads, h \in Heads : a \in In(g) /\ b \in In(h)
  BY DEF FreeEntries
<1>2. PICK i \in 1..Len(lists[g]) : a = lists[g][i]
  BY <1>1, InIs
<1>3. PICK j \in 1..Len(lists[h]) : b = lists[h][j]
  BY <1>1, InIs
<1>4. PICK M : M = [x \in Heads |-> Renamed(lists[x], a, b)]
  OBVIOUS
<1>5. Shows(ptr, lists, stale)
  BY DEF Shown
<1>6. Shows(Swapped(ptr, a, b), M, stale)
  BY <1>2, <1>3, <1>4, <1>5, Swapping
<1>7. ptr' = Swapped(ptr, a, b) /\ lists' = M /\ stale' = stale
  BY <1>4 DEF ListSwap, Change
<1> QED BY <1>6, <1>7 DEF Shown

LEMMA ListBulkMoveTailShows ==
  ASSUME Shown, NEW h \in Heads, NEW i \in DOMAIN lists[h], NEW j \in DOMAIN lists[h], i <= j,
         ListBulkMoveTail(h, i, j)
  PROVE  Shown'
<1>1. i \in 1..Len(lists[h]) /\ j \in 1..Len(lists[h]) /\ Shows(ptr, lists, stale)
  BY InIs DEF Shown
<1>2. PICK s : s = lists[h]
  OBVIOUS
<1>3. PICK M : M = With(lists, h, SubSeq(s, 1, i - 1) \o SubSeq(s, j + 1, Len(s)) \o SubSeq(s, i, j))
  OBVIOUS
<1>4. Shows(BulkMoved(ptr, h, s[i], s[j]), M, stale)
  BY <1>1, <1>2, <1>3, BulkMovingTail
<1>5. ptr' = BulkMoved(ptr, h, s[i], s[j]) /\ lists' = M /\ stale' = stale
  BY <1>2, <1>3 DEF ListBulkMoveTail, Change, Holding, With
<1> QED BY <1>4, <1>5 DEF Shown

LEMMA ListRotateLeftShows ==
  ASSUME Shown, NEW h \in Live, ListRotateLeft(h)
  PROVE  Shown'
<1>1. Shows(ptr, lists, stale) /\ h \in Heads \ stale /\ ptr.next[h] # h
  BY LiveIs DEF Shown, ListRotateLeft, IsEmpty
<1>2. 1 \in 1..Len(lists[h])
  <2>1. Len(lists[h]) \in Nat /\ Len(lists[h]) # 0
    BY <1>1, CircleIs, NotEmpty
  <2> QED BY <2>1
<1>3. PICK e : e = lists[h][1]
  OBVIOUS
<1>4. PICK M : M = With(lists, h, Append(Tail(lists[h]), Head(lists[h])))
  OBVIOUS
<1>5. Shows(PutBefore(Unlink(ptr, e), e, h), M, stale) /\ ptr.next[h] = e
  BY <1>1, <1>2, <1>3, <1>4, RotatingLeft
<1>6. ptr' = PutBefore(Unlink(ptr, e), e, h) /\ lists' = M /\ stale' = stale
  BY <1>4, <1>5 DEF ListRotateLeft, Change, Holding, With
<1> QED BY <1>5, <1>6 DEF Shown

LEMMA ListRotateToFrontShows ==
  ASSUME Shown, NEW h \in Heads, NEW e \in In(h), ListRotateToFront(e, h)
  PROVE  Shown'
<1>1. PICK i \in 1..Len(lists[h]) : e = lists[h][i]
  BY InIs
<1>2. Shows(ptr, lists, stale)
  BY DEF Shown
<1>3. PICK M : M = With(lists, h, <<e>> \o After(lists[h], e) \o Preceding(lists[h], e))
  OBVIOUS
<1>4. Shows(PutBefore(Unlink(ptr, h), h, e), M, stale)
  BY <1>1, <1>2, <1>3, RotatingToFront
<1>5. ptr' = PutBefore(Unlink(ptr, h), h, e) /\ lists' = M /\ stale' = stale
  BY <1>3 DEF ListRotateToFront, Change, Holding, With
<1> QED BY <1>4, <1>5 DEF Shown

LEMMA ListCutPositionShows ==
  ASSUME Shown, NEW l \in Live, NEW h \in Live, NEW e \in In(h) \cup {h}, l # h, lists[l] = << >>,
         ListCutPosition(l, h, e)
  PROVE  Shown'
<1>1. /\ Shows(ptr, lists, stale) /\ h \in Heads \ stale /\ l \in Heads \ stale
      /\ lists \in [Heads -> Seq(Entries)]
  BY LiveIs DEF Shown, Shows, Apart
<1>2. CASE UNCHANGED kernelVars
  BY <1>1, <1>2 DEF kernelVars, Shown
<1>3. CASE e = h /\ Change(Initialized(ptr, l), Holding(l, << >>))
  <2>1. Holding(l, << >>) = lists
    BY <1>1 DEF Holding
  <2>2. ptr' = Initialized(ptr, l) /\ lists' = lists /\ stale' = stale
    BY <1>3, <2>1 DEF Change
  <2>3. Shows(Initialized(ptr, l), lists, stale \ {l}) /\ stale \ {l} = stale
    BY <1>1, Settling
  <2> QED BY <2>2, <2>3 DEF Shown
<1>4. CASE /\ e # h
           /\ Change(Cut(ptr, l, h, e), [lists EXCEPT ![l] = Upto(lists[h], e), ![h] = After(lists[h], e)])
  <2>1. PICK i \in 1..Len(lists[h]) : e = lists[h][i]
    BY <1>1, <1>4, InIs
  <2>2. PICK s, t : s = Upto(lists[h], e) /\ t = After(lists[h], e)
    OBVIOUS
  <2>3. PICK M : M = With(With(lists, l, s), h, t)
    OBVIOUS
  <2>4. Shows(Cut(ptr, l, h, e), M, stale)
    BY <1>1, <2>1, <2>2, <2>3, CuttingPosition
  <2>5. [lists EXCEPT ![l] = s, ![h] = t] = M
    BY <1>1, <2>3 DEF With
  <2>6. ptr' = Cut(ptr, l, h, e) /\ lists' = M /\ stale' = stale
    BY <1>4, <2>2, <2>5 DEF Change
  <2> QED BY <2>4, <2>6 DEF Shown
<1> QED BY <1>2, <1>3, <1>4 DEF ListCutPosition

LEMMA ListCutBeforeShows ==
  ASSUME Shown, NEW l \in Live, NEW h \in Live, NEW e \in In(h) \cup {h}, l # h, lists[l] = << >>,
         ListCutBefore(l, h, e)
  PROVE  Shown'
<1>1. /\ Shows(ptr, lists, stale) /\ h \in Heads \ stale /\ l \in Heads \ stale
      /\ lists \in [Heads -> Seq(Entries)]
  BY LiveIs DEF Shown, Shows, Apart
<1>2. CASE e = h
  <2>1. PICK s, t : s = lists[h] /\ t = << >>
    OBVIOUS
  <2>2. PICK M : M = With(With(lists, l, s), h, t)
    OBVIOUS
  <2>3. Shows(CutBefore(ptr, l, h, h), M, stale)
    BY <1>1, <2>1, <2>2, CuttingAll
  <2>4. [lists EXCEPT ![l] = s, ![h] = t] = M
    BY <1>1, <2>2 DEF With
  <2>5. ptr' = CutBefore(ptr, l, h, h) /\ lists' = M /\ stale' = stale
    BY <1>2, <2>1, <2>4 DEF ListCutBefore, Change
  <2> QED BY <2>3, <2>5 DEF Shown
<1>3. CASE e # h
  <2>1. PICK i \in 1..Len(lists[h]) : e = lists[h][i]
    BY <1>1, <1>3, InIs
  <2>2. PICK s, t : s = Preceding(lists[h], e) /\ t = <<e>> \o After(lists[h], e)
    OBVIOUS
  <2>3. PICK M : M = With(With(lists, l, s), h, t)
    OBVIOUS
  <2>4. Shows(CutBefore(ptr, l, h, e), M, stale)
    BY <1>1, <2>1, <2>2, <2>3, CuttingBefore
  <2>5. [lists EXCEPT ![l] = s, ![h] = t] = M
    BY <1>1, <2>3 DEF With
  <2>6. ptr' = CutBefore(ptr, l, h, e) /\ lists' = M /\ stale' = stale
    BY <1>3, <2>2, <2>5 DEF ListCutBefore, Change
  <2> QED BY <2>4, <2>6 DEF Shown
<1> QED BY <1>2, <1>3

LEMMA ListSpliceShows ==
  ASSUME Shown, NEW l \in Live, NEW h \in Live, l # h, ListSplice(l, h) \/ ListSpliceInit(l, h)
  PROVE  Shown'
<1>1. /\ Shows(ptr, lists, stale) /\ h \in Heads \ stale /\ l \in Heads \ stale
      /\ lists \in [Heads -> Seq(Entries)] /\ ptr.next[l] # l
  BY LiveIs DEF Shown, Shows, Apart, ListSplice, ListSpliceInit, IsEmpty
<1>2. PICK s1, s2 : s1 = lists[l] \o lists[h] /\ s2 = lists[h] \o lists[l]
  OBVIOUS
<1>3. PICK M1, M2, q1, q2 : /\ M1 = With(With(lists, l, << >>), h, s1)
                            /\ M2 = With(With(lists, l, << >>), h, s2)
                            /\ q1 = SplicedAhead(l, h) /\ q2 = SplicedBehind(l, h)
  OBVIOUS
<1>4. /\ Shows(q1, M1, stale \cup {l}) /\ Shows(Initialized(q1, l), M1, stale)
      /\ Shows(q2, M2, stale \cup {l}) /\ Shows(Initialized(q2, l), M2, stale)
  <2>1. q1 = Spliced(ptr, l, h, ptr.next[h]) /\ q2 = Spliced(ptr, l, ptr.prev[h], h)
    BY <1>3 DEF SplicedAhead, SplicedBehind
  <2> QED BY <1>1, <1>2, <1>3, <2>1, SplicingLists
<1>5. HoldingBoth(l, h, s1) = M1 /\ HoldingBoth(l, h, s2) = M2
  BY <1>1, <1>3 DEF HoldingBoth, With
<1>6. CASE ListSplice(l, h)
  <2>1. /\ stale' = stale \cup {l}
        /\ (ptr' = q1 /\ lists' = M1) \/ (ptr' = q2 /\ lists' = M2)
    BY <1>2, <1>3, <1>5, <1>6 DEF ListSplice
  <2> QED BY <1>4, <2>1 DEF Shown
<1>7. CASE ListSpliceInit(l, h)
  <2>1. /\ stale' = stale
        /\ (ptr' = Initialized(q1, l) /\ lists' = M1) \/ (ptr' = Initialized(q2, l) /\ lists' = M2)
    BY <1>2, <1>3, <1>5, <1>7 DEF ListSpliceInit, Change
  <2> QED BY <1>4, <2>1 DEF Shown
<1> QED BY <1>6, <1>7

LEMMA InitHeadShows ==
  ASSUME Shown, NEW h \in Heads, InitHead(h)
  PROVE  Shown'
<1>1. Shows(ptr, lists, stale) /\ lists[h] = << >>
  BY DEF Shown, Shows, InitHead
<1>2. Shows(Initialized(ptr, h), lists, stale \ {h})
  BY <1>1, Settling
<1> QED BY <1>2 DEF Shown, InitHead

LEMMA KernelInitShows ==
  ASSUME KernelInit
  PROVE  Shown
<1>1. ptr \in Pointers
  BY DEF KernelInit, PointersOf, Pointers, ListHeads
<1>2. Apart(lists) /\ stale \subseteq Heads /\ stale = {} /\ \A h \in Heads : lists[h] = << >>
  BY DEF KernelInit, Apart
<1>3. ASSUME NEW h \in Heads
      PROVE  Holds(ptr, lists[h], h)
  <2>1. lists[h] = << >> /\ h \in ListHeads
    BY <1>2 DEF ListHeads
  <2>2. ptr.next[h] = h /\ ptr.prev[h] = h
    BY <2>1 DEF KernelInit, PointersOf
  <2> QED BY <2>1, <2>2 DEF Holds, Nth, Linked
<1> QED BY <1>1, <1>2, <1>3 DEF Shown, Shows

Dirs == {"next", "prev"}
OneOn(k, dir) == IF dir = "next" THEN k + 1 ELSE k - 1
\* Where a walk over n entries may come to.
Stops(n, dir) == IF dir = "next" THEN 1..n + 1 ELSE 0..n
IsOn(i, k, dir) == IF dir = "next" THEN i >= k ELSE i <= k
Onward(s, k, dir) == {s[i] : i \in {i \in 1..Len(s) : IsOn(i, k, dir)}}

\* No entry is twice in s.
Distinct(s) == s \in Seq(Entries) /\ \A i, j \in 1..Len(s) : s[i] = s[j] => i = j

LEMMA DistinctIs ==
  ASSUME NEW L, Apart(L), NEW h \in Heads
  PROVE  Distinct(L[h]) /\ Len(L[h]) \in Nat
BY LenProperties DEF Apart, Distinct

LEMMA OnwardIs ==
  ASSUME NEW s, Distinct(s), NEW n \in Nat, n = Len(s), NEW dir \in Dirs, NEW k \in 1..n
  PROVE  /\ Onward(s, k, dir) \ {s[k]} = Onward(s, OneOn(k, dir), dir) /\ s[k] \in Onward(s, k, dir)
         /\ OneOn(k, dir) \in Stops(n, dir) /\ k \in Stops(n, dir)
<1>1. s[k] \in Onward(s, k, dir) /\ OneOn(k, dir) \in Stops(n, dir) /\ k \in Stops(n, dir)
  BY DEF Onward, IsOn, OneOn, Stops
<1>2. \A i \in 1..n : IsOn(i, OneOn(k, dir), dir) <=> IsOn(i, k, dir) /\ i # k
  BY DEF IsOn, OneOn, Dirs
<1>3. \A i \in 1..n : s[i] = s[k] => i = k
  BY DEF Distinct
<1>4. Onward(s, k, dir) \ {s[k]} = Onward(s, OneOn(k, dir), dir)
  BY <1>2, <1>3 DEF Onward
<1> QED BY <1>1, <1>4

LEMMA OnwardEnds ==
  ASSUME NEW s, NEW n \in Nat, n = Len(s), NEW dir \in Dirs, NEW k \in Stops(n, dir), k \notin 1..n
  PROVE  Onward(s, k, dir) = {}
<1>1. \A i \in 1..n : ~IsOn(i, k, dir)
  BY DEF IsOn, Stops, Dirs
<1> QED BY <1>1 DEF Onward

\* What is to come when the i-th is gone, to a loop that is there and to one that
\* is at another.
WithoutOne(L, M, h, i, n, dir) ==
  /\ Len(M[h]) = n - 1
  /\ \E k \in Stops(n - 1, dir) :
       /\ Nth(L[h], h, OneOn(i, dir)) = Nth(M[h], h, k)
       /\ Onward(L[h], i, dir) = {L[h][i]} \cup Onward(M[h], k, dir)
  /\ \A k \in 1..n : k # i =>
       \E m \in 1..n - 1 : /\ M[h][m] = L[h][k]
                           /\ Onward(L[h], k, dir) \ {L[h][i]} = Onward(M[h], m, dir)

LEMMA OnwardWithout ==
  ASSUME NEW L, Apart(L), NEW M, NEW h \in Heads, NEW i \in 1..Len(L[h]), RemovalOf(L, M, h, i),
         NEW n \in Nat, n = Len(L[h]), NEW dir \in Dirs
  PROVE  WithoutOne(L, M, h, i, n, dir)
<1> DEFINE s == L[h]
           t == M[h]
<1>1. /\ Len(t) = n - 1
      /\ \A j \in 1..n - 1 : t[j] = IF j < i THEN s[j] ELSE s[j + 1]
  BY DEF RemovalOf
<1>2. \A j, k \in 1..n : s[j] = s[k] => j = k
  BY DEF Apart
<1>3. i \in 1..n /\ i \in Int /\ n \in Int /\ 1 <= i /\ i <= n
  OBVIOUS
<1> HIDE DEF s, t
\* Where an entry of t was, and where one of s will be.
<1>4. \A j \in 1..n - 1 : \E k \in 1..n : t[j] = s[k] /\ k # i /\ k = IF j < i THEN j ELSE j + 1
  <2> SUFFICES ASSUME NEW j \in 1..n - 1
               PROVE  \E k \in 1..n : t[j] = s[k] /\ k # i /\ k = IF j < i THEN j ELSE j + 1
    OBVIOUS
  <2>1. CASE j < i
    <3>1. j \in 1..n /\ j # i
      BY <1>3, <2>1
    <3> QED BY <1>1, <2>1, <3>1
  <2>2. CASE ~(j < i)
    <3>1. j + 1 \in 1..n /\ j + 1 # i
      BY <1>3, <2>2
    <3> QED BY <1>1, <2>2, <3>1
  <2> QED BY <2>1, <2>2
<1>5. \A k \in 1..n : k # i => \E j \in 1..n - 1 : t[j] = s[k] /\ j = IF k < i THEN k ELSE k - 1
  <2> SUFFICES ASSUME NEW k \in 1..n, k # i
               PROVE  \E j \in 1..n - 1 : t[j] = s[k] /\ j = IF k < i THEN k ELSE k - 1
    OBVIOUS
  <2>1. CASE k < i
    <3>1. k \in 1..n - 1
      BY <1>3, <2>1
    <3> QED BY <1>1, <2>1, <3>1
  <2>2. CASE ~(k < i)
    <3>1. k - 1 \in 1..n - 1 /\ ~(k - 1 < i) /\ (k - 1) + 1 = k
      BY <1>3, <2>2
    <3> QED BY <1>1, <2>2, <3>1
  <2> QED BY <2>1, <2>2
<1>7. ASSUME NEW k \in 0..n + 1, NEW m \in 0..n, m = (IF k < i THEN k ELSE IF k = i THEN IF dir = "next" THEN i ELSE i - 1
                                                     ELSE k - 1)
      PROVE  Onward(s, k, dir) \ {s[i]} = Onward(t, m, dir)
  <2>1. ASSUME NEW a \in 1..n, IsOn(a, k, dir), a # i
        PROVE  s[a] \in Onward(t, m, dir)
    <3>1. PICK j \in 1..n - 1 : t[j] = s[a] /\ j = IF a < i THEN a ELSE a - 1
      BY <1>5, <2>1
    <3>2. IsOn(j, m, dir)
      BY <1>3, <1>7, <2>1, <3>1 DEF IsOn
    <3> QED BY <1>1, <3>1, <3>2 DEF Onward
  <2>2. ASSUME NEW j \in 1..n - 1, IsOn(j, m, dir)
        PROVE  t[j] \in Onward(s, k, dir) \ {s[i]}
    <3>1. PICK a \in 1..n : t[j] = s[a] /\ a # i /\ a = IF j < i THEN j ELSE j + 1
      BY <1>4
    <3>2. IsOn(a, k, dir)
      BY <1>3, <1>7, <2>2, <3>1 DEF IsOn
    <3>3. s[a] # s[i]
      BY <1>2, <1>3, <3>1
    <3>4. n = Len(s)
      BY DEF s
    <3> QED BY <3>1, <3>2, <3>3, <3>4 DEF Onward
  <2>3. n = Len(s)
    BY DEF s
  <2>4. \A e \in Onward(s, k, dir) \ {s[i]} : e \in Onward(t, m, dir)
    BY <2>1, <2>3 DEF Onward
  <2>5. \A e \in Onward(t, m, dir) : e \in Onward(s, k, dir) \ {s[i]}
    BY <1>1, <2>2 DEF Onward
  <2> QED BY <2>4, <2>5
<1>8. \E k \in Stops(n - 1, dir) :
        /\ Nth(s, h, OneOn(i, dir)) = Nth(t, h, k)
        /\ Onward(s, i, dir) = {s[i]} \cup Onward(t, k, dir)
  <2>1. PICK k : k = IF dir = "next" THEN i ELSE i - 1
    OBVIOUS
  <2>2. k \in Stops(n - 1, dir) /\ k \in 0..n /\ i \in 0..n + 1
    BY <1>3, <2>1 DEF Stops
  <2>3. Onward(s, i, dir) \ {s[i]} = Onward(t, k, dir)
    BY <1>3, <1>7, <2>1, <2>2
  <2>4. s[i] \in Onward(s, i, dir)
    BY <1>3 DEF Onward, IsOn, s
  <2>5. Nth(s, h, OneOn(i, dir)) = Nth(t, h, k)
    <3>0. Len(s) = n
      BY DEF s
    <3>1. CASE dir = "next"
      <4>1. OneOn(i, dir) = i + 1 /\ k = i
        BY <2>1, <3>1 DEF OneOn
      <4>2. CASE i = n
        <5>1. i + 1 \notin 1..n /\ i \notin 1..n - 1
          BY <1>3, <4>2
        <5> QED BY <1>1, <3>0, <4>1, <5>1 DEF Nth
      <4>3. CASE i # n
        <5>1. i + 1 \in 1..n /\ i \in 1..n - 1 /\ ~(i < i)
          BY <1>3, <4>3
        <5> QED BY <1>1, <3>0, <4>1, <5>1 DEF Nth
      <4> QED BY <4>2, <4>3
    <3>2. CASE dir # "next"
      <4>1. OneOn(i, dir) = i - 1 /\ k = i - 1
        BY <2>1, <3>2 DEF OneOn
      <4>2. CASE i = 1
        <5>1. i - 1 \notin 1..n /\ i - 1 \notin 1..n - 1
          BY <1>3, <4>2
        <5> QED BY <1>1, <3>0, <4>1, <5>1 DEF Nth
      <4>3. CASE i # 1
        <5>1. i - 1 \in 1..n /\ i - 1 \in 1..n - 1 /\ i - 1 < i
          BY <1>3, <4>3
        <5> QED BY <1>1, <3>0, <4>1, <5>1 DEF Nth
      <4> QED BY <4>2, <4>3
    <3> QED BY <3>1, <3>2
  <2> QED BY <2>2, <2>3, <2>4, <2>5
<1>9. ASSUME NEW k \in 1..n, k # i
      PROVE  \E m \in 1..n - 1 : t[m] = s[k] /\ Onward(s, k, dir) \ {s[i]} = Onward(t, m, dir)
  <2>1. PICK m \in 1..n - 1 : t[m] = s[k] /\ m = IF k < i THEN k ELSE k - 1
    BY <1>5, <1>9
  <2>2. k \in 0..n + 1 /\ m \in 0..n
    BY <1>3
  <2>3. Onward(s, k, dir) \ {s[i]} = Onward(t, m, dir)
    BY <1>3, <1>7, <1>9, <2>1, <2>2
  <2> QED BY <2>1, <2>3
<1> QED BY <1>1, <1>8, <1>9 DEF s, t, WithoutOne

Walks == [h : Heads, pos : ListHeads, dir : Dirs, safe : BOOLEAN,
          n : ListHeads \cup {POISON}, due : SUBSET Entries]

\* The walk is at the k-th of s; or it was at one that its body took off, and goes
\* on at the k-th; or it is back at the head.
AtPlace(w, s, k) ==
  /\ k \in 1..Len(s) /\ w.pos = s[k] /\ w.due = Onward(s, k, w.dir)
  /\ w.safe => w.n = Nth(s, w.h, OneOn(k, w.dir))
Gone(w, s, k) ==
  /\ w.safe /\ w.pos \in Entries /\ (\A i \in 1..Len(s) : s[i] # w.pos)
  /\ k \in Stops(Len(s), w.dir)
  /\ w.n = Nth(s, w.h, k) /\ w.due = {w.pos} \cup Onward(s, k, w.dir)
OnItsWay(w, s) ==
  \/ w.pos = w.h /\ w.due = {}
  \/ \E k \in Int : AtPlace(w, s, k)
  \/ \E k \in Int : Gone(w, s, k)

WalkInv == walk = NoWalk \/ (walk \in Walks /\ walk.h \in Live /\ OnItsWay(walk, lists[walk.h]))

\* A pointer followed from a place leads to the one before or after it.
LEMMA Stepping ==
  ASSUME NEW p, NEW L, NEW S, Shows(p, L, S), NEW h \in Heads \ S, NEW dir \in Dirs, NEW n \in Nat, n = Len(L[h])
  PROVE  /\ \A x \in ListHeads : p[dir][x] \in ListHeads \cup {POISON}
         /\ \A k \in 1..n : p[dir][L[h][k]] = Nth(L[h], h, OneOn(k, dir))
         /\ p[dir][h] = Nth(L[h], h, IF dir = "next" THEN 1 ELSE n)
<1>1. p \in Pointers
  BY DEF Shows
<1>2. \A x \in ListHeads : p[dir][x] \in ListHeads \cup {POISON}
  BY <1>1 DEF Pointers, Dirs
<1>3. p["next"] = p.next /\ p["prev"] = p.prev
  BY <1>1 DEF Pointers
<1>4. ASSUME NEW k \in 1..n
      PROVE  p[dir][L[h][k]] = Nth(L[h], h, OneOn(k, dir))
  <2>1. p.next[L[h][k]] = Nth(L[h], h, k + 1) /\ p.prev[L[h][k]] = Nth(L[h], h, k - 1)
    BY EntryPoints
  <2>2. CASE dir = "next"
    BY <1>3, <2>1, <2>2 DEF OneOn
  <2>3. CASE dir # "next"
    <3>1. dir = "prev" /\ OneOn(k, dir) = k - 1
      BY <2>3 DEF Dirs, OneOn
    <3> QED BY <1>3, <2>1, <3>1
  <2> QED BY <2>2, <2>3
<1>5. p[dir][h] = Nth(L[h], h, IF dir = "next" THEN 1 ELSE n)
  <2>1. p.next[h] = Nth(L[h], h, 1) /\ p.prev[h] = Nth(L[h], h, n)
    BY HeadPoints
  <2> QED BY <1>3, <2>1 DEF Dirs
<1> QED BY <1>2, <1>4, <1>5

\* A walk that has come to a place.
LEMMA Arriving ==
  ASSUME NEW s, NEW h \in Heads, NEW w \in Walks, w.h = h, NEW n \in Nat, n = Len(s),
         NEW k \in Stops(n, w.dir), w.pos = Nth(s, h, k), w.due = Onward(s, k, w.dir),
         w.safe /\ k \in 1..n => w.n = Nth(s, h, OneOn(k, w.dir))
  PROVE  OnItsWay(w, s)
<1>1. w.dir \in Dirs /\ k \in Int
  BY DEF Walks, Stops
<1>2. CASE k \in 1..n
  <2>1. w.pos = s[k]
    BY <1>2 DEF Nth
  <2>2. AtPlace(w, s, k)
    BY <1>2, <2>1 DEF AtPlace
  <2> QED BY <1>1, <2>2 DEF OnItsWay
<1>3. CASE k \notin 1..n
  <2>1. w.pos = h /\ w.due = {}
    BY <1>1, <1>3, OnwardEnds DEF Nth
  <2> QED BY <2>1 DEF OnItsWay
<1> QED BY <1>2, <1>3

\* Who is to come to a loop that begins at a place.
LEMMA DueIs ==
  ASSUME NEW s, Distinct(s), NEW n \in Nat, n = Len(s), NEW h \in Heads, NEW dir \in Dirs,
         NEW k \in Stops(n, dir), NEW pos, pos = Nth(s, h, k)
  PROVE  {s[i] : i \in {i \in DOMAIN s : \E j \in DOMAIN s :
                         s[j] = pos /\ IF dir = "next" THEN i >= j ELSE i <= j}} = Onward(s, k, dir)
<1>1. DOMAIN s = 1..n /\ \A i \in 1..n : s[i] \in Entries /\ s[i] # h
  BY LenProperties, ElementOfSeq, KernelAssumption DEF Distinct
<1>2. CASE k \in 1..n
  <2>1. pos = s[k] /\ \A j \in 1..n : s[j] = s[k] => j = k
    BY <1>2 DEF Nth, Distinct
  <2>2. \A i \in 1..n : (\E j \in 1..n : s[j] = pos /\ IF dir = "next" THEN i >= j ELSE i <= j)
                          <=> IsOn(i, k, dir)
    BY <1>2, <2>1 DEF IsOn
  <2> QED BY <1>1, <2>2 DEF Onward
<1>3. CASE k \notin 1..n
  <2>1. pos = h /\ Onward(s, k, dir) = {}
    BY <1>3, OnwardEnds DEF Nth
  <2> QED BY <1>1, <2>1
<1> QED BY <1>2, <1>3

LEMMA WalkFromKeeps ==
  ASSUME Shown, NEW h \in Live, NEW n \in Nat, n = Len(lists[h]), NEW dir \in Dirs, NEW safe \in BOOLEAN,
         NEW k \in Stops(n, dir), NEW pos, pos = Nth(lists[h], h, k), WalkFrom(h, pos, dir, safe)
  PROVE  WalkInv'
<1>1. Shows(ptr, lists, stale) /\ h \in Heads \ stale /\ Apart(lists) /\ h \in Heads
  BY LiveIs DEF Shown, Shows
<1>2. PICK s : s = lists[h]
  OBVIOUS
<1>3. PICK due : due = Onward(s, k, dir)
  OBVIOUS
<1>4. Distinct(s) /\ n = Len(s)
  BY <1>1, <1>2, DistinctIs
<1>5. PICK m : m = IF safe THEN Following(pos, dir) ELSE POISON
  OBVIOUS
<1>6. walk' = [h |-> h, pos |-> pos, dir |-> dir, safe |-> safe, n |-> m, due |-> due]
  <2>1. {s[i] : i \in {i \in DOMAIN s : \E j \in DOMAIN s :
                         s[j] = pos /\ IF dir = "next" THEN i >= j ELSE i <= j}} = due
    BY <1>1, <1>2, <1>3, <1>4, DueIs
  <2> QED BY <1>2, <1>5, <2>1 DEF WalkFrom
<1>7. pos \in ListHeads
  <2>1. k \in Int
    BY DEF Stops
  <2> QED BY <1>1, <2>1, CircleIs
<1>8. m \in ListHeads \cup {POISON}
  BY <1>1, <1>5, <1>7, Stepping DEF Following
<1>9. due \in SUBSET Entries
  <2>1. \A i \in 1..Len(s) : s[i] \in Entries
    BY <1>4, ElementOfSeq DEF Distinct
  <2> QED BY <1>3, <2>1 DEF Onward
<1>10. walk' \in Walks /\ walk'.h = h /\ walk'.pos = pos /\ walk'.dir = dir /\ walk'.safe = safe
       /\ walk'.n = m /\ walk'.due = due
  BY <1>1, <1>6, <1>7, <1>8, <1>9 DEF Walks
<1>11. safe /\ k \in 1..n => m = Nth(s, h, OneOn(k, dir))
  <2> SUFFICES ASSUME safe, k \in 1..n
               PROVE  m = Nth(s, h, OneOn(k, dir))
    OBVIOUS
  <2>1. pos = s[k]
    BY <1>2 DEF Nth
  <2> QED BY <1>1, <1>2, <1>5, <2>1, Stepping DEF Following
<1>12. OnItsWay(walk', s)
  <2>1. PICK w \in Walks : w = walk'
    BY <1>10
  <2>2. /\ w.h = h /\ k \in Stops(n, w.dir) /\ w.pos = Nth(s, h, k) /\ w.due = Onward(s, k, w.dir)
        /\ w.safe /\ k \in 1..n => w.n = Nth(s, h, OneOn(k, w.dir))
    BY <1>2, <1>3, <1>10, <1>11, <2>1
  <2>3. OnItsWay(w, s)
    BY <1>1, <1>4, <2>2, Arriving
  <2> QED BY <2>1, <2>3
<1>13. lists' = lists /\ stale' = stale
  BY DEF WalkFrom
<1>14. walk'.h \in Live' /\ OnItsWay(walk', lists'[walk'.h])
  BY <1>1, <1>2, <1>10, <1>12, <1>13 DEF Live
<1> QED BY <1>10, <1>14 DEF WalkInv

LEMMA WalkStartKeeps ==
  ASSUME Shown, NEW h \in Live, WalkStart(h)
  PROVE  Shown' /\ WalkInv'
<1>1. PICK dir \in Dirs, safe \in BOOLEAN :
        \/ \E p \in In(h) \cup {h} : WalkFrom(h, Following(p, dir), dir, safe)
        \/ \E p \in In(h) : WalkFrom(h, p, dir, safe)
  BY DEF WalkStart, Dirs
<1>2. Shows(ptr, lists, stale) /\ h \in Heads \ stale /\ Apart(lists) /\ h \in Heads
  BY LiveIs DEF Shown, Shows
<1>3. PICK n \in Nat : n = Len(lists[h])
  BY <1>2, CircleIs
<1>4. Shown'
  <2>1. ptr' = ptr /\ lists' = lists /\ stale' = stale
    BY <1>1 DEF WalkFrom
  <2> QED BY <1>2, <2>1 DEF Shown
<1>5. ASSUME NEW k \in Stops(n, dir), WalkFrom(h, Nth(lists[h], h, k), dir, safe)
      PROVE  WalkInv'
  <2>1. PICK pos : pos = Nth(lists[h], h, k)
    OBVIOUS
  <2> QED BY <1>3, <1>5, <2>1, WalkFromKeeps
<1>6. ASSUME NEW p \in In(h)
      PROVE  \E k \in 1..n : /\ p = Nth(lists[h], h, k) /\ Following(p, dir) = Nth(lists[h], h, OneOn(k, dir))
                             /\ k \in Stops(n, dir) /\ OneOn(k, dir) \in Stops(n, dir)
  <2>1. PICK k \in 1..n : p = lists[h][k]
    BY <1>2, <1>3, InIs
  <2>2. Following(p, dir) = Nth(lists[h], h, OneOn(k, dir))
    BY <1>2, <1>3, <2>1, Stepping DEF Following
  <2>3. k \in Stops(n, dir) /\ OneOn(k, dir) \in Stops(n, dir)
    BY DEF Stops, OneOn
  <2>4. p = Nth(lists[h], h, k)
    BY <1>3, <2>1 DEF Nth
  <2> QED BY <2>2, <2>3, <2>4
<1>7. \E k \in Stops(n, dir) : Following(h, dir) = Nth(lists[h], h, k)
  <2>1. Following(h, dir) = Nth(lists[h], h, IF dir = "next" THEN 1 ELSE n)
    BY <1>2, <1>3, Stepping DEF Following
  <2>2. (IF dir = "next" THEN 1 ELSE n) \in Stops(n, dir)
    BY DEF Stops
  <2> QED BY <2>1, <2>2
<1>8. ASSUME NEW p \in In(h) \cup {h}, WalkFrom(h, Following(p, dir), dir, safe)
      PROVE  WalkInv'
  <2>1. PICK k \in Stops(n, dir) : Following(p, dir) = Nth(lists[h], h, k)
    BY <1>6, <1>7
  <2>2. WalkFrom(h, Nth(lists[h], h, k), dir, safe)
    BY <1>8, <2>1
  <2> QED BY <1>5, <2>2
<1>9. ASSUME NEW p \in In(h), WalkFrom(h, p, dir, safe)
      PROVE  WalkInv'
  <2>1. PICK k \in Stops(n, dir) : p = Nth(lists[h], h, k)
    BY <1>6
  <2>2. WalkFrom(h, Nth(lists[h], h, k), dir, safe)
    BY <1>9, <2>1
  <2> QED BY <1>5, <2>2
<1>10. WalkInv'
  BY <1>1, <1>8, <1>9
<1> QED BY <1>4, <1>10

LEMMA WalkIs ==
  ASSUME Shown, WalkInv, Walking
  PROVE  /\ walk \in Walks /\ walk.h \in Live /\ walk.h \in Heads \ stale /\ walk.h \in Heads
         /\ walk.dir \in Dirs /\ walk.pos \in ListHeads /\ walk.safe \in BOOLEAN
         /\ walk.n \in ListHeads \cup {POISON} /\ walk.due \in SUBSET Entries
         /\ OnItsWay(walk, lists[walk.h])
BY LiveIs DEF WalkInv, Walking, Walks

\* The step of the loop brings a walk to its next place, or ends it.
LEMMA WalkOnKeeps ==
  ASSUME Shown, WalkInv, WalkOn
  PROVE  Shown' /\ WalkInv'
<1>1. /\ Walking /\ ptr' = ptr /\ lists' = lists /\ stale' = stale
  BY DEF WalkOn
<1>2. Shown'
  BY <1>1 DEF Shown
<1>3. PICK h, s, dir, pos : h = walk.h /\ s = lists[h] /\ dir = walk.dir /\ pos = NextToWalk
  OBVIOUS
<1>4. /\ walk \in Walks /\ h \in Live /\ h \in Heads \ stale /\ h \in Heads /\ dir \in Dirs
      /\ walk.pos \in ListHeads /\ walk.safe \in BOOLEAN /\ walk.due \in SUBSET Entries
      /\ OnItsWay(walk, s)
  BY <1>1, <1>3, WalkIs
<1>5. Shows(ptr, lists, stale) /\ Apart(lists)
  BY DEF Shown, Shows
<1>6. Distinct(s)
  BY <1>3, <1>4, <1>5, DistinctIs
<1>7. PICK n \in Nat : n = Len(s)
  BY <1>3, <1>4, <1>5, DistinctIs
<1>8. \A i \in 1..n : s[i] \in Entries /\ s[i] # h
  BY <1>4, <1>6, <1>7, ElementOfSeq, KernelAssumption DEF Distinct
<1>9. CASE walk.pos = h
  BY <1>3, <1>2, <1>9 DEF WalkOn, WalkInv
<1>10. CASE walk.pos # h
  <2>1. \E k \in Stops(n, dir) : pos = Nth(s, h, k) /\ walk.due \ {walk.pos} = Onward(s, k, dir)
    <3>1. CASE \E k \in Int : AtPlace(walk, s, k)
      <4>1. PICK k \in 1..n : AtPlace(walk, s, k)
        BY <1>7, <3>1 DEF AtPlace
      <4>2. walk.pos = s[k] /\ walk.due = Onward(s, k, dir) /\ (walk.safe => walk.n = Nth(s, h, OneOn(k, dir)))
        BY <1>3, <4>1 DEF AtPlace
      <4>3. /\ Onward(s, k, dir) \ {s[k]} = Onward(s, OneOn(k, dir), dir)
            /\ OneOn(k, dir) \in Stops(n, dir)
        BY <1>4, <1>6, <1>7, OnwardIs
      <4>4. ptr[dir][s[k]] = Nth(s, h, OneOn(k, dir))
        BY <1>3, <1>4, <1>5, <1>7, Stepping
      <4>5. pos = Nth(s, h, OneOn(k, dir))
        BY <1>3, <1>4, <4>2, <4>4 DEF NextToWalk, Following
      <4> QED BY <4>2, <4>3, <4>5
    <3>2. CASE \E k \in Int : Gone(walk, s, k)
      <4>1. PICK k \in Stops(n, dir) : Gone(walk, s, k)
        BY <1>3, <1>7, <3>2 DEF Gone
      <4>2. /\ walk.safe /\ (\A i \in 1..n : s[i] # walk.pos)
            /\ walk.n = Nth(s, h, k) /\ walk.due = {walk.pos} \cup Onward(s, k, dir)
        BY <1>3, <1>7, <4>1 DEF Gone
      <4>3. walk.pos \notin Onward(s, k, dir)
        BY <1>7, <4>2 DEF Onward
      <4> QED BY <1>3, <4>2, <4>3 DEF NextToWalk
    <3> QED BY <1>3, <1>4, <1>10, <3>1, <3>2 DEF OnItsWay
  <2>2. PICK k \in Stops(n, dir) : pos = Nth(s, h, k) /\ walk.due \ {walk.pos} = Onward(s, k, dir)
    BY <2>1
  <2>3. pos \in ListHeads /\ pos # POISON
    <3>1. k \in Int
      BY DEF Stops
    <3>2. pos \in ListHeads
      BY <1>3, <1>4, <1>5, <2>2, <3>1, CircleIs
    <3> QED BY <3>2, KernelAssumption DEF ListHeads
  <2>4. PICK m : m = IF walk.safe /\ pos # POISON THEN Following(pos, dir) ELSE POISON
    OBVIOUS
  <2>5. m \in ListHeads \cup {POISON}
    BY <1>4, <1>5, <1>7, <1>3, <2>3, <2>4, Stepping DEF Following
  <2>6. walk' = [walk EXCEPT !.pos = pos, !.due = @ \ {walk.pos}, !.n = m]
    BY <1>3, <1>10, <2>4 DEF WalkOn
  <2>7. /\ walk' \in Walks /\ walk'.h = h /\ walk'.pos = pos /\ walk'.dir = dir /\ walk'.safe = walk.safe
        /\ walk'.n = m /\ walk'.due = walk.due \ {walk.pos}
    BY <1>3, <1>4, <2>3, <2>5, <2>6 DEF Walks
  <2>8. walk.safe /\ k \in 1..n => m = Nth(s, h, OneOn(k, dir))
    <3> SUFFICES ASSUME walk.safe, k \in 1..n
                 PROVE  m = Nth(s, h, OneOn(k, dir))
      OBVIOUS
    <3>1. pos = s[k]
      BY <1>7, <2>2 DEF Nth
    <3> QED BY <1>3, <1>4, <1>5, <1>7, <2>3, <2>4, <3>1, Stepping DEF Following
  <2>9. OnItsWay(walk', s)
    <3>1. PICK w \in Walks : w = walk'
      BY <2>7
    <3>2. /\ w.h = h /\ k \in Stops(n, w.dir) /\ w.pos = Nth(s, h, k) /\ w.due = Onward(s, k, w.dir)
          /\ (w.safe /\ k \in 1..n => w.n = Nth(s, h, OneOn(k, w.dir)))
      BY <2>2, <2>7, <2>8, <3>1
    <3>3. OnItsWay(w, s)
      BY <1>4, <1>7, <3>2, Arriving
    <3> QED BY <3>1, <3>3
  <2>10. walk'.h \in Live' /\ OnItsWay(walk', lists'[walk'.h])
    BY <1>1, <1>3, <1>4, <2>7, <2>9 DEF Live
  <2> QED BY <1>2, <2>7, <2>10 DEF WalkInv
<1> QED BY <1>9, <1>10

\* Where a loop is, when it is at an entry of its list.
LEMMA AtEntryIs ==
  ASSUME Shown, WalkInv, AtEntry
  PROVE  \E k \in 1..Len(lists[walk.h]) : AtPlace(walk, lists[walk.h], k)
<1>1. Walking /\ walk.pos \in In(walk.h)
  BY DEF AtEntry
<1>2. walk.h \in Heads /\ OnItsWay(walk, lists[walk.h])
  BY <1>1, WalkIs
<1>3. PICK i \in 1..Len(lists[walk.h]) : walk.pos = lists[walk.h][i]
  BY <1>1, <1>2, InIs
<1>4. walk.pos # walk.h
  BY <1>2, <1>3, NthAre, KernelAssumption DEF Shown, Shows
<1>5. \A k : ~Gone(walk, lists[walk.h], k)
  BY <1>3 DEF Gone
<1> QED BY <1>2, <1>4, <1>5 DEF OnItsWay, AtPlace

\* What its body takes off is not to be met again, and what it meets next is as it was.
LEMMA TakenOff ==
  ASSUME Shown, WalkInv, AtEntry, walk.safe, NEW M, M = With(lists, walk.h, Without(lists[walk.h], walk.pos))
  PROVE  OnItsWay(walk, M[walk.h])
<1>1. PICK h, s, dir : h = walk.h /\ s = lists[h] /\ dir = walk.dir
  OBVIOUS
<1>2. PICK i \in 1..Len(lists[h]) : AtPlace(walk, s, i)
  BY <1>1, AtEntryIs
<1>3. h \in Heads /\ dir \in Dirs /\ walk.pos \in ListHeads
  BY <1>1, WalkIs DEF AtEntry
<1>4. walk.pos = s[i] /\ walk.due = Onward(s, i, dir) /\ walk.n = Nth(s, h, OneOn(i, dir))
  BY <1>1, <1>2 DEF AtPlace
<1>5. Shows(ptr, lists, stale) /\ Apart(lists)
  BY DEF Shown, Shows
<1>6. RemovalOf(lists, M, h, i) /\ IsFree(M, walk.pos)
  BY <1>1, <1>3, <1>4, <1>5, Deleting
<1>7. PICK n \in Nat : n = Len(lists[h])
  BY <1>3, <1>5, DistinctIs
<1>8. /\ Len(M[h]) = n - 1
      /\ \E k \in Stops(n - 1, dir) :
           /\ Nth(lists[h], h, OneOn(i, dir)) = Nth(M[h], h, k)
           /\ Onward(lists[h], i, dir) = {lists[h][i]} \cup Onward(M[h], k, dir)
  <2>1. WithoutOne(lists, M, h, i, n, dir)
    BY <1>3, <1>5, <1>6, <1>7, OnwardWithout
  <2> QED BY <2>1 DEF WithoutOne
<1>9. PICK k \in Stops(n - 1, dir) : walk.n = Nth(M[h], h, k) /\ walk.due = {walk.pos} \cup Onward(M[h], k, dir)
  BY <1>1, <1>4, <1>8
<1>10. walk.pos \in Entries /\ \A j \in 1..Len(M[h]) : M[h][j] # walk.pos
  BY <1>3, <1>6 DEF IsFree
<1>11. k \in Stops(Len(M[h]), walk.dir) /\ k \in Int
  BY <1>1, <1>8 DEF Stops
<1>12. Gone(walk, M[h], k)
  BY <1>1, <1>9, <1>10, <1>11 DEF Gone
<1> QED BY <1>1, <1>11, <1>12 DEF OnItsWay

LEMMA WalkBodyKeeps ==
  ASSUME Shown, WalkInv, WalkBody
  PROVE  Shown' /\ WalkInv'
<1>1. AtEntry /\ walk.safe /\ walk.pos \in In(walk.h)
  BY DEF WalkBody, AtEntry
<1>2. walk \in Walks /\ walk.h \in Live /\ walk.h \in Heads
  BY <1>1, WalkIs DEF AtEntry
<1>3. PICK M : M = With(lists, walk.h, Without(lists[walk.h], walk.pos))
  OBVIOUS
<1>4. OnItsWay(walk, M[walk.h])
  BY <1>1, <1>3, TakenOff
<1>5. Shown' /\ walk' = walk /\ stale' = stale /\ lists'[walk.h] = M[walk.h]
  <2>1. CASE ListDel(walk.pos, walk.h) \/ ListDelInit(walk.pos, walk.h)
    <3>1. Shown'
      BY <1>1, <1>2, <2>1, ListDelShows
    <3>2. walk' = walk /\ stale' = stale /\ lists' = M
      BY <1>3, <2>1 DEF ListDel, ListDelInit, Change, Holding, With
    <3> QED BY <3>1, <3>2
  <2>2. ASSUME NEW h \in Live \ {walk.h}, ListMove(walk.pos, walk.h, h)
        PROVE  Shown' /\ walk' = walk /\ stale' = stale /\ lists'[walk.h] = M[walk.h]
    <3>1. Shown'
      BY <1>1, <1>2, <2>2, ListMoveShows
    <3>2. M = Holding(walk.h, Without(lists[walk.h], walk.pos)) /\ h # walk.h
      BY <1>3 DEF Holding, With
    <3>3. /\ walk' = walk /\ stale' = stale
          /\ \/ lists' = [M EXCEPT ![h] = <<walk.pos>> \o @]
             \/ lists' = [M EXCEPT ![h] = Append(@, walk.pos)]
      BY <2>2, <3>2 DEF ListMove, Change
    <3>4. DOMAIN M = Heads
      BY <1>2, <1>3 DEF With, Shown, Shows, Apart
    <3>5. lists'[walk.h] = M[walk.h]
      BY <1>2, <3>2, <3>3, <3>4
    <3> QED BY <3>1, <3>3, <3>5
  <2> QED BY <2>1, <2>2 DEF WalkBody
<1>6. walk' \in Walks /\ walk'.h \in Live' /\ OnItsWay(walk', lists'[walk'.h])
  BY <1>2, <1>4, <1>5 DEF Live
<1> QED BY <1>5, <1>6 DEF WalkInv

\* Taking out an entry changes the pointers to it only.
LEMMA StillFollowed ==
  ASSUME NEW p, NEW L, NEW S, Shows(p, L, S), NEW h \in Heads \ S, NEW dir \in Dirs,
         NEW i \in 1..Len(L[h]), NEW e, e = L[h][i],
         NEW x \in ListHeads, x # e, p[dir][x] # e
  PROVE  Poisoned(Unlink(p, e), e)[dir][x] = p[dir][x]
<1>1. PICK a, b : a = p.prev[e] /\ b = p.next[e]
  OBVIOUS
<1>0. PICK n \in Nat : n = Len(L[h])
  BY CircleIs
<1>2. \A k \in 0..n : /\ p.next[Nth(L[h], h, k)] = Nth(L[h], h, k + 1)
                      /\ p.prev[Nth(L[h], h, k + 1)] = Nth(L[h], h, k)
  BY <1>0, CircleIs
<1>3. e = Nth(L[h], h, i) /\ a = Nth(L[h], h, i - 1) /\ b = Nth(L[h], h, i + 1)
  BY <1>1, EntryPoints
<1>4. p.next[a] = e /\ p.prev[b] = e
  <2>1. i \in 0..n /\ i - 1 \in 0..n /\ (i - 1) + 1 = i
    BY <1>0
  <2> QED BY <1>2, <1>3, <2>1
<1>5. p \in Pointers /\ h \in Heads /\ Apart(L)
  BY DEF Shows
<1>6. a \in ListHeads /\ b \in ListHeads /\ e \in ListHeads
  BY <1>3, <1>5, NthAre
<1>7. PICK q : q = Join(p, a, b)
  OBVIOUS
<1>8. Joins(p, q, a, b)
  BY <1>5, <1>6, <1>7, JoinIs
<1>9. Unlink(p, e) = q
  BY <1>1, <1>7 DEF Unlink
<1>10. Poisoned(q, e).next[x] = q.next[x] /\ Poisoned(q, e).prev[x] = q.prev[x] /\ Poisoned(q, e) \in Pointers
  BY <1>6, <1>8, PoisonedIs DEF Joins
<1>11. q.next[x] = (IF x = a THEN b ELSE p.next[x]) /\ q.prev[x] = (IF x = b THEN a ELSE p.prev[x])
  BY <1>8 DEF Joins
<1>12. \A r \in Pointers : r["next"] = r.next /\ r["prev"] = r.prev
  BY DEF Pointers
<1>13. CASE dir = "next"
  BY <1>4, <1>5, <1>9, <1>10, <1>11, <1>12, <1>13
<1>14. CASE dir = "prev"
  BY <1>4, <1>5, <1>9, <1>10, <1>11, <1>12, <1>14
<1> QED BY <1>13, <1>14 DEF Dirs

LEMMA WalkDropsKeeps ==
  ASSUME Shown, WalkInv, NEW e \in Entries, WalkDrops(e)
  PROVE  Shown' /\ WalkInv'
<1>1. PICK h, s, dir : h = walk.h /\ s = lists[h] /\ dir = walk.dir
  OBVIOUS
<1>2. AtEntry /\ Walking /\ e \in In(h) /\ e # walk.pos /\ stale' = stale
  BY <1>1 DEF WalkDrops, AtEntry
<1>3. /\ walk \in Walks /\ h \in Live /\ h \in Heads \ stale /\ h \in Heads /\ dir \in Dirs
      /\ walk.pos \in ListHeads /\ walk.safe \in BOOLEAN /\ walk.due \in SUBSET Entries
      /\ walk.n \in ListHeads \cup {POISON}
  BY <1>1, <1>2, WalkIs
<1>4. PICK k \in 1..Len(lists[h]) : AtPlace(walk, s, k)
  BY <1>1, <1>2, AtEntryIs
<1>5. walk.pos = s[k] /\ walk.due = Onward(s, k, dir)
  BY <1>1, <1>4 DEF AtPlace
<1>6. PICK i \in 1..Len(lists[h]) : e = lists[h][i]
  BY <1>2, <1>3, InIs
<1>7. PICK M, q : M = With(lists, h, Without(lists[h], e)) /\ q = Poisoned(Unlink(ptr, e), e)
  OBVIOUS
<1>8. Shows(ptr, lists, stale) /\ Apart(lists)
  BY DEF Shown, Shows
<1>9. Shows(q, M, stale)
  BY <1>3, <1>6, <1>7, <1>8, Dropping
<1>10. ptr' = q /\ lists' = M /\ stale' = stale
  BY <1>1, <1>7 DEF WalkDrops, Holding, With
<1>11. Shown'
  BY <1>9, <1>10 DEF Shown
<1>12. RemovalOf(lists, M, h, i)
  BY <1>3, <1>6, <1>7, <1>8, Deleting
<1>13. PICK n \in Nat : n = Len(lists[h])
  BY <1>3, <1>8, DistinctIs
<1>14. k # i /\ k \in 1..n
  BY <1>1, <1>2, <1>5, <1>6, <1>13
<1>15. /\ Len(M[h]) = n - 1
       /\ \A a \in 1..n : a # i =>
            \E m \in 1..n - 1 : /\ M[h][m] = lists[h][a]
                                /\ Onward(lists[h], a, dir) \ {lists[h][i]} = Onward(M[h], m, dir)
  <2>1. WithoutOne(lists, M, h, i, n, dir)
    BY <1>3, <1>8, <1>12, <1>13, OnwardWithout
  <2> QED BY <2>1 DEF WithoutOne
<1>16. PICK m \in 1..n - 1 : M[h][m] = walk.pos /\ walk.due \ {e} = Onward(M[h], m, dir)
  BY <1>1, <1>5, <1>6, <1>14, <1>15
<1>17. PICK x : /\ walk' = [walk EXCEPT !.due = @ \ {e}, !.n = x]
                /\ \/ dir = "next" /\ x = q.next[walk.pos]
                   \/ x = walk.n /\ e # walk.n
  <2>1. ptr' = q /\ ptr'.next[walk.pos] = q.next[walk.pos]
    BY <1>10
  <2>2. PICK reset \in BOOLEAN :
          /\ reset => walk.safe /\ walk.dir = "next"
          /\ ~reset => e # walk.n
          /\ walk' = [walk EXCEPT !.due = @ \ {e}, !.n = IF reset THEN ptr'.next[walk.pos] ELSE @]
    BY DEF WalkDrops
  <2>3. CASE reset = TRUE
    BY <1>1, <2>1, <2>2, <2>3
  <2>4. CASE reset = FALSE
    <3>1. walk' = [walk EXCEPT !.due = @ \ {e}, !.n = walk.n]
      BY <1>3, <2>2, <2>4 DEF Walks
    <3> QED BY <2>2, <2>4, <3>1
  <2> QED BY <2>3, <2>4
<1>18. n - 1 \in Nat /\ n - 1 = Len(M[h])
  BY <1>13, <1>15, <1>16
<1>19. /\ \A y \in ListHeads : q[dir][y] \in ListHeads \cup {POISON}
       /\ \A j \in 1..n - 1 : q[dir][M[h][j]] = Nth(M[h], h, OneOn(j, dir))
  <2>1. PICK v \in Nat : v = n - 1 /\ v = Len(M[h])
    BY <1>18
  <2>2. /\ \A y \in ListHeads : q[dir][y] \in ListHeads \cup {POISON}
        /\ \A j \in 1..v : q[dir][M[h][j]] = Nth(M[h], h, OneOn(j, dir))
        /\ q[dir][h] = Nth(M[h], h, IF dir = "next" THEN 1 ELSE v)
    BY <1>3, <1>9, <2>1, Stepping
  <2> QED BY <2>1, <2>2
<1>20. x \in ListHeads \cup {POISON} /\ (walk.safe => x = Nth(M[h], h, OneOn(m, dir)))
  <2>1. q[dir][walk.pos] = Nth(M[h], h, OneOn(m, dir))
    BY <1>16, <1>19
  <2>2. CASE dir = "next" /\ x = q.next[walk.pos]
    <3>1. q["next"] = q.next
      BY <1>9 DEF Shows, Pointers
    <3> QED BY <1>3, <1>19, <2>1, <2>2, <3>1
  <2>3. CASE x = walk.n /\ e # walk.n /\ walk.safe
    <3>1. ptr[dir][walk.pos] = walk.n
      <4>1. \A j \in 1..n : ptr[dir][lists[h][j]] = Nth(lists[h], h, OneOn(j, dir))
        BY <1>3, <1>8, <1>13, Stepping
      <4>2. walk.n = Nth(s, h, OneOn(k, dir))
        BY <1>1, <1>4, <2>3 DEF AtPlace
      <4> QED BY <1>1, <1>5, <1>14, <4>1, <4>2
    <3>2. q[dir][walk.pos] = walk.n
      BY <1>2, <1>3, <1>6, <1>7, <1>8, <2>3, <3>1, StillFollowed
    <3> QED BY <1>3, <2>1, <2>3, <3>2
  <2>4. CASE x = walk.n /\ ~walk.safe
    BY <1>3, <2>4
  <2> QED BY <1>17, <2>2, <2>3, <2>4
<1>21. walk' = [walk EXCEPT !.due = @ \ {e}, !.n = x]
  BY <1>17
<1>22. /\ walk' \in Walks /\ walk'.h = h /\ walk'.pos = walk.pos /\ walk'.dir = dir /\ walk'.safe = walk.safe
       /\ walk'.n = x /\ walk'.due = walk.due \ {e}
  BY <1>1, <1>3, <1>20, <1>21 DEF Walks
<1>23. AtPlace(walk', M[h], m)
  BY <1>16, <1>18, <1>20, <1>22 DEF AtPlace
<1>24. OnItsWay(walk', M[h]) /\ walk'.h \in Live'
  BY <1>3, <1>2, <1>22, <1>23 DEF OnItsWay, Live
<1> QED BY <1>10, <1>11, <1>22, <1>24 DEF WalkInv

\* Inductive: the pointers show the lists, and a loop is on its way over its own.
KernelInv == Shown /\ WalkInv

LEMMA EntriesKeep ==
  ASSUME KernelInv, ~Walking, OnEntries
  PROVE  KernelInv'
<1>1. Shown /\ walk = NoWalk
  BY DEF KernelInv, Walking
<1> SUFFICES Shown' /\ walk' = walk
  BY <1>1 DEF KernelInv, WalkInv
<1>2. CASE \E h \in Live, e \in FreeEntries : ListAdd(e, h) \/ ListAddTail(e, h)
  BY <1>1, <1>2, ListAddShows DEF ListAdd, ListAddTail, Change
<1>3. ASSUME NEW h \in Live, NEW e \in In(h), ListDel(e, h) \/ ListDelInit(e, h)
      PROVE  Shown' /\ walk' = walk
  BY <1>1, <1>3, LiveIs, ListDelShows DEF ListDel, ListDelInit, Change
<1>4. ASSUME NEW h \in Live, NEW e \in In(h), NEW new \in FreeEntries,
             ListReplace(e, new, h) \/ ListReplaceInit(e, new, h)
      PROVE  Shown' /\ walk' = walk
  BY <1>1, <1>4, LiveIs, ListReplaceShows DEF ListReplace, ListReplaceInit, Change
<1>5. ASSUME NEW h \in Live, NEW e \in In(h), NEW g \in Live, ListMove(e, h, g)
      PROVE  Shown' /\ walk' = walk
  <2>1. Shown'
    BY <1>1, <1>5, LiveIs, ListMoveShows
  <2> QED BY <1>5, <2>1 DEF ListMove, Change
<1>6. ASSUME NEW h \in Live, NEW e \in In(h), ListRotateToFront(e, h)
      PROVE  Shown' /\ walk' = walk
  BY <1>1, <1>6, LiveIs, ListRotateToFrontShows DEF ListRotateToFront, Change
<1>7. ASSUME NEW a \in Entries \ FreeEntries, NEW b \in Entries \ FreeEntries, a # b, ListSwap(a, b)
      PROVE  Shown' /\ walk' = walk
  BY <1>1, <1>7, ListSwapShows DEF ListSwap, Change
<1> QED BY <1>2, <1>3, <1>4, <1>5, <1>6, <1>7 DEF OnEntries

LEMMA ListsKeep ==
  ASSUME KernelInv, ~Walking, OnLists
  PROVE  KernelInv'
<1>1. Shown /\ walk = NoWalk
  BY DEF KernelInv, Walking
<1>2. Shown' /\ walk' = walk => KernelInv'
  BY <1>1 DEF KernelInv, WalkInv
<1>3. ASSUME NEW h \in Live, NEW i \in DOMAIN lists[h], NEW j \in DOMAIN lists[h], i <= j,
             ListBulkMoveTail(h, i, j)
      PROVE  KernelInv'
  <2>1. Shown'
    BY <1>1, <1>3, LiveIs, ListBulkMoveTailShows
  <2> QED BY <1>2, <1>3, <2>1 DEF ListBulkMoveTail, Change
<1>4. ASSUME NEW h \in Live, ListRotateLeft(h)
      PROVE  KernelInv'
  BY <1>1, <1>2, <1>4, ListRotateLeftShows DEF ListRotateLeft, Change
<1>5. ASSUME NEW h \in Live, WalkStart(h)
      PROVE  KernelInv'
  BY <1>1, <1>5, WalkStartKeeps DEF KernelInv
<1>6. ASSUME NEW l \in Live, NEW h \in Live, l # h, ListSplice(l, h) \/ ListSpliceInit(l, h)
      PROVE  KernelInv'
  BY <1>1, <1>2, <1>6, ListSpliceShows DEF ListSplice, ListSpliceInit, Change
<1>7. ASSUME NEW l \in Live, NEW h \in Live, NEW e \in In(h) \cup {h}, l # h, lists[l] = << >>,
             ListCutPosition(l, h, e)
      PROVE  KernelInv'
  <2>1. Shown'
    BY <1>1, <1>7, ListCutPositionShows
  <2> QED BY <1>2, <1>7, <2>1 DEF ListCutPosition, Change, kernelVars
<1>8. ASSUME NEW l \in Live, NEW h \in Live, NEW e \in In(h) \cup {h}, l # h, lists[l] = << >>,
             ListCutBefore(l, h, e)
      PROVE  KernelInv'
  <2>1. Shown'
    BY <1>1, <1>8, ListCutBeforeShows
  <2> QED BY <1>2, <1>8, <2>1 DEF ListCutBefore, Change
<1>9. ASSUME NEW h \in Heads, InitHead(h)
      PROVE  KernelInv'
  BY <1>1, <1>2, <1>9, InitHeadShows DEF InitHead
<1> QED BY <1>3, <1>4, <1>5, <1>6, <1>7, <1>8, <1>9 DEF OnLists

\* list.h: every operation leaves the circles as the calls say, and every loop on its way.
THEOREM KernelInvariance == KernelSpec => []KernelInv
<1>1. KernelInit => KernelInv
  BY KernelInitShows DEF KernelInv, WalkInv, KernelInit
<1>2. KernelInv /\ [KernelNext]_kernelVars => KernelInv'
  <2> SUFFICES ASSUME KernelInv, [KernelNext]_kernelVars
               PROVE  KernelInv'
    OBVIOUS
  <2>1. CASE ~Walking /\ OnEntries
    BY <2>1, EntriesKeep
  <2>2. CASE ~Walking /\ OnLists
    BY <2>2, ListsKeep
  <2>3. CASE WalkOn
    BY <2>3, WalkOnKeeps DEF KernelInv
  <2>4. CASE WalkBody
    BY <2>4, WalkBodyKeeps DEF KernelInv
  <2>5. CASE \E e \in Entries : WalkDrops(e)
    BY <2>5, WalkDropsKeeps DEF KernelInv
  <2>6. CASE UNCHANGED kernelVars
    <3>1. ptr' = ptr /\ lists' = lists /\ stale' = stale /\ walk' = walk
      BY <2>6 DEF kernelVars
    <3> QED BY <3>1 DEF KernelInv, Shown, WalkInv, Live
  <2> QED BY <2>1, <2>2, <2>3, <2>4, <2>5, <2>6 DEF KernelNext
<1> QED BY <1>1, <1>2, PTL DEF KernelSpec

Closed(s, h) == <<h>> \o s \o <<h>>

LEMMA RingIs ==
  ASSUME NEW s \in Seq(Entries), NEW n \in Nat, n = Len(s), NEW h \in Heads, NEW ring, ring = Closed(s, h)
  PROVE  \A i \in 1..n + 2 : ring[i] = Nth(s, h, i - 1)
<1>1. s \in Seq(ListHeads) /\ h \in ListHeads
  BY DEF ListHeads
<1>2. <<h>> \in Seq(ListHeads) /\ Len(<<h>>) = 1 /\ <<h>>[1] = h
  BY <1>1
<1>3. PICK t : t = <<h>> \o s
  OBVIOUS
<1>4. t \in Seq(ListHeads) /\ Len(t) = n + 1 /\ \A i \in 1..n + 1 : t[i] = IF i <= 1 THEN h ELSE s[i - 1]
  BY <1>1, <1>2, <1>3, ConcatProperties
<1>5. \A i \in 1..n + 2 : ring[i] = IF i <= n + 1 THEN t[i] ELSE h
  BY <1>2, <1>3, <1>4, ConcatProperties DEF Closed
<1> QED BY <1>4, <1>5 DEF Nth

LEMMA TestsFollow ==
  ASSUME Shown, NEW h \in Live
  PROVE  /\ IsEmpty(h) <=> (lists[h] = << >>)
         /\ IsSingular(h) <=> (Len(lists[h]) = 1)
         /\ \A i \in DOMAIN lists[h] :
              /\ IsFirst(lists[h][i], h) <=> (i = 1)
              /\ IsLast(lists[h][i], h) <=> (i = Len(lists[h]))
<1>1. Shows(ptr, lists, stale) /\ h \in Heads \ stale
  BY LiveIs DEF Shown
<1>2. PICK n \in Nat : n = Len(lists[h])
  BY <1>1, CircleIs
<1>3. DOMAIN lists[h] = 1..n
  BY <1>1, <1>2, InIs
<1>4. /\ Nth(lists[h], h, n + 1) = h /\ Nth(lists[h], h, 0) = h
      /\ \A x, y \in 0..n : Nth(lists[h], h, x) = Nth(lists[h], h, y) => x = y
      /\ \A x, y \in 1..n + 1 : Nth(lists[h], h, x) = Nth(lists[h], h, y) => x = y
  BY <1>1, <1>2, CircleIs
<1>5. /\ ptr.next[h] = h <=> lists[h] = << >>
      /\ ptr.next[h] = h <=> n = 0
  BY <1>1, <1>2, NotEmpty
<1>6. ptr.next[h] = Nth(lists[h], h, 1) /\ ptr.prev[h] = Nth(lists[h], h, n)
  BY <1>1, <1>2, HeadPoints
<1>7. IsSingular(h) <=> n = 1
  <2>1. CASE n = 0
    BY <1>5, <2>1 DEF IsSingular, IsEmpty
  <2>2. CASE n # 0
    <3>1. 1 \in 0..n /\ n \in 0..n
      BY <2>2
    <3>2. Nth(lists[h], h, 1) = Nth(lists[h], h, n) <=> n = 1
      BY <1>4, <3>1
    <3> QED BY <1>5, <1>6, <2>2, <3>2 DEF IsSingular, IsEmpty
  <2> QED BY <2>1, <2>2
<1>8. ASSUME NEW i \in 1..n
      PROVE  (ptr.prev[lists[h][i]] = h <=> i = 1) /\ (ptr.next[lists[h][i]] = h <=> i = n)
  <2>1. ptr.next[lists[h][i]] = Nth(lists[h], h, i + 1) /\ ptr.prev[lists[h][i]] = Nth(lists[h], h, i - 1)
    BY <1>1, <1>2, EntryPoints
  <2>2. i - 1 \in 0..n /\ 0 \in 0..n /\ i + 1 \in 1..n + 1 /\ n + 1 \in 1..n + 1
        /\ (i - 1 = 0 <=> i = 1) /\ (i + 1 = n + 1 <=> i = n)
    OBVIOUS
  <2>3. Nth(lists[h], h, i - 1) = Nth(lists[h], h, 0) <=> i = 1
    BY <1>4, <2>2
  <2>4. Nth(lists[h], h, i + 1) = Nth(lists[h], h, n + 1) <=> i = n
    BY <1>4, <2>2
  <2> QED BY <1>4, <2>1, <2>3, <2>4
<1> QED BY <1>2, <1>3, <1>5, <1>7, <1>8 DEF IsEmpty, IsFirst, IsLast

LEMMA WalkFollows ==
  ASSUME KernelInv
  PROVE  WalkMeetsAll
<1> SUFFICES ASSUME Walking
             PROVE  /\ walk.pos \in walk.due \cup {walk.h}
                    /\ walk.pos = walk.h => walk.due = {}
  BY DEF WalkMeetsAll
<1>1. Shown /\ WalkInv
  BY DEF KernelInv
<1>2. PICK h, s : h = walk.h /\ s = lists[h]
  OBVIOUS
<1>3. h \in Heads /\ walk.dir \in Dirs /\ OnItsWay(walk, s)
  BY <1>1, <1>2, WalkIs
<1>4. Distinct(s)
  BY <1>1, <1>2, <1>3, DistinctIs DEF Shown, Shows
<1>5. \A i \in 1..Len(s) : s[i] \in Entries
  BY <1>4, ElementOfSeq DEF Distinct
<1>6. ASSUME NEW k \in Int, AtPlace(walk, s, k)
      PROVE  walk.pos \in walk.due /\ walk.pos \in Entries
  BY <1>5, <1>6 DEF AtPlace, Onward, IsOn
<1>7. ASSUME NEW k \in Int, Gone(walk, s, k)
      PROVE  walk.pos \in walk.due /\ walk.pos \in Entries
  BY <1>7 DEF Gone
<1>8. walk.pos \in Entries => walk.pos # walk.h
  BY <1>2, <1>3, KernelAssumption
<1> QED BY <1>3, <1>6, <1>7, <1>8 DEF OnItsWay

\* The circles, the loops and the tests of list.h are right after every operation.
THEOREM ListsAndWalksAlwaysRight == KernelSpec => []ListsAndWalksAreRight
<1>1. KernelInv => ListsHoldWhatTheyShould
  <2> SUFFICES ASSUME KernelInv, NEW h \in Live, NEW i \in 1..Len(lists[h]) + 1, NEW ring, ring = Closed(lists[h], h)
               PROVE  ptr.next[ring[i]] = ring[i + 1] /\ ptr.prev[ring[i + 1]] = ring[i]
    BY DEF ListsHoldWhatTheyShould, Closed
  <2>0. PICK s : s = lists[h]
    OBVIOUS
  <2>1. Shows(ptr, lists, stale) /\ h \in Heads \ stale
    BY LiveIs DEF KernelInv, Shown
  <2>2. PICK n \in Nat : n = Len(s) /\ n = Len(lists[h])
    BY <2>0, <2>1, CircleIs
  <2>3. s \in Seq(Entries) /\ h \in Heads
    BY <2>0, <2>1 DEF Shows, Apart
  <2>4. \A x \in 1..n + 2 : ring[x] = Nth(s, h, x - 1)
    BY <2>0, <2>2, <2>3, RingIs
  <2>5. i \in 1..n + 2 /\ i + 1 \in 1..n + 2 /\ i - 1 \in 0..n /\ (i - 1) + 1 = i /\ (i + 1) - 1 = i
    BY <2>2
  <2>6. ring[i] = Nth(s, h, i - 1) /\ ring[i + 1] = Nth(s, h, i)
    BY <2>4, <2>5
  <2>7. \A x \in 0..n : /\ ptr.next[Nth(s, h, x)] = Nth(s, h, x + 1)
                        /\ ptr.prev[Nth(s, h, x + 1)] = Nth(s, h, x)
    BY <2>0, <2>1, <2>2, CircleIs
  <2>8. ptr.next[Nth(s, h, i - 1)] = Nth(s, h, i) /\ ptr.prev[Nth(s, h, i)] = Nth(s, h, i - 1)
    BY <2>5, <2>7
  <2> QED BY <2>0, <2>6, <2>8
<1>2. KernelInv => TestsAreTrue
  BY TestsFollow DEF KernelInv, TestsAreTrue
<1>3. KernelInv => ListsAndWalksAreRight
  BY <1>1, <1>2, WalkFollows DEF ListsAndWalksAreRight
<1> QED BY <1>3, KernelInvariance, PTL

-----------------------------------------------------------------------------
(* The doubly linked lists.                                                *)

\* The i-th of s, or NULL.
NodeAt(s, i) == IF i \in 1..Len(s) THEN s[i] ELSE Null

\* From n on, link leads through the nodes of s.
Leads(link, n, s) ==
  s \in Seq(Nodes) /\ n = NodeAt(s, 1) /\ \A i \in 1..Len(s) : link[s[i]] = NodeAt(s, i + 1)

\* Following a link that leads through s gives the nodes of s, then NULL.
LEMMA AlongIs ==
  ASSUME NEW link, NEW n, NEW s, Leads(link, n, s), NEW k \in Nat
  PROVE  Along(link, n, k) = NodeAt(s, k + 1)
<1> DEFINE Walked(w) == w = [i \in 0..k |-> IF i = 0 THEN n
                              ELSE LET m == w[i - 1] IN IF m = Null THEN Null ELSE link[m]]
           f == [i \in 0..k |-> NodeAt(s, i + 1)]
<1>1. Len(s) \in Nat /\ (\A i \in 1..Len(s) : s[i] \in Nodes /\ s[i] # Null /\ link[s[i]] = NodeAt(s, i + 1))
      /\ n = NodeAt(s, 1)
  BY ListAssumption, LenProperties, ElementOfSeq DEF Leads, Nodes
<1>2. ASSUME NEW i \in 0..k, i # 0
      PROVE  i - 1 \in 0..k /\ f[i - 1] = NodeAt(s, i)
             /\ NodeAt(s, i + 1) = IF NodeAt(s, i) = Null THEN Null ELSE link[NodeAt(s, i)]
  BY <1>1, <1>2 DEF NodeAt
<1>3. Walked(f)
  BY <1>1, <1>2
<1>4. ASSUME NEW w, Walked(w)
      PROVE  w = f
  <2>1. \A i \in 0..k : w[i] = f[i]
    <3> SUFFICES ASSUME \E i \in 0..k : w[i] # f[i]
                 PROVE  FALSE
      OBVIOUS
    <3>1. PICK i \in 0..k : w[i] # f[i] /\ \A j \in 0..k : w[j] # f[j] => i <= j
      <4> DEFINE T == {j \in 0..k : w[j] # f[j]}
      <4> HIDE DEF f
      <4>1. T \in SUBSET Nat /\ T # {}
        OBVIOUS
      <4>2. PICK m \in T : \A x \in T : m <= x
        BY <4>1, LeastExists
      <4> QED BY <4>2
    <3>2. w[0] = n /\ f[0] = n
      BY <1>1, <1>4
    <3>3. i # 0
      BY <3>1, <3>2
    <3>4. i - 1 \in 0..k /\ ~(i <= i - 1)
      BY <3>3
    <3>5. w[i - 1] = f[i - 1]
      BY <3>1, <3>4
    <3>6. w[i] = IF w[i - 1] = Null THEN Null ELSE link[w[i - 1]]
      BY <1>4, <3>3
    <3>7. f[i] = NodeAt(s, i + 1)
      OBVIOUS
    <3>8. w[i] = f[i]
      BY <1>2, <3>3, <3>5, <3>6, <3>7
    <3> QED BY <3>1, <3>8
  <2>2. DOMAIN w = 0..k /\ w = [i \in 0..k |-> w[i]]
    BY <1>4
  <2> QED BY <2>1, <2>2
<1> HIDE DEF f
<1>5. (CHOOSE w : Walked(w)) = f
  BY <1>3, <1>4
<1>6. Along(link, n, k) = (CHOOSE w : Walked(w))[k]
  BY DEF Along
<1>7. f[k] = NodeAt(s, k + 1)
  BY DEF f
<1> QED BY <1>5, <1>6, <1>7

LEMMA ChainIs ==
  ASSUME NEW link, NEW n, NEW s, Leads(link, n, s), Len(s) <= MaxNodes
  PROVE  Chain(link, n) = s
<1>1. PICK m \in 0..MaxNodes : m = Len(s)
  BY LenProperties, ListAssumption DEF Leads
<1>2. \A i \in 1..m : s[i] \in Nodes /\ s[i] # Null
  BY <1>1, ElementOfSeq, ListAssumption DEF Leads, Nodes
<1>3. \A k \in Nat : Along(link, n, k) = NodeAt(s, k + 1)
  BY AlongIs
<1> DEFINE K == {k \in 0..MaxNodes : Along(link, n, k) = Null} \cup {MaxNodes}
<1>4. m \in K
  <2>1. Along(link, n, m) = Null
    BY <1>1, <1>3 DEF NodeAt
  <2> QED BY <2>1
<1>5. \A k \in K : m <= k
  <2>1. \A k \in 0..MaxNodes : k < m => Along(link, n, k) # Null
    <3> SUFFICES ASSUME NEW k \in 0..MaxNodes, k < m
                 PROVE  Along(link, n, k) # Null
      OBVIOUS
    <3>1. k \in Nat /\ k + 1 \in 1..m
      BY <1>1
    <3> QED BY <1>1, <1>2, <1>3, <3>1 DEF NodeAt
  <2>2. MaxNodes \in Nat
    BY ListAssumption
  <2> QED BY <1>1, <2>1, <2>2
<1>6. Min(K) = m
  <2>1. K \subseteq Int
    BY ListAssumption
  <2> HIDE DEF K
  <2>2. \A x \in K : (\A y \in K : x <= y) => x = m
    BY <1>4, <1>5, <2>1
  <2> QED BY <1>4, <1>5, <2>2 DEF Min
<1>7. Chain(link, n) = [i \in 1..m |-> Along(link, n, i - 1)]
  BY <1>6 DEF Chain
<1>8. \A i \in 1..m : Along(link, n, i - 1) = s[i]
  BY <1>1, <1>3 DEF NodeAt
<1>9. DOMAIN s = 1..m /\ s = [i \in 1..m |-> s[i]]
  BY <1>1 DEF Leads
<1> QED BY <1>7, <1>8, <1>9

\* No node is twice in s.
OneToOne(s) == s \in Seq(Nodes) /\ \A i, j \in 1..Len(s) : s[i] = s[j] => i = j

LEMMA Counted ==
  ASSUME NEW s, OneToOne(s)
  PROVE  /\ IsFiniteSet(ToSet(s)) /\ Cardinality(ToSet(s)) = Len(s)
         /\ Len(s) \in Nat /\ Len(s) <= MaxNodes
         /\ ToSet(s) = {s[i] : i \in 1..Len(s)} /\ ToSet(s) \subseteq Nodes
<1>1. Len(s) \in Nat /\ DOMAIN s = 1..Len(s) /\ \A i \in 1..Len(s) : s[i] \in Nodes
  BY LenProperties, ElementOfSeq DEF OneToOne
<1>2. ToSet(s) = {s[i] : i \in 1..Len(s)} /\ ToSet(s) \subseteq Nodes
  BY <1>1 DEF ToSet
<1>3. s \in Bijection(1..Len(s), ToSet(s))
  <2>1. s \in [1..Len(s) -> ToSet(s)]
    BY <1>1, <1>2 DEF OneToOne
  <2> QED BY <1>2, <2>1 DEF Bijection, Injection, Surjection, OneToOne, IsInjective
<1>4. IsFiniteSet(Nodes) /\ Cardinality(Nodes) = MaxNodes
  BY FS_Interval, ListAssumption DEF Nodes
<1>5. Cardinality(ToSet(s)) = Len(s)
  BY <1>1, <1>3, FS_CountingElements DEF ExistsBijection
<1>6. IsFiniteSet(ToSet(s)) /\ Cardinality(ToSet(s)) <= Cardinality(Nodes)
  BY <1>2, <1>4, FS_Subset
<1> QED BY <1>1, <1>2, <1>4, <1>5, <1>6

\* The nodes of s are linked in their order, both ways, from head h to tail t.
Strung(nx, pv, h, t, s) ==
  /\ OneToOne(s) /\ h = NodeAt(s, 1) /\ t = NodeAt(s, Len(s))
  /\ \A i \in 1..Len(s) : nx[s[i]] = NodeAt(s, i + 1) /\ pv[s[i]] = NodeAt(s, i - 1)

LEMMA StrungIs ==
  ASSUME NEW nx, NEW pv, NEW h, NEW t, NEW s, Strung(nx, pv, h, t, s)
  PROVE  /\ OneToOne(s) /\ Len(s) \in Nat /\ Len(s) <= MaxNodes
         /\ h = NodeAt(s, 1) /\ t = NodeAt(s, Len(s))
         /\ \A i \in 1..Len(s) : /\ s[i] \in Nodes /\ s[i] # Null /\ NodeAt(s, i) = s[i]
                                 /\ nx[s[i]] = NodeAt(s, i + 1) /\ pv[s[i]] = NodeAt(s, i - 1)
         /\ \A i \in Int : NodeAt(s, i) \in Nodes \cup {Null} /\ (NodeAt(s, i) = Null <=> i \notin 1..Len(s))
<1>1. OneToOne(s)
  BY DEF Strung
<1>2. Len(s) \in Nat /\ Len(s) <= MaxNodes /\ \A i \in 1..Len(s) : s[i] \in Nodes /\ s[i] # Null
  BY <1>1, Counted, ElementOfSeq, ListAssumption DEF Nodes, OneToOne
<1>3. \A i \in Int : NodeAt(s, i) \in Nodes \cup {Null} /\ (NodeAt(s, i) = Null <=> i \notin 1..Len(s))
  BY <1>2 DEF NodeAt
<1>4. \A i \in 1..Len(s) : NodeAt(s, i) = s[i]
  BY DEF NodeAt
<1> QED BY <1>1, <1>2, <1>3, <1>4 DEF Strung

\* Where a walk forwards from the k-th goes, and one backwards.
Rest(s, k) == [i \in 1..Len(s) + 1 - k |-> s[k + i - 1]]
Back(s, k) == [i \in 1..k |-> s[k + 1 - i]]

LEMMA ChainsAre ==
  ASSUME NEW nx, NEW pv, NEW h, NEW t, NEW s, Strung(nx, pv, h, t, s), NEW n \in Nat, n = Len(s)
  PROVE  /\ \A k \in 1..n + 1 : Leads(nx, NodeAt(s, k), Rest(s, k)) /\ Chain(nx, NodeAt(s, k)) = Rest(s, k)
         /\ \A k \in 0..n : Leads(pv, NodeAt(s, k), Back(s, k)) /\ Chain(pv, NodeAt(s, k)) = Back(s, k)
<1>1. /\ n <= MaxNodes /\ MaxNodes \in Nat
      /\ \A i \in 1..n : s[i] \in Nodes /\ nx[s[i]] = NodeAt(s, i + 1) /\ pv[s[i]] = NodeAt(s, i - 1)
  BY StrungIs, ListAssumption
<1>2. ASSUME NEW k \in 1..n + 1
      PROVE  Leads(nx, NodeAt(s, k), Rest(s, k)) /\ Len(Rest(s, k)) <= MaxNodes
  <2>1. PICK r, m : r = Rest(s, k) /\ m = n + 1 - k
    OBVIOUS
  <2>2. m \in Nat /\ \A i \in 1..m : k + i - 1 \in 1..n
    BY <2>1
  <2>3. r = [i \in 1..m |-> s[k + i - 1]]
    BY <2>1 DEF Rest
  <2>4. r \in [1..m -> Nodes]
    BY <1>1, <2>2, <2>3
  <2>5. r \in Seq(Nodes) /\ Len(r) = m /\ \A i \in 1..m : r[i] = s[k + i - 1]
    <3>1. r \in Seq(Nodes) /\ Len(r) = m
      BY <2>2, <2>4
    <3>2. \A i \in 1..m : r[i] = s[k + i - 1]
      BY <2>3
    <3> QED BY <3>1, <3>2
  <2>6. NodeAt(s, k) = NodeAt(r, 1)
    <3>1. CASE k = n + 1
      BY <2>1, <2>5, <3>1 DEF NodeAt
    <3>2. CASE k # n + 1
      <4>1. 1 \in 1..m /\ k \in 1..n /\ k + 1 - 1 = k
        BY <2>1, <3>2
      <4> QED BY <2>5, <4>1 DEF NodeAt
    <3> QED BY <3>1, <3>2
  <2>7. ASSUME NEW i \in 1..m
        PROVE  nx[r[i]] = NodeAt(r, i + 1)
    <3>1. k + i - 1 \in 1..n /\ (k + i - 1) + 1 = k + (i + 1) - 1 /\ (i + 1 \in 1..m <=> (k + i - 1) + 1 \in 1..n)
      BY <2>1, <2>2
    <3>2. nx[r[i]] = NodeAt(s, (k + i - 1) + 1)
      BY <1>1, <2>5, <3>1
    <3> QED BY <2>5, <3>1, <3>2 DEF NodeAt
  <2>8. m <= MaxNodes
    BY <1>1, <2>1
  <2> QED BY <2>1, <2>5, <2>6, <2>7, <2>8 DEF Leads
<1>3. ASSUME NEW k \in 0..n
      PROVE  Leads(pv, NodeAt(s, k), Back(s, k)) /\ Len(Back(s, k)) <= MaxNodes
  <2>1. PICK r : r = Back(s, k)
    OBVIOUS
  <2>2. k \in Nat /\ \A i \in 1..k : k + 1 - i \in 1..n
    OBVIOUS
  <2>3. r = [i \in 1..k |-> s[k + 1 - i]]
    BY <2>1 DEF Back
  <2>4. r \in [1..k -> Nodes]
    BY <1>1, <2>2, <2>3
  <2>5. r \in Seq(Nodes) /\ Len(r) = k /\ \A i \in 1..k : r[i] = s[k + 1 - i]
    BY <2>2, <2>3, <2>4
  <2>6. NodeAt(s, k) = NodeAt(r, 1)
    <3>1. CASE k = 0
      BY <2>5, <3>1 DEF NodeAt
    <3>2. CASE k # 0
      <4>1. 1 \in 1..k /\ k \in 1..n /\ k + 1 - 1 = k
        BY <3>2
      <4> QED BY <2>5, <4>1 DEF NodeAt
    <3> QED BY <3>1, <3>2
  <2>7. ASSUME NEW i \in 1..k
        PROVE  pv[r[i]] = NodeAt(r, i + 1)
    <3>1. k + 1 - i \in 1..n /\ (k + 1 - i) - 1 = k + 1 - (i + 1) /\ (i + 1 \in 1..k <=> (k + 1 - i) - 1 \in 1..n)
      BY <2>2
    <3>2. pv[r[i]] = NodeAt(s, (k + 1 - i) - 1)
      BY <1>1, <2>5, <3>1
    <3> QED BY <2>5, <3>1, <3>2 DEF NodeAt
  <2>8. k <= MaxNodes
    BY <1>1
  <2> QED BY <2>1, <2>5, <2>6, <2>7, <2>8 DEF Leads
<1> QED BY <1>2, <1>3, ChainIs

LEMMA WholeChains ==
  ASSUME NEW nx, NEW pv, NEW h, NEW t, NEW s, Strung(nx, pv, h, t, s)
  PROVE  Chain(nx, h) = s /\ Chain(pv, t) = Reverse(s)
<1>1. PICK n \in Nat : n = Len(s)
  BY StrungIs
<1>2. h = NodeAt(s, 1) /\ t = NodeAt(s, n) /\ 1 \in 1..n + 1 /\ n \in 0..n
  BY <1>1, StrungIs
<1>3. Chain(nx, h) = Rest(s, 1) /\ Chain(pv, t) = Back(s, n)
  BY <1>1, <1>2, ChainsAre
<1>4. Rest(s, 1) = s
  <2>1. s \in Seq(Nodes)
    BY DEF Strung, OneToOne
  <2>2. DOMAIN s = 1..n /\ s = [i \in 1..n |-> s[i]]
    BY <1>1, <2>1
  <2>3. n + 1 - 1 = n /\ \A i \in 1..n : 1 + i - 1 = i
    OBVIOUS
  <2> QED BY <1>1, <2>2, <2>3 DEF Rest
<1>5. Back(s, n) = Reverse(s)
  <2>1. \A i \in 1..n : n + 1 - i = (n - i) + 1
    OBVIOUS
  <2> QED BY <1>1, <2>1 DEF Back, Reverse
<1> QED BY <1>3, <1>4, <1>5

\* r is s with f at place p, and s without its j-th.
LongerBy(s, r, p, f) ==
  /\ r \in Seq(Nodes) /\ Len(r) = Len(s) + 1
  /\ \A i \in 1..Len(s) + 1 : r[i] = IF i < p THEN s[i] ELSE IF i = p THEN f ELSE s[i - 1]
ShorterBy(s, r, j) ==
  /\ r \in Seq(Nodes) /\ Len(r) = Len(s) - 1
  /\ \A i \in 1..Len(s) - 1 : r[i] = IF i < j THEN s[i] ELSE s[i + 1]

LEMMA LongerPlaces ==
  ASSUME NEW s, OneToOne(s), NEW n \in Nat, n = Len(s), NEW p \in 1..n + 1, NEW f \in Nodes, NEW r, LongerBy(s, r, p, f)
  PROVE  /\ r \in Seq(Nodes) /\ Len(r) = n + 1
         /\ \A i \in 0..n + 2 : NodeAt(r, i) = IF i < p THEN NodeAt(s, i) ELSE IF i = p THEN f ELSE NodeAt(s, i - 1)
         /\ (\A i \in 1..n : s[i] # f) => OneToOne(r)
<1>1. /\ r \in Seq(Nodes) /\ Len(r) = n + 1
      /\ \A i \in 1..n + 1 : r[i] = IF i < p THEN s[i] ELSE IF i = p THEN f ELSE s[i - 1]
  BY DEF LongerBy
<1>2. ASSUME NEW i \in 0..n + 2
      PROVE  NodeAt(r, i) = IF i < p THEN NodeAt(s, i) ELSE IF i = p THEN f ELSE NodeAt(s, i - 1)
  <2>1. CASE i \in 1..n + 1
    <3>1. CASE i < p
      <4>1. i \in 1..n
        BY <2>1, <3>1
      <4> QED BY <1>1, <2>1, <3>1, <4>1 DEF NodeAt
    <3>2. CASE i = p
      <4>1. ~(i < p)
        BY <3>2
      <4> QED BY <1>1, <2>1, <3>2, <4>1 DEF NodeAt
    <3>3. CASE i > p
      <4>1. i - 1 \in 1..n /\ ~(i < p) /\ i # p
        BY <2>1, <3>3
      <4> QED BY <1>1, <2>1, <4>1 DEF NodeAt
    <3> QED BY <3>1, <3>2, <3>3
  <2>2. CASE i = 0
    <3>1. i < p /\ i \notin 1..n /\ i \notin 1..n + 1
      BY <2>2
    <3> QED BY <1>1, <3>1 DEF NodeAt
  <2>3. CASE i = n + 2
    <3>1. ~(i < p) /\ i # p /\ i - 1 \notin 1..n /\ i \notin 1..n + 1
      BY <2>3
    <3> QED BY <1>1, <3>1 DEF NodeAt
  <2> QED BY <2>1, <2>2, <2>3
<1>3. ASSUME \A i \in 1..n : s[i] # f, NEW i \in 1..n + 1, NEW j \in 1..n + 1, r[i] = r[j]
      PROVE  i = j
  <2>1. \A a, b \in 1..n : s[a] = s[b] => a = b
    BY DEF OneToOne
  <2>2. \A x \in 1..n + 1 : /\ x < p => x \in 1..n /\ r[x] = s[x]
                            /\ x = p => r[x] = f
                            /\ x > p => x - 1 \in 1..n /\ r[x] = s[x - 1]
    BY <1>1
  <2>3. i \in Int /\ j \in Int /\ p \in Int
    OBVIOUS
  <2>4. CASE i = p
    BY <1>3, <2>2, <2>3, <2>4
  <2>5. CASE j = p
    BY <1>3, <2>2, <2>3, <2>5
  <2>6. CASE i < p /\ j < p
    BY <1>3, <2>1, <2>2, <2>6
  <2>7. CASE i > p /\ j > p
    BY <1>3, <2>1, <2>2, <2>3, <2>7
  <2>8. CASE i < p /\ j > p
    <3>1. s[i] = s[j - 1] /\ i \in 1..n /\ j - 1 \in 1..n
      BY <1>3, <2>2, <2>8
    <3>2. i # j - 1
      BY <2>3, <2>8
    <3> QED BY <2>1, <3>1, <3>2
  <2>9. CASE i > p /\ j < p
    <3>1. s[i - 1] = s[j] /\ i - 1 \in 1..n /\ j \in 1..n
      BY <1>3, <2>2, <2>9
    <3>2. i - 1 # j
      BY <2>3, <2>9
    <3> QED BY <2>1, <3>1, <3>2
  <2> QED BY <2>3, <2>4, <2>5, <2>6, <2>7, <2>8, <2>9
<1> QED BY <1>1, <1>2, <1>3 DEF OneToOne

LEMMA ShorterPlaces ==
  ASSUME NEW s, OneToOne(s), NEW n \in Nat, n = Len(s), NEW j \in 1..n, NEW r, ShorterBy(s, r, j)
  PROVE  /\ r \in Seq(Nodes) /\ Len(r) = n - 1 /\ OneToOne(r)
         /\ \A i \in 0..n : NodeAt(r, i) = IF i < j THEN NodeAt(s, i) ELSE NodeAt(s, i + 1)
<1>1. /\ r \in Seq(Nodes) /\ Len(r) = n - 1
      /\ \A i \in 1..n - 1 : r[i] = IF i < j THEN s[i] ELSE s[i + 1]
  BY DEF ShorterBy
<1>2. ASSUME NEW i \in 0..n
      PROVE  NodeAt(r, i) = IF i < j THEN NodeAt(s, i) ELSE NodeAt(s, i + 1)
  <2>1. CASE i \in 1..n - 1
    <3>1. i \in 1..n /\ i + 1 \in 1..n
      BY <2>1
    <3> QED BY <1>1, <2>1, <3>1 DEF NodeAt
  <2>2. CASE i = 0
    <3>1. i < j /\ i \notin 1..n /\ i \notin 1..n - 1
      BY <2>2
    <3> QED BY <1>1, <3>1 DEF NodeAt
  <2>3. CASE i = n
    <3>1. ~(i < j) /\ i + 1 \notin 1..n /\ i \notin 1..n - 1
      BY <2>3
    <3> QED BY <1>1, <3>1 DEF NodeAt
  <2> QED BY <2>1, <2>2, <2>3
<1>3. ASSUME NEW a \in 1..n - 1, NEW b \in 1..n - 1, r[a] = r[b]
      PROVE  a = b
  <2>1. \A x, y \in 1..n : s[x] = s[y] => x = y
    BY DEF OneToOne
  <2>2. \A x \in 1..n - 1 : /\ x < j => x \in 1..n /\ r[x] = s[x]
                            /\ ~(x < j) => x + 1 \in 1..n /\ r[x] = s[x + 1]
    BY <1>1
  <2>3. a \in Int /\ b \in Int /\ j \in Int
    OBVIOUS
  <2>4. CASE a < j /\ b < j
    BY <1>3, <2>1, <2>2, <2>4
  <2>5. CASE ~(a < j) /\ ~(b < j)
    <3>1. s[a + 1] = s[b + 1] /\ a + 1 \in 1..n /\ b + 1 \in 1..n
      BY <1>3, <2>2, <2>5
    <3>2. a + 1 = b + 1
      BY <2>1, <3>1
    <3> QED BY <2>3, <3>2
  <2>6. CASE a < j /\ ~(b < j)
    <3>1. s[a] = s[b + 1] /\ a \in 1..n /\ b + 1 \in 1..n
      BY <1>3, <2>2, <2>6
    <3>2. a # b + 1
      BY <2>3, <2>6
    <3> QED BY <2>1, <3>1, <3>2
  <2>7. CASE ~(a < j) /\ b < j
    <3>1. s[a + 1] = s[b] /\ a + 1 \in 1..n /\ b \in 1..n
      BY <1>3, <2>2, <2>7
    <3>2. a + 1 # b
      BY <2>3, <2>7
    <3> QED BY <2>1, <3>1, <3>2
  <2> QED BY <2>4, <2>5, <2>6, <2>7
<1> QED BY <1>1, <1>2, <1>3 DEF OneToOne

\* f is linked in as the p-th of s.
Threads(nx, pv, h, t, s, p, f, nx1, pv1, h1, t1) ==
  /\ nx1[f] = NodeAt(s, p) /\ pv1[f] = NodeAt(s, p - 1)
  /\ \A m \in Nodes \ {f} : /\ nx1[m] = IF m = NodeAt(s, p - 1) THEN f ELSE nx[m]
                            /\ pv1[m] = IF m = NodeAt(s, p) THEN f ELSE pv[m]
  /\ h1 = (IF p = 1 THEN f ELSE h) /\ t1 = (IF p = Len(s) + 1 THEN f ELSE t)

LEMMA Threading ==
  ASSUME NEW nx, NEW pv, NEW h, NEW t, NEW s, Strung(nx, pv, h, t, s),
         NEW p \in 1..Len(s) + 1, NEW f \in Nodes, (\A i \in 1..Len(s) : s[i] # f), NEW r, LongerBy(s, r, p, f),
         NEW nx1, NEW pv1, NEW h1, NEW t1, Threads(nx, pv, h, t, s, p, f, nx1, pv1, h1, t1)
  PROVE  Strung(nx1, pv1, h1, t1, r)
<1>1. PICK n \in Nat : n = Len(s)
  BY StrungIs
<1>2. OneToOne(s) /\ p \in 1..n + 1 /\ \A i \in 1..n : s[i] # f
  BY <1>1, StrungIs
<1>3. /\ r \in Seq(Nodes) /\ Len(r) = n + 1 /\ OneToOne(r)
      /\ \A i \in 0..n + 2 : NodeAt(r, i) = IF i < p THEN NodeAt(s, i) ELSE IF i = p THEN f ELSE NodeAt(s, i - 1)
  BY <1>1, <1>2, LongerPlaces
<1>4. /\ h = NodeAt(s, 1) /\ t = NodeAt(s, n)
      /\ \A i \in 1..n : /\ s[i] \in Nodes /\ s[i] # Null /\ NodeAt(s, i) = s[i]
                         /\ nx[s[i]] = NodeAt(s, i + 1) /\ pv[s[i]] = NodeAt(s, i - 1)
  BY <1>1, StrungIs
<1>5. \A i \in 1..n, j \in Int : s[i] = NodeAt(s, j) <=> i = j
  BY <1>1, <1>2, <1>4 DEF NodeAt, OneToOne
<1>6. /\ nx1[f] = NodeAt(s, p) /\ pv1[f] = NodeAt(s, p - 1)
      /\ \A m \in Nodes \ {f} : /\ nx1[m] = IF m = NodeAt(s, p - 1) THEN f ELSE nx[m]
                                /\ pv1[m] = IF m = NodeAt(s, p) THEN f ELSE pv[m]
      /\ h1 = (IF p = 1 THEN f ELSE h) /\ t1 = (IF p = n + 1 THEN f ELSE t)
  BY <1>1 DEF Threads
<1>7. \A i \in 1..n + 1 : NodeAt(r, i) = r[i]
  BY <1>3 DEF NodeAt
<1>8. h1 = NodeAt(r, 1)
  <2>1. 1 \in 0..n + 2 /\ (p = 1 \/ 1 < p)
    BY <1>2
  <2> QED BY <1>3, <1>4, <1>6, <2>1
<1>9. t1 = NodeAt(r, n + 1)
  <2>1. n + 1 \in 0..n + 2 /\ (p = n + 1 \/ (~(n + 1 < p) /\ n + 1 # p /\ (n + 1) - 1 = n))
    BY <1>2
  <2> QED BY <1>3, <1>4, <1>6, <2>1
<1>10. ASSUME NEW i \in 1..n + 1
       PROVE  nx1[r[i]] = NodeAt(r, i + 1) /\ pv1[r[i]] = NodeAt(r, i - 1)
  <2>1. i \in 0..n + 2 /\ i + 1 \in 0..n + 2 /\ i - 1 \in 0..n + 2 /\ (i + 1) - 1 = i /\ (i - 1) + 1 = i
        /\ p - 1 \in Int /\ p \in Int
    BY <1>2
  <2>2. CASE i < p
    <3>1. i \in 1..n /\ i - 1 < p /\ (i = p - 1 <=> i + 1 = p) /\ (i # p - 1 <=> i + 1 < p) /\ i # p
      BY <1>2, <2>2
    <3>2. r[i] = s[i] /\ s[i] \in Nodes \ {f}
      BY <1>2, <1>3, <1>4, <1>7, <2>1, <2>2, <3>1
    <3>3. nx1[s[i]] = (IF i = p - 1 THEN f ELSE NodeAt(s, i + 1)) /\ pv1[s[i]] = NodeAt(s, i - 1)
      BY <1>4, <1>5, <1>6, <2>1, <3>1, <3>2
    <3> QED BY <1>3, <2>1, <3>1, <3>2, <3>3
  <2>3. CASE i = p
    <3>1. r[i] = f /\ i - 1 < p /\ ~(i + 1 < p) /\ i + 1 # p
      BY <1>3, <1>7, <2>1, <2>3
    <3> QED BY <1>3, <1>6, <2>1, <2>3, <3>1
  <2>4. CASE i > p
    <3>1. /\ i - 1 \in 1..n /\ ~(i < p) /\ i # p /\ ~(i + 1 < p) /\ i + 1 # p
          /\ i - 1 # p - 1 /\ (i - 1) - 1 \in Int /\ ~(i - 1 < p)
      BY <1>2, <2>4
    <3>2. r[i] = s[i - 1] /\ s[i - 1] \in Nodes \ {f}
      BY <1>2, <1>3, <1>4, <1>7, <2>1, <3>1
    <3>3. /\ nx1[s[i - 1]] = (IF s[i - 1] = NodeAt(s, p - 1) THEN f ELSE nx[s[i - 1]])
          /\ pv1[s[i - 1]] = (IF s[i - 1] = NodeAt(s, p) THEN f ELSE pv[s[i - 1]])
      BY <1>6, <3>2
    <3>4. /\ s[i - 1] # NodeAt(s, p - 1) /\ (s[i - 1] = NodeAt(s, p) <=> i - 1 = p)
          /\ nx[s[i - 1]] = NodeAt(s, i) /\ pv[s[i - 1]] = NodeAt(s, (i - 1) - 1)
      BY <1>4, <1>5, <2>1, <3>1
    <3> QED BY <1>3, <2>1, <3>1, <3>2, <3>3, <3>4
  <2> QED BY <1>2, <2>2, <2>3, <2>4
<1> QED BY <1>3, <1>8, <1>9, <1>10 DEF Strung

\* The j-th of s is linked out.
Unthreads(nx, pv, h, t, s, j, nx1, pv1, h1, t1) ==
  /\ \A m \in Nodes \ {s[j]} : /\ nx1[m] = IF m = NodeAt(s, j - 1) THEN NodeAt(s, j + 1) ELSE nx[m]
                               /\ pv1[m] = IF m = NodeAt(s, j + 1) THEN NodeAt(s, j - 1) ELSE pv[m]
  /\ h1 = (IF j = 1 THEN NodeAt(s, 2) ELSE h) /\ t1 = (IF j = Len(s) THEN NodeAt(s, Len(s) - 1) ELSE t)

LEMMA Unthreading ==
  ASSUME NEW nx, NEW pv, NEW h, NEW t, NEW s, Strung(nx, pv, h, t, s),
         NEW j \in 1..Len(s), NEW r, ShorterBy(s, r, j),
         NEW nx1, NEW pv1, NEW h1, NEW t1, Unthreads(nx, pv, h, t, s, j, nx1, pv1, h1, t1)
  PROVE  Strung(nx1, pv1, h1, t1, r)
<1>1. PICK n \in Nat : n = Len(s)
  BY StrungIs
<1>2. OneToOne(s) /\ j \in 1..n
  BY <1>1, StrungIs
<1>3. /\ r \in Seq(Nodes) /\ Len(r) = n - 1 /\ OneToOne(r)
      /\ \A i \in 0..n : NodeAt(r, i) = IF i < j THEN NodeAt(s, i) ELSE NodeAt(s, i + 1)
  BY <1>1, <1>2, ShorterPlaces
<1>4. /\ h = NodeAt(s, 1) /\ t = NodeAt(s, n)
      /\ \A i \in 1..n : /\ s[i] \in Nodes /\ s[i] # Null /\ NodeAt(s, i) = s[i]
                         /\ nx[s[i]] = NodeAt(s, i + 1) /\ pv[s[i]] = NodeAt(s, i - 1)
  BY <1>1, StrungIs
<1>5. \A i \in 1..n, x \in Int : s[i] = NodeAt(s, x) <=> i = x
  BY <1>1, <1>2, <1>4 DEF NodeAt, OneToOne
<1>6. /\ \A m \in Nodes \ {s[j]} : /\ nx1[m] = IF m = NodeAt(s, j - 1) THEN NodeAt(s, j + 1) ELSE nx[m]
                                   /\ pv1[m] = IF m = NodeAt(s, j + 1) THEN NodeAt(s, j - 1) ELSE pv[m]
      /\ h1 = (IF j = 1 THEN NodeAt(s, 2) ELSE h) /\ t1 = (IF j = n THEN NodeAt(s, n - 1) ELSE t)
  BY <1>1 DEF Unthreads
<1>7. \A i \in 1..n - 1 : NodeAt(r, i) = r[i]
  BY <1>3 DEF NodeAt
<1>8. h1 = NodeAt(r, 1)
  <2>1. 1 \in 0..n /\ (j # 1 => 1 < j) /\ (j = 1 => ~(1 < j)) /\ 1 + 1 = 2
    BY <1>2
  <2>2. NodeAt(r, 1) = IF 1 < j THEN NodeAt(s, 1) ELSE NodeAt(s, 2)
    BY <1>3, <2>1
  <2> QED BY <1>4, <1>6, <2>1, <2>2
<1>9. t1 = NodeAt(r, n - 1)
  <2>1. n - 1 \in 0..n /\ (j = n => n - 1 < j) /\ (j # n => ~(n - 1 < j)) /\ (n - 1) + 1 = n
    BY <1>2
  <2>2. NodeAt(r, n - 1) = IF n - 1 < j THEN NodeAt(s, n - 1) ELSE NodeAt(s, n)
    BY <1>3, <2>1
  <2> QED BY <1>4, <1>6, <2>1, <2>2
<1>10. ASSUME NEW i \in 1..n - 1
       PROVE  nx1[r[i]] = NodeAt(r, i + 1) /\ pv1[r[i]] = NodeAt(r, i - 1)
  <2>1. i \in 0..n /\ i + 1 \in 0..n /\ i - 1 \in 0..n /\ (i + 1) - 1 = i /\ (i - 1) + 1 = i
        /\ j - 1 \in Int /\ j + 1 \in Int /\ (i + 1) + 1 \in Int /\ i \in 1..n /\ i + 1 \in 1..n
    BY <1>2
  <2>2. CASE i < j
    <3>1. i - 1 < j /\ (i = j - 1 <=> i + 1 = j) /\ (i # j - 1 <=> i + 1 < j) /\ i # j /\ i # j + 1
      BY <1>2, <2>2
    <3>2. r[i] = s[i] /\ s[i] \in Nodes /\ s[i] # s[j]
      <4>1. NodeAt(r, i) = NodeAt(s, i)
        BY <1>3, <2>1, <2>2
      <4>2. s[i] = NodeAt(s, i) /\ s[j] = NodeAt(s, j) /\ s[i] \in Nodes
        BY <1>2, <1>4, <2>1
      <4>3. s[i] # NodeAt(s, j)
        BY <1>2, <1>5, <2>1, <3>1
      <4> QED BY <1>7, <4>1, <4>2, <4>3
    <3>3. nx1[s[i]] = (IF i = j - 1 THEN NodeAt(s, j + 1) ELSE NodeAt(s, i + 1)) /\ pv1[s[i]] = NodeAt(s, i - 1)
      BY <1>4, <1>5, <1>6, <2>1, <3>1, <3>2
    <3>4. NodeAt(r, i + 1) = (IF i + 1 < j THEN NodeAt(s, i + 1) ELSE NodeAt(s, (i + 1) + 1))
          /\ NodeAt(r, i - 1) = NodeAt(s, i - 1)
      BY <1>3, <2>1, <3>1
    <3> QED BY <3>1, <3>2, <3>3, <3>4
  <2>3. CASE ~(i < j)
    <3>1. ~(i + 1 < j) /\ i + 1 # j /\ i + 1 # j - 1 /\ (i + 1 = j + 1 <=> i = j) /\ (i = j => i - 1 < j)
          /\ (i # j => ~(i - 1 < j))
      BY <1>2, <2>3
    <3>2. r[i] = s[i + 1] /\ s[i + 1] \in Nodes /\ s[i + 1] # s[j]
      <4>1. NodeAt(r, i) = NodeAt(s, i + 1)
        BY <1>3, <2>1, <2>3
      <4>2. s[i + 1] = NodeAt(s, i + 1) /\ s[j] = NodeAt(s, j) /\ s[i + 1] \in Nodes
        BY <1>2, <1>4, <2>1
      <4>3. s[i + 1] # NodeAt(s, j)
        BY <1>2, <1>5, <2>1, <3>1
      <4> QED BY <1>7, <4>1, <4>2, <4>3
    <3>3. nx1[s[i + 1]] = NodeAt(s, (i + 1) + 1) /\ pv1[s[i + 1]] = (IF i = j THEN NodeAt(s, j - 1) ELSE NodeAt(s, i))
      <4>1. /\ nx1[s[i + 1]] = IF s[i + 1] = NodeAt(s, j - 1) THEN NodeAt(s, j + 1) ELSE nx[s[i + 1]]
            /\ pv1[s[i + 1]] = IF s[i + 1] = NodeAt(s, j + 1) THEN NodeAt(s, j - 1) ELSE pv[s[i + 1]]
        BY <1>6, <3>2
      <4>2. s[i + 1] # NodeAt(s, j - 1) /\ (s[i + 1] = NodeAt(s, j + 1) <=> i = j)
        BY <1>5, <2>1, <3>1
      <4>3. nx[s[i + 1]] = NodeAt(s, (i + 1) + 1) /\ pv[s[i + 1]] = NodeAt(s, i)
        BY <1>4, <2>1
      <4> QED BY <4>1, <4>2, <4>3
    <3>4. NodeAt(r, i + 1) = NodeAt(s, (i + 1) + 1)
          /\ NodeAt(r, i - 1) = (IF i - 1 < j THEN NodeAt(s, i - 1) ELSE NodeAt(s, i))
      BY <1>3, <2>1, <3>1
    <3> QED BY <3>1, <3>2, <3>3, <3>4
  <2> QED BY <2>2, <2>3
<1> QED BY <1>3, <1>8, <1>9, <1>10 DEF Strung

LEMMA LongerSet ==
  ASSUME NEW s, OneToOne(s), NEW p \in 1..Len(s) + 1, NEW f \in Nodes, NEW r, LongerBy(s, r, p, f)
  PROVE  ToSet(r) = ToSet(s) \cup {f}
<1>1. PICK n \in Nat : n = Len(s)
  BY Counted
<1>2. /\ r \in Seq(Nodes) /\ Len(r) = n + 1 /\ p \in 1..n + 1
      /\ \A i \in 1..n + 1 : r[i] = IF i < p THEN s[i] ELSE IF i = p THEN f ELSE s[i - 1]
  BY <1>1 DEF LongerBy
<1>3. ToSet(s) = {s[i] : i \in 1..n} /\ ToSet(r) = {r[i] : i \in 1..n + 1}
  BY <1>1, <1>2, Counted DEF ToSet
<1>4. \A i \in 1..n + 1 : i = p \/ (i < p /\ i \in 1..n) \/ (~(i < p) /\ i # p /\ i - 1 \in 1..n)
  BY <1>2
<1>5. ToSet(r) \subseteq ToSet(s) \cup {f}
  BY <1>2, <1>3, <1>4
<1>6. f \in ToSet(r)
  <2>1. r[p] = f
    BY <1>2
  <2> QED BY <1>2, <1>3, <2>1
<1>7. ASSUME NEW i \in 1..n
      PROVE  s[i] \in ToSet(r)
  <2>1. CASE i < p
    <3>1. i \in 1..n + 1 /\ r[i] = s[i]
      BY <1>2, <2>1
    <3> QED BY <1>3, <3>1
  <2>2. CASE ~(i < p)
    <3>1. i + 1 \in 1..n + 1 /\ ~(i + 1 < p) /\ i + 1 # p /\ (i + 1) - 1 = i
      BY <1>2, <2>2
    <3>2. r[i + 1] = s[i]
      BY <1>2, <3>1
    <3> QED BY <1>3, <3>1, <3>2
  <2> QED BY <2>1, <2>2
<1>8. ToSet(s) \subseteq ToSet(r)
  BY <1>3, <1>7
<1> QED BY <1>5, <1>6, <1>8

LEMMA ShorterSet ==
  ASSUME NEW s, OneToOne(s), NEW j \in 1..Len(s), NEW r, ShorterBy(s, r, j)
  PROVE  ToSet(r) = ToSet(s) \ {s[j]}
<1>1. PICK n \in Nat : n = Len(s)
  BY Counted
<1>2. /\ r \in Seq(Nodes) /\ Len(r) = n - 1 /\ j \in 1..n
      /\ \A i \in 1..n - 1 : r[i] = IF i < j THEN s[i] ELSE s[i + 1]
  BY <1>1 DEF ShorterBy
<1>3. ToSet(s) = {s[i] : i \in 1..n} /\ ToSet(r) = {r[i] : i \in 1..n - 1}
  BY <1>1, <1>2, Counted DEF ToSet
<1>4. \A a, b \in 1..n : s[a] = s[b] => a = b
  BY <1>1 DEF OneToOne
<1>5. ASSUME NEW i \in 1..n - 1
      PROVE  r[i] \in ToSet(s) \ {s[j]}
  <2>1. i \in 1..n /\ i + 1 \in 1..n /\ (i < j => i # j) /\ (~(i < j) => i + 1 # j)
    BY <1>2
  <2> QED BY <1>2, <1>3, <1>4, <2>1
<1>6. ASSUME NEW i \in 1..n, i # j
      PROVE  s[i] \in ToSet(r)
  <2>1. CASE i < j
    <3>1. i \in 1..n - 1 /\ r[i] = s[i]
      BY <1>2, <2>1
    <3> QED BY <1>3, <3>1
  <2>2. CASE ~(i < j)
    <3>1. i - 1 \in 1..n - 1 /\ ~(i - 1 < j) /\ (i - 1) + 1 = i
      BY <1>2, <1>6, <2>2
    <3>2. r[i - 1] = s[i]
      BY <1>2, <3>1
    <3> QED BY <1>3, <3>1, <3>2
  <2> QED BY <2>1, <2>2
<1> QED BY <1>3, <1>5, <1>6

\* A list whose nodes were not written is as it was.
LEMMA StrungStill ==
  ASSUME NEW nx, NEW pv, NEW h, NEW t, NEW s, Strung(nx, pv, h, t, s), NEW nx1, NEW pv1,
         \A m \in ToSet(s) : nx1[m] = nx[m] /\ pv1[m] = pv[m]
  PROVE  Strung(nx1, pv1, h, t, s)
<1>1. OneToOne(s)
  BY DEF Strung
<1>2. ToSet(s) = {s[i] : i \in 1..Len(s)}
  BY <1>1, Counted
<1>3. \A i \in 1..Len(s) : nx1[s[i]] = nx[s[i]] /\ pv1[s[i]] = pv[s[i]]
  BY <1>2
<1> QED BY <1>3 DEF Strung

LEMMA StrungEmpty ==
  ASSUME NEW nx, NEW pv
  PROVE  Strung(nx, pv, Null, Null, << >>)
BY DEF Strung, OneToOne, NodeAt

-----------------------------------------------------------------------------
(* The iterator.                                                           *)

IterDirs == {"head", "tail"}
IsAhead(i, k, dir) == IF dir = "head" THEN i >= k ELSE i <= k
IterStops(n, dir) == IF dir = "head" THEN 1..n + 1 ELSE 0..n

\* An iterator that comes to the k-th of s next: of the nodes it watches, those from
\* there on are left, and the one it returned last is not among them.
ComesTo(it, cur, wat, lef, s, k) ==
  /\ it \in [next : Nodes \cup {Null}, direction : IterDirs]
  /\ k \in IterStops(Len(s), it.direction) /\ it.next = NodeAt(s, k)
  /\ wat \subseteq ToSet(s) /\ lef \subseteq wat
  /\ \A i \in 1..Len(s) : s[i] \in wat => (s[i] \in lef <=> IsAhead(i, k, it.direction))
  /\ cur # Null => \E i \in 1..Len(s) : cur = s[i] /\ ~IsAhead(i, k, it.direction)

Watches(it, cur, wat, lef, s) ==
  \/ it = NoIter /\ cur = Null /\ wat = {} /\ lef = {}
  \/ \E k \in Int : ComesTo(it, cur, wat, lef, s, k)

\* It goes on as before when a node is put anywhere into the list,
LEMMA WatchesLonger ==
  ASSUME NEW it, NEW cur, NEW wat, NEW lef, NEW s, OneToOne(s), Watches(it, cur, wat, lef, s),
         NEW p \in 1..Len(s) + 1, NEW f \in Nodes, f \notin ToSet(s), NEW r, LongerBy(s, r, p, f)
  PROVE  Watches(it, cur, wat, lef, r)
<1>1. CASE it = NoIter /\ cur = Null /\ wat = {} /\ lef = {}
  BY <1>1 DEF Watches
<1>2. ASSUME NEW k \in Int, ComesTo(it, cur, wat, lef, s, k)
      PROVE  Watches(it, cur, wat, lef, r)
  <2>1. PICK n \in Nat : n = Len(s)
    BY Counted
  <2>2. PICK dir : dir = it.direction
    OBVIOUS
  <2>3. /\ it \in [next : Nodes \cup {Null}, direction : IterDirs]
        /\ k \in IterStops(n, dir) /\ it.next = NodeAt(s, k)
        /\ wat \subseteq ToSet(s) /\ lef \subseteq wat
        /\ \A i \in 1..n : s[i] \in wat => (s[i] \in lef <=> IsAhead(i, k, dir))
        /\ cur # Null => \E i \in 1..n : cur = s[i] /\ ~IsAhead(i, k, dir)
    BY <1>2, <2>1, <2>2 DEF ComesTo
  <2>4. PICK k1 \in Int : k1 = IF p <= k THEN k + 1 ELSE k
    OBVIOUS
  <2>5. p \in 1..n + 1 /\ p \in Int
    BY <2>1
  <2>6. /\ Len(r) = n + 1
        /\ \A i \in 1..n + 1 : r[i] = IF i < p THEN s[i] ELSE IF i = p THEN f ELSE s[i - 1]
    BY <2>1 DEF LongerBy
  <2>7. \A i \in 0..n + 2 : NodeAt(r, i) = IF i < p THEN NodeAt(s, i) ELSE IF i = p THEN f ELSE NodeAt(s, i - 1)
    BY <2>1, <2>5, LongerPlaces
  <2>8. dir \in IterDirs /\ k \in 0..n + 1 /\ k1 \in 0..n + 2 /\ k1 \in IterStops(n + 1, dir)
    BY <2>2, <2>3, <2>4, <2>5 DEF IterDirs, IterStops
  <2>9. it.next = NodeAt(r, k1)
    <3>1. CASE p <= k
      <4>1. ~(k1 < p) /\ k1 # p /\ k1 - 1 = k
        BY <2>4, <2>5, <3>1
      <4> QED BY <2>3, <2>7, <2>8, <4>1
    <3>2. CASE ~(p <= k)
      <4>1. k1 < p /\ k1 = k
        BY <2>4, <2>5, <3>2
      <4> QED BY <2>3, <2>7, <2>8, <4>1
    <3> QED BY <3>1, <3>2
  <2>10. ToSet(r) = ToSet(s) \cup {f}
    BY LongerSet
  <2>11. ASSUME NEW i \in 1..n
         PROVE  \E j \in 1..n + 1 : r[j] = s[i] /\ (IsAhead(j, k1, dir) <=> IsAhead(i, k, dir))
                                    /\ j = IF i < p THEN i ELSE i + 1
    <3>1. PICK j : j = IF i < p THEN i ELSE i + 1
      OBVIOUS
    <3>2. j \in 1..n + 1 /\ (i < p => j = i /\ j < p) /\ (~(i < p) => ~(j < p) /\ j # p /\ j - 1 = i)
      BY <2>5, <3>1
    <3>3. r[j] = s[i]
      BY <2>6, <3>2
    <3>4. IsAhead(j, k1, dir) <=> IsAhead(i, k, dir)
      BY <2>4, <2>5, <2>8, <3>1 DEF IsAhead
    <3> QED BY <3>1, <3>2, <3>3, <3>4
  <2>12. ASSUME NEW j \in 1..n + 1, r[j] \in wat
         PROVE  r[j] \in lef <=> IsAhead(j, k1, dir)
    <3>1. r[j] \in ToSet(s) /\ r[j] # f
      BY <2>3, <2>12
    <3>2. PICK i \in 1..n : r[j] = s[i]
      BY <2>1, <3>1, Counted
    <3>3. PICK j1 \in 1..n + 1 : r[j1] = s[i] /\ (IsAhead(j1, k1, dir) <=> IsAhead(i, k, dir))
      BY <2>11
    <3>4. \A a \in 1..n : s[a] # f
      BY <2>1, Counted
    <3>5. OneToOne(r)
      BY <2>1, <2>5, <3>4, LongerPlaces
    <3>6. j1 = j
      BY <2>6, <3>2, <3>3, <3>5 DEF OneToOne
    <3> QED BY <2>3, <2>12, <3>2, <3>3, <3>6
  <2>13. cur # Null => \E i \in 1..n + 1 : cur = r[i] /\ ~IsAhead(i, k1, dir)
    BY <2>3, <2>11
  <2>14. ComesTo(it, cur, wat, lef, r, k1)
    BY <2>2, <2>3, <2>6, <2>8, <2>9, <2>10, <2>12, <2>13 DEF ComesTo
  <2> QED BY <2>14 DEF Watches
<1> QED BY <1>1, <1>2 DEF Watches

\* and when the one it returned last is taken out.
LEMMA WatchesShorter ==
  ASSUME NEW it, NEW cur, NEW wat, NEW lef, NEW s, OneToOne(s), Watches(it, cur, wat, lef, s),
         NEW j \in 1..Len(s), it.direction # "none" => cur = s[j], NEW r, ShorterBy(s, r, j)
  PROVE  Watches(it, Null, wat \ {s[j]}, lef \ {s[j]}, r)
<1>1. CASE it = NoIter /\ cur = Null /\ wat = {} /\ lef = {}
  BY <1>1 DEF Watches
<1>2. ASSUME NEW k \in Int, ComesTo(it, cur, wat, lef, s, k)
      PROVE  Watches(it, Null, wat \ {s[j]}, lef \ {s[j]}, r)
  <2>1. PICK n \in Nat : n = Len(s)
    BY Counted
  <2>2. PICK dir : dir = it.direction
    OBVIOUS
  <2>3. /\ it \in [next : Nodes \cup {Null}, direction : IterDirs]
        /\ k \in IterStops(n, dir) /\ it.next = NodeAt(s, k)
        /\ wat \subseteq ToSet(s) /\ lef \subseteq wat
        /\ \A i \in 1..n : s[i] \in wat => (s[i] \in lef <=> IsAhead(i, k, dir))
        /\ cur # Null => \E i \in 1..n : cur = s[i] /\ ~IsAhead(i, k, dir)
    BY <1>2, <2>1, <2>2 DEF ComesTo
  <2>4. PICK k1 \in Int : k1 = IF j < k THEN k - 1 ELSE k
    OBVIOUS
  <2>5. j \in 1..n /\ j \in Int /\ \A a, b \in 1..n : s[a] = s[b] => a = b
    BY <2>1 DEF OneToOne
  <2>6. ~IsAhead(j, k, dir)
    <3>1. cur = s[j] /\ dir \in IterDirs
      BY <2>2, <2>3 DEF IterDirs
    <3>2. s[j] # Null
      BY <2>1, <2>5, ElementOfSeq, ListAssumption DEF OneToOne, Nodes
    <3> QED BY <2>3, <2>5, <3>1, <3>2
  <2>7. /\ Len(r) = n - 1
        /\ \A i \in 1..n - 1 : r[i] = IF i < j THEN s[i] ELSE s[i + 1]
    BY <2>1 DEF ShorterBy
  <2>8. OneToOne(r) /\ \A i \in 0..n : NodeAt(r, i) = IF i < j THEN NodeAt(s, i) ELSE NodeAt(s, i + 1)
    BY <2>1, <2>5, ShorterPlaces
  <2>9. dir \in IterDirs /\ k \in 0..n + 1 /\ k1 \in 0..n /\ k1 \in IterStops(n - 1, dir)
    BY <2>2, <2>3, <2>4, <2>5, <2>6 DEF IterDirs, IterStops, IsAhead
  <2>10. it.next = NodeAt(r, k1)
    <3>1. CASE j < k
      <4>1. ~(k1 < j) /\ k1 + 1 = k
        BY <2>4, <2>5, <3>1
      <4> QED BY <2>3, <2>8, <2>9, <4>1
    <3>2. CASE ~(j < k)
      <4>1. k1 = k /\ k1 < j
        <5>1. dir = "head" => j < k
          BY <2>5, <2>6 DEF IsAhead
        <5>2. dir # "head" => k < j
          BY <2>5, <2>6 DEF IsAhead
        <5> QED BY <2>4, <3>2, <5>1, <5>2
      <4> QED BY <2>3, <2>8, <2>9, <4>1
    <3> QED BY <3>1, <3>2
  <2>11. ToSet(r) = ToSet(s) \ {s[j]}
    BY ShorterSet
  <2>12. ASSUME NEW a \in 1..n - 1, r[a] \in wat
         PROVE  r[a] \in lef <=> IsAhead(a, k1, dir)
    <3>1. PICK i : i = IF a < j THEN a ELSE a + 1
      OBVIOUS
    <3>2. i \in 1..n /\ r[a] = s[i]
      BY <2>5, <2>7, <3>1
    <3>3. IsAhead(a, k1, dir) <=> IsAhead(i, k, dir)
      BY <2>4, <2>5, <2>6, <2>9, <3>1 DEF IsAhead
    <3> QED BY <2>3, <2>12, <3>2, <3>3
  <2>13. \A a \in 1..n - 1 : r[a] # s[j]
    <3>1. \A a \in 1..n - 1 : r[a] \in ToSet(r)
      BY <2>7, <2>8, Counted
    <3> QED BY <2>11, <3>1
  <2>14. ComesTo(it, Null, wat \ {s[j]}, lef \ {s[j]}, r, k1)
    BY <2>2, <2>3, <2>7, <2>9, <2>10, <2>11, <2>12, <2>13 DEF ComesTo
  <2> QED BY <2>14 DEF Watches
<1> QED BY <1>1, <1>2 DEF Watches

NodesTyped ==
  /\ head \in [Lists -> Nodes \cup {Null}] /\ tail \in [Lists -> Nodes \cup {Null}]
  /\ len \in [Lists -> Int]
  /\ prev \in [Nodes -> Nodes \cup {Null}] /\ next \in [Nodes -> Nodes \cup {Null}]
  /\ value \in [Nodes -> Nodes \cup {Null}] /\ current \in Nodes \cup {Null}

\* The two lists hold c and d, and the memory just these.
TwoLists(c, d) ==
  /\ Strung(next, prev, head[1], tail[1], c) /\ Strung(next, prev, head[2], tail[2], d)
  /\ len[1] = Len(c) /\ len[2] = Len(d)
  /\ ToSet(c) \cap ToSet(d) = {} /\ used = ToSet(c) \cup ToSet(d)

Iterates(c) == Watches(iter, current, watched, left, c)

LEMMA FreshIs ==
  ASSUME Memory(1)
  PROVE  Fresh \in Nodes /\ Fresh \notin used
<1>1. Nodes \ used # {}
  <2>1. Cardinality({}) = 0
    BY FS_EmptySet
  <2> QED BY <2>1 DEF Memory
<1> QED BY <1>1 DEF Fresh

LEMMA ListContentsAre ==
  ASSUME NEW c, NEW d, TwoLists(c, d)
  PROVE  /\ ListContents = c /\ Chain(next, head[2]) = d
         /\ Chain(prev, tail[1]) = Reverse(c) /\ Chain(prev, tail[2]) = Reverse(d)
BY WholeChains DEF TwoLists, ListContents

\* A node in the first list.
LEMMA ContainedIs ==
  ASSUME NEW c, NEW d, TwoLists(c, d), NEW n, Contains(ListContents, n)
  PROVE  \E i \in 1..Len(c) : n = c[i]
BY ListContentsAre DEF Contains

\* One node comes to the first list,
LEMMA PuttingIn ==
  ASSUME NodesTyped, NEW c, NEW d, TwoLists(c, d), NEW p \in 1..Len(c) + 1, NEW f \in Nodes, f \notin used,
         NEW r, LongerBy(c, r, p, f),
         Threads(next, prev, head[1], tail[1], c, p, f, next', prev', head'[1], tail'[1]),
         head'[2] = head[2], tail'[2] = tail[2], len'[1] = len[1] + 1, len'[2] = len[2], used' = used \cup {f}
  PROVE  TwoLists(r, d)'
<1>1. /\ Strung(next, prev, head[1], tail[1], c) /\ Strung(next, prev, head[2], tail[2], d)
      /\ len[1] = Len(c) /\ len[2] = Len(d)
      /\ ToSet(c) \cap ToSet(d) = {} /\ used = ToSet(c) \cup ToSet(d)
  BY DEF TwoLists
<1>2. OneToOne(c) /\ OneToOne(d)
  BY <1>1, StrungIs
<1>3. ToSet(c) = {c[i] : i \in 1..Len(c)} /\ ToSet(c) \subseteq Nodes /\ ToSet(d) \subseteq Nodes
  BY <1>2, Counted
<1>4. \A i \in 1..Len(c) : c[i] # f
  BY <1>1, <1>3
<1>5. Strung(next', prev', head'[1], tail'[1], r)
  BY <1>1, <1>4, Threading
<1>6. ToSet(r) = ToSet(c) \cup {f} /\ Len(r) = Len(c) + 1
  <2>1. ToSet(r) = ToSet(c) \cup {f}
    BY <1>2, LongerSet
  <2>2. Len(r) = Len(c) + 1
    BY DEF LongerBy
  <2> QED BY <2>1, <2>2
<1>7. ASSUME NEW m \in ToSet(d)
      PROVE  next'[m] = next[m] /\ prev'[m] = prev[m]
  <2>1. m \in Nodes \ {f} /\ m # Null /\ \A i : NodeAt(c, i) # m
    BY <1>1, <1>3, ListAssumption DEF NodeAt, Nodes
  <2> QED BY <2>1 DEF Threads
<1>8. Strung(next', prev', head'[2], tail'[2], d)
  BY <1>1, <1>7, StrungStill
<1> QED BY <1>1, <1>5, <1>6, <1>8 DEF TwoLists

\* and one goes.
LEMMA TakingOut ==
  ASSUME NodesTyped, NEW c, NEW d, TwoLists(c, d), NEW j \in 1..Len(c),
         NEW r, ShorterBy(c, r, j),
         Unthreads(next, prev, head[1], tail[1], c, j, next', prev', head'[1], tail'[1]),
         head'[2] = head[2], tail'[2] = tail[2], len'[1] = len[1] - 1, len'[2] = len[2], used' = used \ {c[j]}
  PROVE  TwoLists(r, d)'
<1>1. /\ Strung(next, prev, head[1], tail[1], c) /\ Strung(next, prev, head[2], tail[2], d)
      /\ len[1] = Len(c) /\ len[2] = Len(d)
      /\ ToSet(c) \cap ToSet(d) = {} /\ used = ToSet(c) \cup ToSet(d)
  BY DEF TwoLists
<1>2. OneToOne(c) /\ OneToOne(d)
  BY <1>1, StrungIs
<1>3. ToSet(c) = {c[i] : i \in 1..Len(c)} /\ ToSet(c) \subseteq Nodes /\ ToSet(d) \subseteq Nodes
  BY <1>2, Counted
<1>4. c[j] \in ToSet(c)
  BY <1>3
<1>5. Strung(next', prev', head'[1], tail'[1], r)
  BY <1>1, Unthreading
<1>6. ToSet(r) = ToSet(c) \ {c[j]} /\ Len(r) = Len(c) - 1
  BY <1>2, ShorterSet DEF ShorterBy
<1>7. ASSUME NEW m \in ToSet(d)
      PROVE  next'[m] = next[m] /\ prev'[m] = prev[m]
  <2>1. m \in Nodes \ {c[j]} /\ m # Null /\ \A i : NodeAt(c, i) # m
    BY <1>1, <1>3, <1>4, ListAssumption DEF NodeAt, Nodes
  <2> QED BY <2>1 DEF Unthreads
<1>8. Strung(next', prev', head'[2], tail'[2], d)
  BY <1>1, <1>7, StrungStill
<1> QED BY <1>1, <1>4, <1>5, <1>6, <1>8 DEF TwoLists

\* The operations on one list of length n, by their places.
LEMMA ConsIs ==
  ASSUME NEW s \in Seq(Nodes), NEW f \in Nodes
  PROVE  LongerBy(s, <<f>> \o s, 1, f)
<1>1. <<f>> \in Seq(Nodes) /\ Len(<<f>>) = 1 /\ <<f>>[1] = f /\ Len(s) \in Nat
  BY LenProperties
<1>2. PICK r : r = <<f>> \o s
  OBVIOUS
<1>3. r \in Seq(Nodes) /\ Len(r) = Len(s) + 1
      /\ \A i \in 1..Len(s) + 1 : r[i] = IF i <= 1 THEN f ELSE s[i - 1]
  BY <1>1, <1>2, ConcatProperties
<1> QED BY <1>1, <1>2, <1>3 DEF LongerBy

LEMMA AppendIs ==
  ASSUME NEW s \in Seq(Nodes), NEW f \in Nodes
  PROVE  LongerBy(s, Append(s, f), Len(s) + 1, f)
<1>1. PICK n \in Nat : n = Len(s)
  BY LenProperties
<1>2. PICK r : r = Append(s, f)
  OBVIOUS
<1>3. r \in Seq(Nodes) /\ Len(r) = n + 1 /\ (\A i \in 1..n : r[i] = s[i]) /\ r[n + 1] = f
  BY <1>1, <1>2, AppendProperties
<1>4. \A i \in 1..n + 1 : r[i] = IF i < n + 1 THEN s[i] ELSE IF i = n + 1 THEN f ELSE s[i - 1]
  BY <1>3
<1> QED BY <1>1, <1>2, <1>3, <1>4 DEF LongerBy

LEMMA InsertAtIs ==
  ASSUME NEW s \in Seq(Nodes), NEW f \in Nodes, NEW p \in 1..Len(s) + 1
  PROVE  LongerBy(s, InsertAt(s, p, f), p, f)
<1>1. PICK n \in Nat : n = Len(s)
  BY LenProperties
<1>2. PICK a, b : a = SubSeq(s, 1, p - 1) /\ b = SubSeq(s, p, n)
  OBVIOUS
<1>3. p \in 1..n + 1 /\ p - 1 \in 0..n
  BY <1>1
<1>4. a \in Seq(Nodes) /\ Len(a) = p - 1 /\ \A i \in 1..p - 1 : a[i] = s[i]
  BY <1>1, <1>2, <1>3, SubSeqProperties
<1>5. b \in Seq(Nodes) /\ Len(b) = n + 1 - p /\ \A i \in 1..n + 1 - p : b[i] = s[p + i - 1]
  BY <1>1, <1>2, <1>3, SubSeqProperties
<1>6. <<f>> \in Seq(Nodes) /\ Len(<<f>>) = 1 /\ <<f>>[1] = f
  OBVIOUS
<1>7. PICK e : e = a \o <<f>>
  OBVIOUS
<1>8. e \in Seq(Nodes) /\ Len(e) = p /\ (\A i \in 1..p - 1 : e[i] = s[i]) /\ e[p] = f
  <2>1. e \in Seq(Nodes) /\ Len(e) = (p - 1) + 1
        /\ \A i \in 1..(p - 1) + 1 : e[i] = IF i <= p - 1 THEN a[i] ELSE <<f>>[i - (p - 1)]
    BY <1>4, <1>6, <1>7, ConcatProperties
  <2>2. e[p] = f
    <3>1. p \in 1..(p - 1) + 1 /\ ~(p <= p - 1) /\ p - (p - 1) = 1
      BY <1>3
    <3> QED BY <1>6, <2>1, <3>1
  <2> QED BY <1>3, <1>4, <2>1, <2>2
<1>9. PICK r : r = e \o b
  OBVIOUS
<1>10. r \in Seq(Nodes) /\ Len(r) = p + (n + 1 - p)
       /\ \A i \in 1..p + (n + 1 - p) : r[i] = IF i <= p THEN e[i] ELSE b[i - p]
  BY <1>5, <1>8, <1>9, ConcatProperties
<1>11. ASSUME NEW i \in 1..n + 1
       PROVE  r[i] = IF i < p THEN s[i] ELSE IF i = p THEN f ELSE s[i - 1]
  <2>1. p + (n + 1 - p) = n + 1
    BY <1>3
  <2>2. CASE i <= p
    <3>1. i = p \/ (i < p /\ i \in 1..p - 1)
      BY <1>3, <2>2
    <3> QED BY <1>8, <1>10, <2>1, <2>2, <3>1
  <2>3. CASE ~(i <= p)
    <3>1. i - p \in 1..n + 1 - p /\ p + (i - p) - 1 = i - 1 /\ ~(i < p) /\ i # p
      BY <1>3, <2>3
    <3> QED BY <1>5, <1>10, <2>1, <2>3, <3>1
  <2> QED BY <2>2, <2>3
<1>12. InsertAt(s, p, f) = r
  BY <1>1, <1>2, <1>7, <1>9 DEF InsertAt
<1>13. Len(r) = n + 1
  BY <1>3, <1>10
<1> QED BY <1>1, <1>10, <1>11, <1>12, <1>13 DEF LongerBy

LEMMA RemoveAtIs ==
  ASSUME NEW s \in Seq(Nodes), NEW j \in 1..Len(s)
  PROVE  ShorterBy(s, RemoveAt(s, j), j)
<1>1. PICK n \in Nat : n = Len(s)
  BY LenProperties
<1>2. PICK a, b : a = SubSeq(s, 1, j - 1) /\ b = SubSeq(s, j + 1, n)
  OBVIOUS
<1>3. j \in 1..n
  BY <1>1
<1>4. a \in Seq(Nodes) /\ Len(a) = j - 1 /\ \A i \in 1..j - 1 : a[i] = s[i]
  BY <1>1, <1>2, <1>3, SubSeqProperties
<1>5. b \in Seq(Nodes) /\ Len(b) = n - j /\ \A i \in 1..n - j : b[i] = s[(j + 1) + i - 1]
  BY <1>1, <1>2, <1>3, SubSeqProperties
<1>6. PICK r : r = a \o b
  OBVIOUS
<1>7. r \in Seq(Nodes) /\ Len(r) = (j - 1) + (n - j)
      /\ \A i \in 1..(j - 1) + (n - j) : r[i] = IF i <= j - 1 THEN a[i] ELSE b[i - (j - 1)]
  <2>1. r \in Seq(Nodes) /\ Len(r) = Len(a) + Len(b)
        /\ \A i \in 1..Len(a) + Len(b) : r[i] = IF i <= Len(a) THEN a[i] ELSE b[i - Len(a)]
    BY <1>4, <1>5, <1>6, ConcatProperties
  <2>2. Len(a) = j - 1 /\ Len(b) = n - j
    BY <1>4, <1>5
  <2> QED BY <2>1, <2>2
<1>8. ASSUME NEW i \in 1..n - 1
      PROVE  r[i] = IF i < j THEN s[i] ELSE s[i + 1]
  <2>1. (j - 1) + (n - j) = n - 1
    BY <1>3
  <2>2. CASE i < j
    <3>1. i <= j - 1 /\ i \in 1..j - 1
      BY <1>3, <2>2
    <3> QED BY <1>4, <1>7, <2>1, <2>2, <3>1
  <2>3. CASE ~(i < j)
    <3>1. ~(i <= j - 1) /\ i - (j - 1) \in 1..n - j /\ (j + 1) + (i - (j - 1)) - 1 = i + 1
      BY <1>3, <2>3
    <3> QED BY <1>5, <1>7, <2>1, <2>3, <3>1
  <2> QED BY <2>2, <2>3
<1>9. RemoveAt(s, j) = r
  BY <1>1, <1>2, <1>6 DEF RemoveAt
<1>10. Len(r) = n - 1
  BY <1>3, <1>7
<1> QED BY <1>1, <1>7, <1>8, <1>9, <1>10 DEF ShorterBy

\* There is one sequence only that is longer, or shorter, so.
LEMMA OneSuch ==
  ASSUME NEW s, OneToOne(s), NEW q, NEW r
  PROVE  /\ \A p, f : LongerBy(s, q, p, f) /\ LongerBy(s, r, p, f) => q = r
         /\ \A j : ShorterBy(s, q, j) /\ ShorterBy(s, r, j) => q = r
<1>1. PICK n \in Nat : n = Len(s)
  BY Counted
<1>2. ASSUME q \in Seq(Nodes), r \in Seq(Nodes), Len(q) = Len(r), \A i \in 1..Len(q) : q[i] = r[i]
      PROVE  q = r
  <2>1. DOMAIN q = 1..Len(q) /\ DOMAIN r = 1..Len(q) /\ q = [i \in 1..Len(q) |-> q[i]] /\ r = [i \in 1..Len(q) |-> r[i]]
    BY <1>2
  <2> QED BY <1>2, <2>1
<1>3. ASSUME NEW p, NEW f, LongerBy(s, q, p, f), LongerBy(s, r, p, f)
      PROVE  q = r
  BY <1>1, <1>2, <1>3 DEF LongerBy
<1>4. ASSUME NEW j, ShorterBy(s, q, j), ShorterBy(s, r, j)
      PROVE  q = r
  BY <1>1, <1>2, <1>4 DEF ShorterBy
<1> QED BY <1>3, <1>4

\* What is known of the two lists, all together.
LEMMA TwoListsAre ==
  ASSUME NEW c, NEW d, TwoLists(c, d)
  PROVE  /\ OneToOne(c) /\ OneToOne(d) /\ Len(c) \in Nat /\ Len(c) <= MaxNodes
         /\ head[1] = NodeAt(c, 1) /\ tail[1] = NodeAt(c, Len(c)) /\ len[1] = Len(c)
         /\ \A i \in 1..Len(c) : /\ c[i] \in Nodes /\ c[i] # Null /\ NodeAt(c, i) = c[i]
                                 /\ next[c[i]] = NodeAt(c, i + 1) /\ prev[c[i]] = NodeAt(c, i - 1)
         /\ \A i \in Int : NodeAt(c, i) \in Nodes \cup {Null} /\ (NodeAt(c, i) = Null <=> i \notin 1..Len(c))
         /\ ToSet(c) = {c[i] : i \in 1..Len(c)} /\ ToSet(c) \subseteq used
         /\ c \in Seq(Nodes) /\ d \in Seq(Nodes)
<1>1. Strung(next, prev, head[1], tail[1], c) /\ Strung(next, prev, head[2], tail[2], d)
      /\ len[1] = Len(c) /\ used = ToSet(c) \cup ToSet(d)
  BY DEF TwoLists
<1>2. OneToOne(c) /\ OneToOne(d)
  BY <1>1, StrungIs
<1>3. ToSet(c) = {c[i] : i \in 1..Len(c)}
  BY <1>2, Counted
<1>4. c \in Seq(Nodes) /\ d \in Seq(Nodes)
  BY <1>2 DEF OneToOne
<1> QED BY <1>1, <1>2, <1>3, <1>4, StrungIs

LEMMA Put ==
  ASSUME NodesTyped, NEW c, NEW d, TwoLists(c, d), Iterates(c), NEW p \in 1..Len(c) + 1, NEW f \in Nodes, f \notin used,
         NEW r, LongerBy(c, r, p, f),
         Threads(next, prev, head[1], tail[1], c, p, f, next', prev', head'[1], tail'[1]),
         head'[2] = head[2], tail'[2] = tail[2], len'[1] = len[1] + 1, len'[2] = len[2], used' = used \cup {f},
         UNCHANGED <<iter, history>>
  PROVE  TwoLists(r, d)' /\ Iterates(r)'
<1>1. TwoLists(r, d)'
  BY PuttingIn
<1>2. OneToOne(c) /\ f \notin ToSet(c)
  BY TwoListsAre
<1>3. iter' = iter /\ current' = current /\ watched' = watched /\ left' = left
  BY DEF history
<1>4. Watches(iter, current, watched, left, c)
  BY DEF Iterates
<1>5. Watches(iter, current, watched, left, r)
  BY <1>2, <1>4, WatchesLonger
<1>6. Iterates(r)'
  BY <1>3, <1>5 DEF Iterates
<1> QED BY <1>1, <1>6

LEMMA AddingHead ==
  ASSUME NodesTyped, NEW c, NEW d, TwoLists(c, d), Iterates(c), AddNodeHead, NEW r, r = <<Fresh>> \o c
  PROVE  NodesTyped' /\ TwoLists(r, d)' /\ Iterates(r)'
<1>1. PICK f \in Nodes : f = Fresh /\ f \notin used
  BY FreshIs DEF AddNodeHead
<1>2. PICK n \in Nat : n = Len(c)
  BY TwoListsAre
<1>3. /\ used' = used \cup {f} /\ value' = [value EXCEPT ![f] = f]
      /\ head' = [head EXCEPT ![1] = f]
      /\ tail' = (IF n = 0 THEN [tail EXCEPT ![1] = f] ELSE tail)
      /\ next' = [next EXCEPT ![f] = IF n = 0 THEN Null ELSE head[1]]
      /\ prev' = [m \in Nodes |-> IF m = f THEN Null
                                  ELSE IF n # 0 /\ m = head[1] THEN f ELSE prev[m]]
      /\ len' = [len EXCEPT ![1] = @ + 1]
      /\ UNCHANGED <<iter, history>>
  BY <1>1, <1>2, TwoListsAre DEF AddNodeHead
<1>4. head[1] = NodeAt(c, 1) /\ NodeAt(c, 0) = Null /\ (NodeAt(c, 1) = Null <=> n = 0) /\ Null \notin Nodes
  <2>1. \A i \in Int : NodeAt(c, i) = Null <=> i \notin 1..n
    BY <1>2, TwoListsAre
  <2>2. 0 \notin 1..n /\ (1 \notin 1..n <=> n = 0)
    OBVIOUS
  <2>3. head[1] = NodeAt(c, 1) /\ Null \notin Nodes
    BY TwoListsAre, ListAssumption DEF Nodes
  <2> QED BY <2>1, <2>2, <2>3
<1>5. Threads(next, prev, head[1], tail[1], c, 1, f, next', prev', head'[1], tail'[1])
  <2>1. next'[f] = NodeAt(c, 1) /\ prev'[f] = NodeAt(c, 1 - 1)
    BY <1>1, <1>3, <1>4 DEF NodesTyped
  <2>2. \A m \in Nodes \ {f} : /\ next'[m] = IF m = NodeAt(c, 1 - 1) THEN f ELSE next[m]
                               /\ prev'[m] = IF m = NodeAt(c, 1) THEN f ELSE prev[m]
    BY <1>1, <1>3, <1>4 DEF NodesTyped
  <2>3. head'[1] = (IF 1 = 1 THEN f ELSE head[1]) /\ tail'[1] = (IF 1 = Len(c) + 1 THEN f ELSE tail[1])
    BY <1>2, <1>3 DEF NodesTyped, Lists
  <2> QED BY <2>1, <2>2, <2>3 DEF Threads
<1>6. head'[2] = head[2] /\ tail'[2] = tail[2] /\ len'[1] = len[1] + 1 /\ len'[2] = len[2]
  BY <1>3 DEF NodesTyped, Lists
<1>7. LongerBy(c, r, 1, f)
  BY <1>1, TwoListsAre, ConsIs
<1>8. TwoLists(r, d)' /\ Iterates(r)'
  <2>1. 1 \in 1..Len(c) + 1
    BY <1>2
  <2> QED BY <1>1, <1>3, <1>5, <1>6, <1>7, <2>1, Put
<1>9. NodesTyped'
  BY <1>1, <1>3 DEF NodesTyped, Lists, history
<1> QED BY <1>8, <1>9

LEMMA AddingTail ==
  ASSUME NodesTyped, NEW c, NEW d, TwoLists(c, d), Iterates(c), AddNodeTail, NEW r, r = Append(c, Fresh)
  PROVE  NodesTyped' /\ TwoLists(r, d)' /\ Iterates(r)'
<1>1. PICK f \in Nodes : f = Fresh /\ f \notin used
  BY FreshIs DEF AddNodeTail
<1>2. PICK n \in Nat : n = Len(c)
  BY TwoListsAre
<1>3. /\ used' = used \cup {f} /\ value' = [value EXCEPT ![f] = f]
      /\ tail' = [tail EXCEPT ![1] = f]
      /\ head' = (IF n = 0 THEN [head EXCEPT ![1] = f] ELSE head)
      /\ prev' = [prev EXCEPT ![f] = IF n = 0 THEN Null ELSE tail[1]]
      /\ next' = [m \in Nodes |-> IF m = f THEN Null
                                  ELSE IF n # 0 /\ m = tail[1] THEN f ELSE next[m]]
      /\ len' = [len EXCEPT ![1] = @ + 1]
      /\ UNCHANGED <<iter, history>>
  BY <1>1, <1>2, TwoListsAre DEF AddNodeTail
<1>4. tail[1] = NodeAt(c, n) /\ NodeAt(c, n + 1) = Null /\ (NodeAt(c, n) = Null <=> n = 0) /\ Null \notin Nodes
  <2>1. \A i \in Int : NodeAt(c, i) = Null <=> i \notin 1..n
    BY <1>2, TwoListsAre
  <2>2. n + 1 \notin 1..n /\ n + 1 \in Int /\ (n \notin 1..n <=> n = 0)
    OBVIOUS
  <2>3. tail[1] = NodeAt(c, n) /\ Null \notin Nodes
    BY <1>2, TwoListsAre, ListAssumption DEF Nodes
  <2> QED BY <2>1, <2>2, <2>3
<1>5. Threads(next, prev, head[1], tail[1], c, n + 1, f, next', prev', head'[1], tail'[1])
  <2>1. next'[f] = NodeAt(c, n + 1) /\ prev'[f] = NodeAt(c, (n + 1) - 1)
    <3>1. (n + 1) - 1 = n
      OBVIOUS
    <3> QED BY <1>1, <1>3, <1>4, <3>1 DEF NodesTyped
  <2>2. \A m \in Nodes \ {f} : /\ next'[m] = IF m = NodeAt(c, (n + 1) - 1) THEN f ELSE next[m]
                               /\ prev'[m] = IF m = NodeAt(c, n + 1) THEN f ELSE prev[m]
    <3>1. (n + 1) - 1 = n
      OBVIOUS
    <3> QED BY <1>1, <1>3, <1>4, <3>1 DEF NodesTyped
  <2>3. head'[1] = (IF n + 1 = 1 THEN f ELSE head[1]) /\ tail'[1] = (IF n + 1 = Len(c) + 1 THEN f ELSE tail[1])
    BY <1>2, <1>3 DEF NodesTyped, Lists
  <2> QED BY <2>1, <2>2, <2>3 DEF Threads
<1>6. head'[2] = head[2] /\ tail'[2] = tail[2] /\ len'[1] = len[1] + 1 /\ len'[2] = len[2]
  BY <1>3 DEF NodesTyped, Lists
<1>7. LongerBy(c, r, n + 1, f)
  BY <1>1, <1>2, TwoListsAre, AppendIs
<1>8. TwoLists(r, d)' /\ Iterates(r)'
  <2>1. n + 1 \in 1..Len(c) + 1
    BY <1>2
  <2> QED BY <1>1, <1>3, <1>5, <1>6, <1>7, <2>1, Put
<1>9. NodesTyped'
  BY <1>1, <1>3 DEF NodesTyped, Lists, history
<1> QED BY <1>8, <1>9

LEMMA InsertingNode ==
  ASSUME NodesTyped, NEW c, NEW d, TwoLists(c, d), Iterates(c), NEW i \in 1..Len(c), NEW after \in BOOLEAN,
         InsertNode(c[i], after), NEW p, p = i + (IF after THEN 1 ELSE 0), NEW r, r = InsertAt(c, p, Fresh)
  PROVE  NodesTyped' /\ TwoLists(r, d)' /\ Iterates(r)'
<1>1. PICK f \in Nodes : f = Fresh /\ f \notin used
  BY FreshIs DEF InsertNode
<1>2. PICK n \in Nat : n = Len(c)
  BY TwoListsAre
<1>3. PICK old : old = c[i]
  OBVIOUS
<1>4. /\ i \in 1..n /\ p \in 1..n + 1 /\ p - 1 \in Int /\ p \in Int
      /\ after => p = i + 1 /\ p - 1 = i /\ p # 1 /\ (p = n + 1 <=> i = n)
      /\ ~after => p = i /\ p - 1 = i - 1 /\ p # n + 1 /\ (p = 1 <=> i = 1)
  BY <1>2
<1>5. /\ old \in Nodes /\ next[old] = NodeAt(c, i + 1) /\ prev[old] = NodeAt(c, i - 1) /\ NodeAt(c, i) = old
      /\ \A k \in Int : NodeAt(c, k) \in Nodes \cup {Null}
      /\ head[1] = NodeAt(c, 1) /\ tail[1] = NodeAt(c, n) /\ Null \notin Nodes
  BY <1>2, <1>3, TwoListsAre, ListAssumption DEF Nodes
<1>6. (head[1] = old <=> i = 1) /\ (tail[1] = old <=> i = n)
  <2>1. \A a, b \in 1..n : c[a] = c[b] => a = b
    BY <1>2, TwoListsAre DEF OneToOne
  <2>2. NodeAt(c, 1) = c[1] /\ NodeAt(c, n) = c[n] /\ 1 \in 1..n /\ n \in 1..n
    BY <1>2, <1>4 DEF NodeAt
  <2> QED BY <1>3, <1>4, <1>5, <2>1, <2>2
<1>7. /\ used' = used \cup {f} /\ value' = [value EXCEPT ![f] = f]
      /\ prev' = BackLink(f, NodeAt(c, p - 1), NodeAt(c, p))
      /\ next' = [m \in Nodes |-> IF m = f THEN NodeAt(c, p) ELSE IF m = NodeAt(c, p - 1) THEN f ELSE next[m]]
      /\ tail' = (IF p = n + 1 THEN [tail EXCEPT ![1] = f] ELSE tail)
      /\ head' = (IF p = 1 THEN [head EXCEPT ![1] = f] ELSE head)
      /\ len' = [len EXCEPT ![1] = @ + 1]
      /\ UNCHANGED <<iter, history>>
  <2>1. CASE after
    BY <1>1, <1>3, <1>4, <1>5, <1>6, <2>1 DEF InsertNode
  <2>2. CASE ~after
    BY <1>1, <1>3, <1>4, <1>5, <1>6, <2>2 DEF InsertNode
  <2> QED BY <2>1, <2>2
<1>8. prev' = [m \in Nodes |-> IF m = f THEN NodeAt(c, p - 1) ELSE IF m = NodeAt(c, p) THEN f ELSE prev[m]]
  BY <1>7 DEF BackLink
<1>9. Threads(next, prev, head[1], tail[1], c, p, f, next', prev', head'[1], tail'[1])
  <2>1. next'[f] = NodeAt(c, p) /\ prev'[f] = NodeAt(c, p - 1)
    BY <1>1, <1>7, <1>8
  <2>2. \A m \in Nodes \ {f} : /\ next'[m] = IF m = NodeAt(c, p - 1) THEN f ELSE next[m]
                               /\ prev'[m] = IF m = NodeAt(c, p) THEN f ELSE prev[m]
    BY <1>7, <1>8
  <2>3. head'[1] = (IF p = 1 THEN f ELSE head[1]) /\ tail'[1] = (IF p = Len(c) + 1 THEN f ELSE tail[1])
    BY <1>2, <1>7 DEF NodesTyped, Lists
  <2> QED BY <2>1, <2>2, <2>3 DEF Threads
<1>10. head'[2] = head[2] /\ tail'[2] = tail[2] /\ len'[1] = len[1] + 1 /\ len'[2] = len[2]
  BY <1>7 DEF NodesTyped, Lists
<1>11. LongerBy(c, r, p, f)
  BY <1>1, <1>2, <1>4, TwoListsAre, InsertAtIs
<1>12. TwoLists(r, d)' /\ Iterates(r)'
  BY <1>1, <1>2, <1>4, <1>7, <1>9, <1>10, <1>11, Put
<1>13. NodesTyped'
  <2>1. NodeAt(c, p) \in Nodes \cup {Null} /\ NodeAt(c, p - 1) \in Nodes \cup {Null}
    BY <1>4, <1>5
  <2> QED BY <1>1, <1>7, <1>8, <2>1 DEF NodesTyped, Lists, history
<1> QED BY <1>12, <1>13

LEMMA DeletingNode ==
  ASSUME NodesTyped, NEW c, NEW d, TwoLists(c, d), Iterates(c), NEW j \in 1..Len(c), DelNode(c[j]),
         NEW r, r = RemoveAt(c, j)
  PROVE  NodesTyped' /\ TwoLists(r, d)' /\ Iterates(r)'
<1>1. PICK n \in Nat : n = Len(c)
  BY TwoListsAre
<1>2. PICK x : x = c[j]
  OBVIOUS
<1>3. j \in 1..n /\ j - 1 \in Int /\ j + 1 \in Int /\ (j - 1 \notin 1..n <=> j = 1) /\ (j + 1 \notin 1..n <=> j = n)
  BY <1>1
<1>4. /\ x \in Nodes /\ next[x] = NodeAt(c, j + 1) /\ prev[x] = NodeAt(c, j - 1)
      /\ (NodeAt(c, j + 1) = Null <=> j = n) /\ (NodeAt(c, j - 1) = Null <=> j = 1)
      /\ NodeAt(c, j + 1) \in Nodes \cup {Null} /\ NodeAt(c, j - 1) \in Nodes \cup {Null}
  BY <1>1, <1>2, <1>3, TwoListsAre
<1>5. /\ Iterating => x = current
      /\ next' = [m \in Nodes |-> IF m = x THEN Null ELSE IF m = NodeAt(c, j - 1) THEN NodeAt(c, j + 1) ELSE next[m]]
      /\ head' = (IF j # 1 THEN head ELSE [head EXCEPT ![1] = NodeAt(c, j + 1)])
      /\ prev' = [m \in Nodes |-> IF m = x THEN Null ELSE IF m = NodeAt(c, j + 1) THEN NodeAt(c, j - 1) ELSE prev[m]]
      /\ tail' = (IF j # n THEN tail ELSE [tail EXCEPT ![1] = NodeAt(c, j - 1)])
      /\ used' = used \ {x} /\ value' = [value EXCEPT ![x] = Null]
      /\ len' = [len EXCEPT ![1] = @ - 1]
      /\ watched' = watched \ {x} /\ left' = left \ {x} /\ current' = Null
      /\ iter' = iter
  BY <1>2, <1>4 DEF DelNode
<1>6. Unthreads(next, prev, head[1], tail[1], c, j, next', prev', head'[1], tail'[1])
  <2>1. \A m \in Nodes \ {x} : /\ next'[m] = IF m = NodeAt(c, j - 1) THEN NodeAt(c, j + 1) ELSE next[m]
                               /\ prev'[m] = IF m = NodeAt(c, j + 1) THEN NodeAt(c, j - 1) ELSE prev[m]
    BY <1>5
  <2>2. head'[1] = (IF j = 1 THEN NodeAt(c, 2) ELSE head[1])
    <3>1. j = 1 => j + 1 = 2
      OBVIOUS
    <3> QED BY <1>5, <3>1 DEF NodesTyped, Lists
  <2>3. tail'[1] = (IF j = Len(c) THEN NodeAt(c, Len(c) - 1) ELSE tail[1])
    BY <1>1, <1>5 DEF NodesTyped, Lists
  <2> QED BY <1>2, <2>1, <2>2, <2>3 DEF Unthreads
<1>7. head'[2] = head[2] /\ tail'[2] = tail[2] /\ len'[1] = len[1] - 1 /\ len'[2] = len[2]
  BY <1>5 DEF NodesTyped, Lists
<1>8. ShorterBy(c, r, j)
  BY TwoListsAre, RemoveAtIs
<1>9. TwoLists(r, d)'
  BY <1>2, <1>5, <1>6, <1>7, <1>8, TakingOut
<1>10. Iterates(r)'
  <2>1. OneToOne(c) /\ Watches(iter, current, watched, left, c)
    BY TwoListsAre DEF Iterates
  <2>2. iter.direction # "none" => current = c[j]
    BY <1>2, <1>5 DEF Iterating
  <2>3. Watches(iter, Null, watched \ {c[j]}, left \ {c[j]}, r)
    BY <1>8, <2>1, <2>2, WatchesShorter
  <2> QED BY <1>2, <1>5, <2>3 DEF Iterates
<1>11. NodesTyped'
  BY <1>4, <1>5 DEF NodesTyped, Lists
<1> QED BY <1>9, <1>10, <1>11

\* A step that neither writes the lists
LEMMA ListsStay ==
  ASSUME NEW c, NEW d, TwoLists(c, d), UNCHANGED <<head, tail, len, prev, next, used>>
  PROVE  TwoLists(c, d)'
BY DEF TwoLists

LEMMA Starting ==
  ASSUME NodesTyped, NEW c, NEW d, TwoLists(c, d), NEW dir \in IterDirs, StartIterator(dir)
  PROVE  NodesTyped' /\ TwoLists(c, d)' /\ Iterates(c)'
<1>1. /\ iter' = [next |-> IF dir = "head" THEN head[1] ELSE tail[1], direction |-> dir]
      /\ current' = Null /\ watched' = ToSet(c) /\ left' = ToSet(c)
      /\ UNCHANGED <<head, tail, len, prev, next, value, used>>
  BY ListContentsAre DEF StartIterator
<1>2. PICK n \in Nat : n = Len(c)
  BY TwoListsAre
<1>3. PICK k \in Int : k = IF dir = "head" THEN 1 ELSE n
  OBVIOUS
<1>4. k \in IterStops(n, dir) /\ \A i \in 1..n : IsAhead(i, k, dir)
  BY <1>3 DEF IterStops, IsAhead
<1>5. iter' = [next |-> NodeAt(c, k), direction |-> dir] /\ NodeAt(c, k) \in Nodes \cup {Null}
  BY <1>1, <1>2, <1>3, TwoListsAre
<1>6. ComesTo(iter', current', watched', left', c, k)
  <2>1. iter' \in [next : Nodes \cup {Null}, direction : IterDirs]
    BY <1>5
  <2>2. \A i \in 1..Len(c) : c[i] \in ToSet(c)
    BY TwoListsAre
  <2> QED BY <1>1, <1>2, <1>4, <1>5, <2>1, <2>2 DEF ComesTo
<1>7. Iterates(c)'
  BY <1>6 DEF Iterates, Watches
<1>8. NodesTyped'
  BY <1>1 DEF NodesTyped
<1> QED BY <1>1, <1>7, <1>8, ListsStay

\* No iterator is in use, or it comes to a k-th.
LEMMA IteratesIs ==
  ASSUME NEW c, Iterates(c)
  PROVE  /\ Iterating => \E k \in Int : ComesTo(iter, current, watched, left, c, k)
         /\ ~Iterating => iter = NoIter /\ current = Null /\ watched = {} /\ left = {}
<1>1. ASSUME NEW k, ComesTo(iter, current, watched, left, c, k)
      PROVE  iter.direction # "none"
  BY <1>1 DEF ComesTo, IterDirs
<1>2. NoIter.direction = "none"
  BY DEF NoIter
<1> QED BY <1>1, <1>2 DEF Iterates, Watches, Iterating

LEMMA ListStepping ==
  ASSUME NodesTyped, NEW c, NEW d, TwoLists(c, d), Iterates(c), ListNext
  PROVE  NodesTyped' /\ TwoLists(c, d)' /\ Iterates(c)'
<1>1. /\ Iterating /\ iter.next # Null
      /\ iter' = [iter EXCEPT !.next = SaveNext(iter.next)]
      /\ left' = left \ {iter.next} /\ current' = iter.next
      /\ UNCHANGED <<head, tail, len, prev, next, value, used, watched>>
  BY DEF ListNext
<1>2. PICK n \in Nat : n = Len(c)
  BY TwoListsAre
<1>3. PICK k \in Int : ComesTo(iter, current, watched, left, c, k)
  BY <1>1, IteratesIs
<1>4. PICK dir \in IterDirs : dir = iter.direction
  BY <1>3 DEF ComesTo
<1>5. /\ iter \in [next : Nodes \cup {Null}, direction : IterDirs]
      /\ k \in IterStops(n, dir) /\ iter.next = NodeAt(c, k)
      /\ watched \subseteq ToSet(c) /\ left \subseteq watched
      /\ \A i \in 1..n : c[i] \in watched => (c[i] \in left <=> IsAhead(i, k, dir))
  BY <1>2, <1>3, <1>4 DEF ComesTo
<1>6. k \in 1..n /\ iter.next = c[k] /\ c[k] \in Nodes
      /\ next[c[k]] = NodeAt(c, k + 1) /\ prev[c[k]] = NodeAt(c, k - 1)
  <2>1. k \in 1..n
    BY <1>1, <1>2, <1>5, TwoListsAre
  <2> QED BY <1>2, <1>5, <2>1, TwoListsAre
<1>7. PICK k1 \in Int : k1 = IF dir = "head" THEN k + 1 ELSE k - 1
  OBVIOUS
<1>8. /\ k1 \in IterStops(n, dir) /\ ~IsAhead(k, k1, dir)
      /\ \A i \in 1..n : IsAhead(i, k1, dir) <=> IsAhead(i, k, dir) /\ i # k
  BY <1>6, <1>7 DEF IterStops, IsAhead
<1>9. SaveNext(iter.next) = NodeAt(c, k1) /\ NodeAt(c, k1) \in Nodes \cup {Null}
  BY <1>4, <1>6, <1>7, TwoListsAre DEF SaveNext
<1>10. iter' \in [next : Nodes \cup {Null}, direction : IterDirs] /\ iter'.next = NodeAt(c, k1) /\ iter'.direction = dir
  BY <1>1, <1>4, <1>5, <1>9
<1>11. ASSUME NEW i \in 1..n, c[i] \in watched
       PROVE  c[i] \in left' <=> IsAhead(i, k1, dir)
  <2>1. c[i] = c[k] <=> i = k
    BY <1>2, <1>6, TwoListsAre DEF OneToOne
  <2> QED BY <1>1, <1>5, <1>6, <1>8, <1>11, <2>1
<1>12. ComesTo(iter', current', watched', left', c, k1)
  <2>1. watched' \subseteq ToSet(c) /\ left' \subseteq watched'
    BY <1>1, <1>5
  <2>2. \E i \in 1..Len(c) : current' = c[i] /\ ~IsAhead(i, k1, dir)
    BY <1>1, <1>2, <1>6, <1>8
  <2> QED BY <1>1, <1>2, <1>8, <1>10, <1>11, <2>1, <2>2 DEF ComesTo
<1>13. Iterates(c)'
  BY <1>12 DEF Iterates, Watches
<1>14. NodesTyped'
  BY <1>1, <1>6 DEF NodesTyped
<1> QED BY <1>1, <1>13, <1>14, ListsStay

LEMMA Ending ==
  ASSUME NodesTyped, NEW c, NEW d, TwoLists(c, d), EndIterator
  PROVE  NodesTyped' /\ TwoLists(c, d)' /\ Iterates(c)'
<1>1. /\ iter' = NoIter /\ current' = Null /\ watched' = {} /\ left' = {}
      /\ UNCHANGED <<head, tail, len, prev, next, value, used>>
  BY DEF EndIterator
<1>2. NodesTyped' /\ Iterates(c)'
  BY <1>1 DEF NodesTyped, Iterates, Watches
<1> QED BY <1>1, <1>2, ListsStay

\* The nodes that listRelease goes through.
LEMMA GoneIs ==
  ASSUME NEW nx, NEW pv, NEW h, NEW t, NEW s, Strung(nx, pv, h, t, s), NEW n, n = Len(s)
  PROVE  {Along(nx, h, i) : i \in 0..n - 1} = ToSet(s)
<1>1. n \in Nat /\ OneToOne(s) /\ h = NodeAt(s, 1) /\ \A i \in 1..Len(s) : nx[s[i]] = NodeAt(s, i + 1)
  BY StrungIs
<1>2. Leads(nx, h, s)
  BY <1>1 DEF Leads, OneToOne
<1>3. \A i \in 0..n - 1 : i + 1 \in 1..n /\ Along(nx, h, i) = s[i + 1]
  <2> TAKE i \in 0..n - 1
  <2>1. i \in Nat /\ i + 1 \in 1..n
    BY <1>1
  <2>2. Along(nx, h, i) = NodeAt(s, i + 1)
    BY <1>2, <2>1, AlongIs
  <2> QED BY <2>1, <2>2 DEF NodeAt
<1>4. ToSet(s) = {s[i] : i \in 1..n}
  BY <1>1, Counted
<1>5. \A i \in 1..n : s[i] \in {Along(nx, h, k) : k \in 0..n - 1}
  <2> TAKE i \in 1..n
  <2>1. PICK k \in 0..n - 1 : k + 1 = i
    <3>1. i - 1 \in 0..n - 1 /\ (i - 1) + 1 = i
      BY <1>1
    <3> QED BY <3>1
  <2> QED BY <1>3, <2>1
<1>6. \A i \in 0..n - 1 : Along(nx, h, i) \in ToSet(s)
  BY <1>3, <1>4
<1> QED BY <1>4, <1>5, <1>6

LEMMA EmptyIs == << >> \in Seq(Nodes) /\ Len(<< >>) = 0 /\ ToSet(<< >>) = {} /\ OneToOne(<< >>)
<1>1. << >> \in Seq(Nodes) /\ Len(<< >>) = 0
  OBVIOUS
<1>2. OneToOne(<< >>)
  BY <1>1 DEF OneToOne
<1>3. ToSet(<< >>) = {<< >>[i] : i \in 1..Len(<< >>)}
  BY <1>2, Counted
<1> QED BY <1>1, <1>2, <1>3

LEMMA Releasing ==
  ASSUME NodesTyped, NEW c, NEW d, TwoLists(c, d), Iterates(c), NEW l \in Lists, Release(l)
  PROVE  /\ NodesTyped'
         /\ l = 1 => TwoLists(<< >>, d)' /\ Iterates(<< >>)'
         /\ l = 2 => TwoLists(c, << >>)' /\ Iterates(c)'
<1>1. /\ Strung(next, prev, head[1], tail[1], c) /\ Strung(next, prev, head[2], tail[2], d)
      /\ len[1] = Len(c) /\ len[2] = Len(d)
      /\ ToSet(c) \cap ToSet(d) = {} /\ used = ToSet(c) \cup ToSet(d)
  BY DEF TwoLists
<1>2. PICK s : s = IF l = 1 THEN c ELSE d
  OBVIOUS
<1>3. Strung(next, prev, head[l], tail[l], s) /\ len[l] = Len(s)
  BY <1>1, <1>2 DEF Lists
<1>4. PICK gone : gone = {Along(next, head[l], i) : i \in 0..len[l] - 1}
  OBVIOUS
<1>5. gone = ToSet(s)
  BY <1>3, <1>4, GoneIs
<1>6. /\ Iterating => l = 2
      /\ used' = used \ gone
      /\ next' = [n \in Nodes |-> IF n \in gone THEN Null ELSE next[n]]
      /\ prev' = [n \in Nodes |-> IF n \in gone THEN Null ELSE prev[n]]
      /\ value' = [n \in Nodes |-> IF n \in gone THEN Null ELSE value[n]]
      /\ head' = [head EXCEPT ![l] = Null] /\ tail' = [tail EXCEPT ![l] = Null]
      /\ len' = [len EXCEPT ![l] = 0]
      /\ UNCHANGED <<iter, history>>
  BY <1>4 DEF Release
<1>7. \A m \in Nodes \ gone : next'[m] = next[m] /\ prev'[m] = prev[m]
  BY <1>6
<1>8. NodesTyped'
  BY <1>6 DEF NodesTyped, Lists, history
<1>9. ToSet(c) \subseteq Nodes /\ ToSet(d) \subseteq Nodes
  BY <1>1, StrungIs, Counted
<1>10. ASSUME l = 1
       PROVE  TwoLists(<< >>, d)' /\ Iterates(<< >>)'
  <2>1. head'[1] = Null /\ tail'[1] = Null /\ len'[1] = 0 /\ head'[2] = head[2] /\ tail'[2] = tail[2] /\ len'[2] = len[2]
    BY <1>6, <1>10 DEF NodesTyped, Lists
  <2>2. gone = ToSet(c)
    BY <1>2, <1>5, <1>10
  <2>3. \A m \in ToSet(d) : next'[m] = next[m] /\ prev'[m] = prev[m]
    BY <1>1, <1>7, <1>9, <2>2
  <2>4. Strung(next', prev', head'[2], tail'[2], d)
    BY <1>1, <2>1, <2>3, StrungStill
  <2>5. Strung(next', prev', head'[1], tail'[1], << >>)
    BY <2>1, StrungEmpty
  <2>6. used' = ToSet(<< >>) \cup ToSet(d) /\ ToSet(<< >>) \cap ToSet(d) = {}
    BY <1>1, <1>6, <2>2, EmptyIs
  <2>7. TwoLists(<< >>, d)'
    BY <1>1, <2>1, <2>4, <2>5, <2>6, EmptyIs DEF TwoLists
  <2>8. Iterates(<< >>)'
    BY <1>6, <1>10, IteratesIs DEF Iterates, Watches, history
  <2> QED BY <2>7, <2>8
<1>11. ASSUME l = 2
       PROVE  TwoLists(c, << >>)' /\ Iterates(c)'
  <2>1. head'[2] = Null /\ tail'[2] = Null /\ len'[2] = 0 /\ head'[1] = head[1] /\ tail'[1] = tail[1] /\ len'[1] = len[1]
    BY <1>6, <1>11 DEF NodesTyped, Lists
  <2>2. gone = ToSet(d)
    BY <1>2, <1>5, <1>11
  <2>3. \A m \in ToSet(c) : next'[m] = next[m] /\ prev'[m] = prev[m]
    BY <1>1, <1>7, <1>9, <2>2
  <2>4. Strung(next', prev', head'[1], tail'[1], c)
    BY <1>1, <2>1, <2>3, StrungStill
  <2>5. Strung(next', prev', head'[2], tail'[2], << >>)
    BY <2>1, StrungEmpty
  <2>6. used' = ToSet(c) \cup ToSet(<< >>) /\ ToSet(c) \cap ToSet(<< >>) = {}
    BY <1>1, <1>6, <2>2, EmptyIs
  <2>7. TwoLists(c, << >>)'
    BY <1>1, <2>1, <2>4, <2>5, <2>6, EmptyIs DEF TwoLists
  <2>8. Iterates(c)'
    BY <1>6 DEF Iterates, history
  <2> QED BY <2>7, <2>8
<1> QED BY <1>8, <1>10, <1>11

\* s with its last one first.
Turned(s, r, n) == r \in Seq(Nodes) /\ Len(r) = n /\ r[1] = s[n] /\ \A i \in 2..n : r[i] = s[i - 1]

LEMMA TurnedIs ==
  ASSUME NEW s \in Seq(Nodes), NEW n \in Nat, n = Len(s), n > 1
  PROVE  Turned(s, <<Last(s)>> \o Front(s), n)
<1>1. PICK f \in Nodes : f = Last(s) /\ f = s[n]
  <2>1. n \in 1..Len(s)
    OBVIOUS
  <2>2. s[n] \in Nodes
    BY <2>1, ElementOfSeq
  <2> QED BY <2>2 DEF Last
<1>2. PICK b : b = Front(s)
  OBVIOUS
<1>3. 1 \in 1..n /\ n - 1 \in 0..n /\ n - 1 \in Nat
  OBVIOUS
<1>4. b = SubSeq(s, 1, n - 1)
  BY <1>2 DEF Front
<1>5. b \in Seq(Nodes) /\ Len(b) = n - 1 /\ \A i \in 1..n - 1 : b[i] = s[i]
  BY <1>3, <1>4, SubSeqProperties
<1>6. LongerBy(b, <<f>> \o b, 1, f)
  BY <1>5, ConsIs
<1>7. PICK r : r = <<f>> \o b
  OBVIOUS
<1>8. r \in Seq(Nodes) /\ Len(r) = (n - 1) + 1
      /\ \A i \in 1..(n - 1) + 1 : r[i] = IF i < 1 THEN b[i] ELSE IF i = 1 THEN f ELSE b[i - 1]
  BY <1>5, <1>6, <1>7 DEF LongerBy
<1>9. r[1] = f
  BY <1>8
<1>10. ASSUME NEW i \in 2..n
       PROVE  r[i] = s[i - 1]
  <2>1. i \in 1..(n - 1) + 1 /\ ~(i < 1) /\ i # 1 /\ i - 1 \in 1..n - 1
    OBVIOUS
  <2> QED BY <1>5, <1>8, <2>1
<1>11. Len(r) = n
  BY <1>8
<1> QED BY <1>1, <1>2, <1>7, <1>8, <1>9, <1>10, <1>11 DEF Turned

\* What listRotateTail does to the links.
Turns(nx, pv, s, n, nx1, pv1) ==
  /\ nx1[s[n]] = s[1] /\ pv1[s[n]] = Null
  /\ \A i \in 1..n - 1 : /\ nx1[s[i]] = IF i = n - 1 THEN Null ELSE nx[s[i]]
                         /\ pv1[s[i]] = IF i = 1 THEN s[n] ELSE pv[s[i]]

LEMMA Turning ==
  ASSUME NEW nx, NEW pv, NEW h, NEW t, NEW s, Strung(nx, pv, h, t, s), NEW n \in Nat, n = Len(s), n > 1,
         NEW r, Turned(s, r, n), NEW nx1, NEW pv1, Turns(nx, pv, s, n, nx1, pv1)
  PROVE  Strung(nx1, pv1, s[n], s[n - 1], r) /\ ToSet(r) = ToSet(s)
<1>1. /\ OneToOne(s) /\ (\A a, b \in 1..n : s[a] = s[b] => a = b)
      /\ \A i \in 1..n : s[i] \in Nodes /\ nx[s[i]] = NodeAt(s, i + 1) /\ pv[s[i]] = NodeAt(s, i - 1)
  <2>1. OneToOne(s) /\ \A i \in 1..n : s[i] \in Nodes /\ nx[s[i]] = NodeAt(s, i + 1) /\ pv[s[i]] = NodeAt(s, i - 1)
    BY StrungIs
  <2>2. \A a, b \in 1..n : s[a] = s[b] => a = b
    BY <2>1 DEF OneToOne
  <2> QED BY <2>1, <2>2
<1>2. r \in Seq(Nodes) /\ Len(r) = n /\ r[1] = s[n] /\ \A i \in 2..n : r[i] = s[i - 1]
  BY DEF Turned
<1>3. ASSUME NEW i \in 1..n, NEW j \in 1..n, r[i] = r[j]
      PROVE  i = j
  <2>1. \A x \in 1..n : \E y \in 1..n : r[x] = s[y] /\ y = IF x = 1 THEN n ELSE x - 1
    <3> TAKE x \in 1..n
    <3>1. CASE x = 1
      <4>1. n \in 1..n
        OBVIOUS
      <4> QED BY <1>2, <3>1, <4>1
    <3>2. CASE x # 1
      <4>1. x \in 2..n /\ x - 1 \in 1..n
        BY <3>2
      <4> QED BY <1>2, <3>2, <4>1
    <3> QED BY <3>1, <3>2
  <2>2. PICK a \in 1..n : r[i] = s[a] /\ a = IF i = 1 THEN n ELSE i - 1
    BY <2>1
  <2>3. PICK b \in 1..n : r[j] = s[b] /\ b = IF j = 1 THEN n ELSE j - 1
    BY <2>1
  <2>4. a = b
    <3>1. s[a] = s[b]
      BY <1>3, <2>2, <2>3
    <3> QED BY <1>1, <3>1
  <2> QED BY <2>2, <2>3, <2>4
<1>4. OneToOne(r)
  BY <1>2, <1>3 DEF OneToOne
<1>5. NodeAt(r, 1) = s[n] /\ NodeAt(r, n) = s[n - 1] /\ n \in 2..n
  BY <1>2 DEF NodeAt
<1>6. /\ nx1[s[n]] = s[1] /\ pv1[s[n]] = Null
      /\ \A i \in 1..n - 1 : /\ nx1[s[i]] = IF i = n - 1 THEN Null ELSE nx[s[i]]
                             /\ pv1[s[i]] = IF i = 1 THEN s[n] ELSE pv[s[i]]
  BY DEF Turns
<1>7. nx1[r[1]] = NodeAt(r, 2) /\ pv1[r[1]] = NodeAt(r, 0)
  <2>1. 2 \in 2..n /\ 2 \in 1..n /\ 2 - 1 = 1 /\ 0 \notin 1..n
    OBVIOUS
  <2>2. NodeAt(r, 2) = s[1] /\ NodeAt(r, 0) = Null
    BY <1>2, <2>1 DEF NodeAt
  <2> QED BY <1>2, <1>6, <2>2
<1>8. ASSUME NEW i \in 1..n - 1
      PROVE  nx1[r[i + 1]] = NodeAt(r, i + 2) /\ pv1[r[i + 1]] = NodeAt(r, i)
  <2>1. i + 1 \in 2..n /\ (i + 1) - 1 = i /\ i \in 1..n
    OBVIOUS
  <2>2. r[i + 1] = s[i]
    BY <1>2, <2>1
  <2>3. nx1[s[i]] = NodeAt(r, i + 2)
    <3>1. CASE i = n - 1
      <4>1. i + 2 \notin 1..n
        BY <3>1
      <4> QED BY <1>2, <1>6, <3>1, <4>1 DEF NodeAt
    <3>2. CASE i # n - 1
      <4>1. i + 2 \in 2..n /\ i + 2 \in 1..n /\ (i + 2) - 1 = i + 1 /\ i + 1 \in 1..n
        BY <3>2
      <4>2. nx[s[i]] = s[i + 1]
        BY <1>1, <2>1, <4>1 DEF NodeAt
      <4>3. NodeAt(r, i + 2) = s[i + 1]
        BY <1>2, <4>1 DEF NodeAt
      <4> QED BY <1>6, <3>2, <4>2, <4>3
    <3> QED BY <3>1, <3>2
  <2>4. pv1[s[i]] = NodeAt(r, i)
    <3>1. CASE i = 1
      BY <1>5, <1>6, <3>1
    <3>2. CASE i # 1
      <4>1. i \in 2..n /\ i - 1 \in 1..n
        BY <3>2
      <4>2. pv[s[i]] = s[i - 1]
        BY <1>1, <2>1, <4>1 DEF NodeAt
      <4>3. NodeAt(r, i) = s[i - 1]
        BY <1>2, <2>1, <4>1 DEF NodeAt
      <4> QED BY <1>6, <3>2, <4>2, <4>3
    <3> QED BY <3>1, <3>2
  <2> QED BY <2>2, <2>3, <2>4
<1>9. ASSUME NEW i \in 1..n
      PROVE  nx1[r[i]] = NodeAt(r, i + 1) /\ pv1[r[i]] = NodeAt(r, i - 1)
  <2>1. CASE i = 1
    <3>1. i + 1 = 2 /\ i - 1 = 0
      BY <2>1
    <3> QED BY <1>7, <2>1, <3>1
  <2>2. CASE i # 1
    <3>1. PICK k \in 1..n - 1 : i = k + 1 /\ i + 1 = k + 2 /\ i - 1 = k
      <4>1. i - 1 \in 1..n - 1 /\ i = (i - 1) + 1 /\ i + 1 = (i - 1) + 2
        BY <2>2
      <4> QED BY <4>1
    <3> QED BY <1>8, <3>1
  <2> QED BY <2>1, <2>2
<1>10. ToSet(r) = ToSet(s)
  <2>1. ToSet(r) = {r[i] : i \in 1..n} /\ ToSet(s) = {s[i] : i \in 1..n}
    BY <1>1, <1>2, <1>4, Counted
  <2>2. \A i \in 1..n : \E k \in 1..n : r[i] = s[k]
    <3> TAKE i \in 1..n
    <3>1. n \in 1..n /\ (i = 1 \/ (i \in 2..n /\ i - 1 \in 1..n))
      OBVIOUS
    <3> QED BY <1>2, <3>1
  <2>3. \A i \in 1..n : \E k \in 1..n : s[i] = r[k]
    <3> TAKE i \in 1..n
    <3>1. CASE i = n
      <4>1. 1 \in 1..n
        OBVIOUS
      <4> QED BY <1>2, <3>1, <4>1
    <3>2. CASE i # n
      <4>1. i + 1 \in 2..n /\ i + 1 \in 1..n /\ (i + 1) - 1 = i
        BY <3>2
      <4> QED BY <1>2, <4>1
    <3> QED BY <3>1, <3>2
  <2>4. \A i \in 1..n : r[i] \in ToSet(s) /\ s[i] \in ToSet(r)
    <3> TAKE i \in 1..n
    <3>1. r[i] \in ToSet(s)
      BY <2>1, <2>2
    <3>2. s[i] \in ToSet(r)
      BY <2>1, <2>3
    <3> QED BY <3>1, <3>2
  <2> QED BY <2>1, <2>4
<1> QED BY <1>2, <1>4, <1>5, <1>9, <1>10 DEF Strung

LEMMA RotatingTail ==
  ASSUME NodesTyped, NEW c, NEW d, TwoLists(c, d), Iterates(c), RotateTail, NEW r, r = <<Last(c)>> \o Front(c)
  PROVE  NodesTyped' /\ TwoLists(r, d)' /\ Iterates(r)'
<1>1. PICK n \in Nat : n = Len(c)
  BY TwoListsAre
<1>2. /\ Strung(next, prev, head[1], tail[1], c) /\ Strung(next, prev, head[2], tail[2], d)
      /\ len[1] = n /\ len[2] = Len(d)
      /\ ToSet(c) \cap ToSet(d) = {} /\ used = ToSet(c) \cup ToSet(d)
  BY <1>1 DEF TwoLists
<1>3. n > 1
  BY <1>2 DEF RotateTail
<1>4. 1 \in 1..n /\ n \in 1..n /\ n - 1 \in 1..n /\ 1 # n /\ n # n - 1
  BY <1>3
<1>5. /\ head[1] = c[1] /\ tail[1] = c[n] /\ prev[c[n]] = c[n - 1]
      /\ \A i \in 1..n : c[i] \in Nodes
      /\ \A a, b \in 1..n : c[a] = c[b] => a = b
  <2>1. /\ head[1] = NodeAt(c, 1) /\ tail[1] = NodeAt(c, n)
        /\ \A i \in 1..n : c[i] \in Nodes /\ NodeAt(c, i) = c[i] /\ prev[c[i]] = NodeAt(c, i - 1)
    BY <1>1, TwoListsAre
  <2>2. \A a, b \in 1..n : c[a] = c[b] => a = b
    BY <1>1, TwoListsAre DEF OneToOne
  <2> QED BY <1>4, <2>1, <2>2
<1>6. /\ ~Iterating
      /\ tail' = [tail EXCEPT ![1] = c[n - 1]] /\ head' = [head EXCEPT ![1] = c[n]]
      /\ next' = [next EXCEPT ![c[n - 1]] = Null, ![c[n]] = c[1]]
      /\ prev' = [prev EXCEPT ![c[1]] = c[n], ![c[n]] = Null]
      /\ UNCHANGED <<len, value, used, iter, history>>
  BY <1>5 DEF RotateTail
<1>7. PICK x, y, z \in Nodes : x = c[1] /\ y = c[n - 1] /\ z = c[n] /\ x # z /\ y # z
  BY <1>4, <1>5
<1>8. /\ \A m \in Nodes : next'[m] = IF m = z THEN x ELSE IF m = y THEN Null ELSE next[m]
      /\ \A m \in Nodes : prev'[m] = IF m = z THEN Null ELSE IF m = x THEN z ELSE prev[m]
  BY <1>6, <1>7 DEF NodesTyped
<1>9. Turns(next, prev, c, n, next', prev')
  <2>1. \A i \in 1..n - 1 : i \in 1..n /\ i # n
    OBVIOUS
  <2>2. \A i \in 1..n - 1 : c[i] \in Nodes /\ c[i] # z /\ (c[i] = y <=> i = n - 1) /\ (c[i] = x <=> i = 1)
    BY <1>4, <1>5, <1>7, <2>1
  <2>3. \A i \in 1..n - 1 : /\ next'[c[i]] = IF i = n - 1 THEN Null ELSE next[c[i]]
                            /\ prev'[c[i]] = IF i = 1 THEN c[n] ELSE prev[c[i]]
    BY <1>7, <1>8, <2>2
  <2>4. next'[c[n]] = c[1] /\ prev'[c[n]] = Null
    BY <1>7, <1>8
  <2> QED BY <2>3, <2>4 DEF Turns
<1>10. Turned(c, r, n)
  BY <1>1, <1>3, TwoListsAre, TurnedIs
<1>11. Strung(next', prev', c[n], c[n - 1], r) /\ ToSet(r) = ToSet(c)
  BY <1>1, <1>2, <1>3, <1>9, <1>10, Turning
<1>12. head'[1] = c[n] /\ tail'[1] = c[n - 1] /\ head'[2] = head[2] /\ tail'[2] = tail[2]
  BY <1>6 DEF NodesTyped, Lists
<1>13. \A m \in ToSet(d) : next'[m] = next[m] /\ prev'[m] = prev[m]
  <2>1. x \in ToSet(c) /\ y \in ToSet(c) /\ z \in ToSet(c)
    <3>1. \A i \in 1..n : c[i] \in ToSet(c)
      BY <1>1, TwoListsAre
    <3> QED BY <1>4, <1>7, <3>1
  <2>2. ToSet(d) \subseteq Nodes
    BY TwoListsAre, Counted
  <2> QED BY <1>2, <1>8, <2>1, <2>2
<1>14. Strung(next', prev', head'[2], tail'[2], d)
  BY <1>2, <1>12, <1>13, StrungStill
<1>15. Len(r) = n
  BY <1>10 DEF Turned
<1>16. TwoLists(r, d)'
  BY <1>2, <1>6, <1>11, <1>12, <1>14, <1>15 DEF TwoLists
<1>17. Iterates(r)'
  BY <1>6, IteratesIs DEF Iterates, Watches, history
<1>18. NodesTyped'
  BY <1>5, <1>4, <1>6 DEF NodesTyped, Lists, history
<1> QED BY <1>16, <1>17, <1>18

\* As many different free nodes as memory has at least.
LEMMA NewNodes ==
  ASSUME NEW n \in Nat, Memory(n)
  PROVE  \E q \in [1..n -> Nodes \ used] : \A i, j \in 1..n : q[i] = q[j] => i = j
<1>1. IsFiniteSet(Nodes \ used)
  <2>1. IsFiniteSet(Nodes)
    BY FS_Interval, ListAssumption DEF Nodes
  <2>2. (Nodes \ used) \in SUBSET Nodes
    OBVIOUS
  <2> QED BY <2>1, <2>2, FS_Subset
<1>2. PICK m \in Nat : m = Cardinality(Nodes \ used)
  BY <1>1, FS_CardinalityType
<1>3. ExistsBijection(1..m, Nodes \ used)
  BY <1>1, <1>2, FS_CardinalityType
<1>4. PICK f \in Bijection(1..m, Nodes \ used) : TRUE
  BY <1>3 DEF ExistsBijection
<1>5. f \in [1..m -> Nodes \ used] /\ \A i, j \in 1..m : f[i] = f[j] => i = j
  BY <1>4 DEF Bijection, Injection, IsInjective
<1>6. n <= m
  BY <1>2 DEF Memory
<1>7. PICK q : q = [i \in 1..n |-> f[i]]
  OBVIOUS
<1>8. \A i \in 1..n : i \in 1..m
  BY <1>6
<1>9. q \in [1..n -> Nodes \ used] /\ \A i \in 1..n : q[i] = f[i]
  BY <1>5, <1>7, <1>8
<1>10. \A i, j \in 1..n : q[i] = q[j] => i = j
  BY <1>5, <1>8, <1>9
<1> QED BY <1>9, <1>10

LEMMA Duplicating ==
  ASSUME NodesTyped, NEW c, NEW d, TwoLists(c, d), Iterates(c), Dup
  PROVE  /\ NodesTyped' /\ Iterates(c)'
         /\ \E q : TwoLists(c, q)' /\ Len(q) = Len(c) /\ \A i \in 1..Len(c) : value'[q[i]] = value[c[i]]
                                                                            /\ value'[c[i]] = value[c[i]]
<1>1. PICK n \in Nat : n = Len(c)
  BY TwoListsAre
<1>2. /\ Strung(next, prev, head[1], tail[1], c) /\ Strung(next, prev, head[2], tail[2], d)
      /\ len[1] = n /\ len[2] = Len(d)
      /\ ToSet(c) \cap ToSet(d) = {} /\ used = ToSet(c) \cup ToSet(d)
  BY <1>1 DEF TwoLists
<1>3. DEFINE Q(q) == \A i, j \in 1..n : q[i] = q[j] => i = j
             q == CHOOSE q \in [1..n -> Nodes \ used] : Q(q)
             at == [m \in ToSet(q) |-> CHOOSE i \in DOMAIN q : q[i] = m]
<1>4. n > 0 /\ head[2] = Null /\ Memory(n)
  BY <1>2 DEF Dup
<1>5. q \in [1..n -> Nodes \ used] /\ Q(q)
  <2>1. \E p \in [1..n -> Nodes \ used] : Q(p)
    BY <1>4, NewNodes
  <2> HIDE DEF Q
  <2> QED BY <2>1
<1>6. ListContents = c
  BY ListContentsAre
<1>7. /\ used' = used \cup ToSet(q)
      /\ head' = [head EXCEPT ![2] = q[1]] /\ tail' = [tail EXCEPT ![2] = Last(q)]
      /\ value' = [m \in Nodes |-> IF m \in ToSet(q) THEN value[c[at[m]]] ELSE value[m]]
      /\ next' = [m \in Nodes |-> IF m \notin ToSet(q) THEN next[m]
                                  ELSE IF at[m] = Len(q) THEN Null ELSE q[at[m] + 1]]
      /\ prev' = [m \in Nodes |-> IF m \notin ToSet(q) THEN prev[m]
                                  ELSE IF at[m] = 1 THEN Null ELSE q[at[m] - 1]]
      /\ len' = [len EXCEPT ![2] = n]
      /\ UNCHANGED <<iter, history>>
  BY <1>2, <1>6 DEF Dup, Copied
<1>8. DOMAIN q = 1..n /\ ToSet(q) = {q[i] : i \in 1..n}
  <2> HIDE DEF q
  <2> QED BY <1>5 DEF ToSet
<1>9. \A i \in 1..n : q[i] \in ToSet(q) /\ at[q[i]] = i
  <2> TAKE i \in 1..n
  <2>1. q[i] \in ToSet(q)
    BY <1>8
  <2>2. \A k \in 1..n : q[k] = q[i] <=> k = i
    BY <1>5
  <2> HIDE DEF q
  <2>3. at[q[i]] = CHOOSE k \in 1..n : q[k] = q[i]
    BY <1>8, <2>1
  <2> QED BY <2>1, <2>2, <2>3
<1> HIDE DEF q, at
<1>10. q \in Seq(Nodes) /\ Len(q) = n
  BY <1>5, <1>8
<1>11. \A i \in 1..n : q[i] \in Nodes /\ q[i] \notin used
  BY <1>5
<1>12. OneToOne(q)
  BY <1>5, <1>10 DEF OneToOne
<1>13. 1 \in 1..n /\ n \in 1..n
  BY <1>4
<1>14. head'[2] = q[1] /\ tail'[2] = q[n] /\ head'[1] = head[1] /\ tail'[1] = tail[1] /\ len'[1] = len[1] /\ len'[2] = n
  BY <1>7, <1>10 DEF NodesTyped, Lists, Last
<1>15. \A i \in 1..n : /\ next'[q[i]] = IF i = n THEN Null ELSE q[i + 1]
                       /\ prev'[q[i]] = IF i = 1 THEN Null ELSE q[i - 1]
                       /\ value'[q[i]] = value[c[i]]
  BY <1>7, <1>9, <1>10, <1>11
<1>16. \A i \in 1..n : NodeAt(q, i + 1) = (IF i = n THEN Null ELSE q[i + 1])
                       /\ NodeAt(q, i - 1) = (IF i = 1 THEN Null ELSE q[i - 1])
  BY <1>10 DEF NodeAt
<1>17. Strung(next', prev', head'[2], tail'[2], q)
  <2>1. NodeAt(q, 1) = q[1] /\ NodeAt(q, n) = q[n]
    BY <1>10, <1>13 DEF NodeAt
  <2>2. \A i \in 1..Len(q) : next'[q[i]] = NodeAt(q, i + 1) /\ prev'[q[i]] = NodeAt(q, i - 1)
    BY <1>10, <1>15, <1>16
  <2> QED BY <1>10, <1>12, <1>14, <2>1, <2>2 DEF Strung
<1>18. ToSet(c) \cap ToSet(q) = {} /\ ToSet(c) \subseteq Nodes
  <2>1. ToSet(q) \cap used = {}
    BY <1>8, <1>11
  <2>2. ToSet(c) \subseteq Nodes
    BY TwoListsAre, Counted
  <2> QED BY <1>2, <2>1, <2>2
<1>19. \A m \in ToSet(c) : next'[m] = next[m] /\ prev'[m] = prev[m] /\ value'[m] = value[m]
  BY <1>7, <1>18
<1>20. Strung(next', prev', head'[1], tail'[1], c)
  BY <1>2, <1>14, <1>19, StrungStill
<1>21. ToSet(d) = {}
  <2>1. Len(d) \in Nat /\ OneToOne(d) /\ (\A i \in Int : NodeAt(d, i) = Null <=> i \notin 1..Len(d)) /\ NodeAt(d, 1) = Null
    BY <1>2, <1>4, StrungIs
  <2>2. ToSet(d) = {d[i] : i \in 1..Len(d)}
    BY <2>1, Counted
  <2>3. 1..Len(d) = {}
    BY <2>1
  <2> QED BY <2>2, <2>3
<1>22. PICK k : k = q
  OBVIOUS
<1>23. TwoLists(c, k)'
  BY <1>1, <1>2, <1>7, <1>10, <1>14, <1>17, <1>18, <1>20, <1>21, <1>22 DEF TwoLists
<1>24. Iterates(c)'
  BY <1>7 DEF Iterates, history
<1>25. NodesTyped'
  <2>1. \A m \in ToSet(q) : \E i \in 1..n : m = q[i]
    BY <1>8
  <2>2. \A m \in Nodes : next'[m] \in Nodes \cup {Null} /\ prev'[m] \in Nodes \cup {Null}
    <3> TAKE m \in Nodes
    <3>1. CASE m \in ToSet(q)
      <4>1. PICK i \in 1..n : m = q[i]
        BY <2>1, <3>1
      <4>2. (i # n => i + 1 \in 1..n) /\ (i # 1 => i - 1 \in 1..n)
        OBVIOUS
      <4> QED BY <1>11, <1>15, <4>1, <4>2
    <3>2. CASE m \notin ToSet(q)
      BY <1>7, <3>2 DEF NodesTyped
    <3> QED BY <3>1, <3>2
  <2>3. \A m \in Nodes : value'[m] \in Nodes \cup {Null}
    <3> TAKE m \in Nodes
    <3>1. CASE m \in ToSet(q)
      <4>1. PICK i \in 1..n : m = q[i]
        BY <2>1, <3>1
      <4>2. c[i] \in Nodes
        BY <1>1, TwoListsAre
      <4> QED BY <1>15, <4>1, <4>2 DEF NodesTyped
    <3>2. CASE m \notin ToSet(q)
      BY <1>7, <3>2 DEF NodesTyped
    <3> QED BY <3>1, <3>2
  <2>4. next' \in [Nodes -> Nodes \cup {Null}] /\ prev' \in [Nodes -> Nodes \cup {Null}]
        /\ value' \in [Nodes -> Nodes \cup {Null}]
    BY <1>7, <2>2, <2>3
  <2>5. head' \in [Lists -> Nodes \cup {Null}] /\ tail' \in [Lists -> Nodes \cup {Null}] /\ len' \in [Lists -> Int]
    <3>1. q[1] \in Nodes /\ Last(q) \in Nodes
      BY <1>10, <1>11, <1>13 DEF Last
    <3> QED BY <1>7, <3>1 DEF NodesTyped, Lists
  <2> QED BY <1>7, <2>4, <2>5 DEF NodesTyped, history
<1>26. \A i \in 1..n : value'[q[i]] = value[c[i]] /\ value'[c[i]] = value[c[i]]
  <2>1. \A i \in 1..n : c[i] \in ToSet(c)
    BY <1>1, TwoListsAre
  <2> QED BY <1>15, <1>19, <2>1
<1> QED BY <1>1, <1>10, <1>22, <1>23, <1>24, <1>25, <1>26

\* The inductive invariant.
ListInv == NodesTyped /\ \E c, d : TwoLists(c, d) /\ Iterates(c)

LEMMA ListInvStarts == ListInit => ListInv
<1> SUFFICES ASSUME ListInit
             PROVE  ListInv
  OBVIOUS
<1>1. NodesTyped
  BY DEF ListInit, NodesTyped, Lists
<1>2. head[1] = Null /\ head[2] = Null /\ tail[1] = Null /\ tail[2] = Null /\ len[1] = 0 /\ len[2] = 0 /\ used = {}
  BY DEF ListInit, Lists
<1>3. Strung(next, prev, Null, Null, << >>)
  BY StrungEmpty
<1>4. TwoLists(<< >>, << >>)
  BY <1>2, <1>3, EmptyIs DEF TwoLists
<1>5. Iterates(<< >>)
  BY DEF ListInit, Iterates, Watches
<1> QED BY <1>1, <1>4, <1>5 DEF ListInv

LEMMA ListInvSteps ==
  ASSUME ListInv, [ListStep]_listVars
  PROVE  ListInv'
<1>1. NodesTyped
  BY DEF ListInv
<1>2. PICK c, d : TwoLists(c, d) /\ Iterates(c)
  BY DEF ListInv
<1>3. ASSUME NEW r, NEW q, NodesTyped', TwoLists(r, q)', Iterates(r)'
      PROVE  ListInv'
  BY <1>3 DEF ListInv
<1>4. CASE AddNodeHead
  BY <1>1, <1>2, <1>3, <1>4, AddingHead
<1>5. CASE AddNodeTail
  BY <1>1, <1>2, <1>3, <1>5, AddingTail
<1>6. ASSUME NEW n \in Nodes, NEW after \in BOOLEAN, InsertNode(n, after)
      PROVE  ListInv'
  <2>1. Contains(ListContents, n)
    BY <1>6 DEF InsertNode
  <2>2. PICK i \in 1..Len(c) : n = c[i]
    BY <1>2, <2>1, ContainedIs
  <2>3. PICK p, r : p = i + (IF after THEN 1 ELSE 0) /\ r = InsertAt(c, p, Fresh)
    OBVIOUS
  <2> QED BY <1>1, <1>2, <1>3, <1>6, <2>2, <2>3, InsertingNode
<1>7. ASSUME NEW n \in Nodes, DelNode(n)
      PROVE  ListInv'
  <2>1. Contains(ListContents, n)
    BY <1>7 DEF DelNode
  <2>2. PICK i \in 1..Len(c) : n = c[i]
    BY <1>2, <2>1, ContainedIs
  <2> QED BY <1>1, <1>2, <1>3, <1>7, <2>2, DeletingNode
<1>8. ASSUME NEW dir \in {"head", "tail"}, StartIterator(dir)
      PROVE  ListInv'
  BY <1>1, <1>2, <1>3, <1>8, Starting DEF IterDirs
<1>9. CASE ListNext
  BY <1>1, <1>2, <1>3, <1>9, ListStepping
<1>10. CASE EndIterator
  BY <1>1, <1>2, <1>3, <1>10, Ending
<1>11. CASE RotateTail
  BY <1>1, <1>2, <1>3, <1>11, RotatingTail
<1>12. CASE Dup
  BY <1>1, <1>2, <1>3, <1>12, Duplicating
<1>13. ASSUME NEW l \in Lists, Release(l)
       PROVE  ListInv'
  <2>1. l = 1 \/ l = 2
    BY DEF Lists
  <2> QED BY <1>1, <1>2, <1>3, <1>13, <2>1, Releasing
<1>14. CASE UNCHANGED listVars
  <2>1. NodesTyped' /\ TwoLists(c, d)' /\ Iterates(c)'
    BY <1>1, <1>2, <1>14 DEF listVars, NodesTyped, TwoLists, Iterates
  <2> QED BY <1>3, <2>1
<1> QED BY <1>4, <1>5, <1>6, <1>7, <1>8, <1>9, <1>10, <1>11, <1>12, <1>13, <1>14 DEF ListStep

\* The rests of s, as sets.
LEMMA RestSets ==
  ASSUME NEW s \in Seq(Nodes), NEW n \in Nat, n = Len(s)
  PROVE  /\ \A k \in 1..n + 1 : ToSet(Rest(s, k)) = {s[i] : i \in k..n}
         /\ \A k \in 0..n : ToSet(Back(s, k)) = {s[i] : i \in 1..k}
<1>1. ASSUME NEW k \in 1..n + 1
      PROVE  ToSet(Rest(s, k)) = {s[i] : i \in k..n}
  <2>1. PICK r : r = Rest(s, k)
    OBVIOUS
  <2>2. r = [i \in 1..n + 1 - k |-> s[k + i - 1]]
    BY <2>1 DEF Rest
  <2>3. ToSet(r) = {r[i] : i \in 1..n + 1 - k}
    BY <2>2 DEF ToSet
  <2>4. \A i \in 1..n + 1 - k : r[i] \in {s[a] : a \in k..n}
    <3> TAKE i \in 1..n + 1 - k
    <3>1. k + i - 1 \in k..n
      OBVIOUS
    <3> QED BY <2>2, <3>1
  <2>5. \A i \in k..n : s[i] \in {r[a] : a \in 1..n + 1 - k}
    <3> TAKE i \in k..n
    <3>1. i + 1 - k \in 1..n + 1 - k /\ k + (i + 1 - k) - 1 = i
      OBVIOUS
    <3>2. r[i + 1 - k] = s[i]
      BY <2>2, <3>1
    <3> QED BY <3>1, <3>2
  <2>6. {r[i] : i \in 1..n + 1 - k} = {s[i] : i \in k..n}
    <3>1. {r[i] : i \in 1..n + 1 - k} \subseteq {s[i] : i \in k..n}
      BY <2>4
    <3>2. {s[i] : i \in k..n} \subseteq {r[i] : i \in 1..n + 1 - k}
      BY <2>5
    <3> QED BY <3>1, <3>2
  <2> QED BY <2>1, <2>3, <2>6
<1>2. ASSUME NEW k \in 0..n
      PROVE  ToSet(Back(s, k)) = {s[i] : i \in 1..k}
  <2>1. PICK r : r = Back(s, k)
    OBVIOUS
  <2>2. r = [i \in 1..k |-> s[k + 1 - i]]
    BY <2>1 DEF Back
  <2>3. ToSet(r) = {r[i] : i \in 1..k}
    BY <2>2 DEF ToSet
  <2>4. \A i \in 1..k : r[i] \in {s[a] : a \in 1..k}
    <3> TAKE i \in 1..k
    <3>1. k + 1 - i \in 1..k
      OBVIOUS
    <3> QED BY <2>2, <3>1
  <2>5. \A i \in 1..k : s[i] \in {r[a] : a \in 1..k}
    <3> TAKE i \in 1..k
    <3>1. k + 1 - i \in 1..k /\ k + 1 - (k + 1 - i) = i
      OBVIOUS
    <3>2. r[k + 1 - i] = s[i]
      BY <2>2, <3>1
    <3> QED BY <3>1, <3>2
  <2>6. {r[i] : i \in 1..k} = {s[i] : i \in 1..k}
    <3>1. {r[i] : i \in 1..k} \subseteq {s[i] : i \in 1..k}
      BY <2>4
    <3>2. {s[i] : i \in 1..k} \subseteq {r[i] : i \in 1..k}
      BY <2>5
    <3> QED BY <3>1, <3>2
  <2> QED BY <2>1, <2>3, <2>6
<1> QED BY <1>1, <1>2

LEMMA ListsAreListsThen ==
  ASSUME NEW c, NEW d, TwoLists(c, d)
  PROVE  ListsAreLists
<1>1. ListContents = c /\ Chain(next, head[1]) = c /\ Chain(next, head[2]) = d
      /\ Chain(prev, tail[1]) = Reverse(c) /\ Chain(prev, tail[2]) = Reverse(d)
  BY ListContentsAre DEF ListContents
<1>2. len[1] = Len(c) /\ len[2] = Len(d) /\ ToSet(c) \cap ToSet(d) = {} /\ used = ToSet(c) \cup ToSet(d)
  BY DEF TwoLists
<1>3. OneToOne(c) /\ OneToOne(d)
  BY TwoListsAre
<1>4. Cardinality(ToSet(c)) = Len(c) /\ Cardinality(ToSet(d)) = Len(d)
  BY <1>3, Counted
<1> QED BY <1>1, <1>2, <1>4 DEF ListsAreLists, Lists

LEMMA IteratorSeesAllThen ==
  ASSUME NEW c, NEW d, TwoLists(c, d), Iterates(c)
  PROVE  IteratorSeesAll
<1> SUFFICES ASSUME Iterating
             PROVE  LET rest == Chain(IF iter.direction = "head" THEN next ELSE prev, iter.next)
                    IN  /\ ToSet(rest) \subseteq ToSet(ListContents)
                        /\ ToSet(rest) \cap watched = left
  BY DEF IteratorSeesAll
<1>1. PICK n \in Nat : n = Len(c)
  BY TwoListsAre
<1>2. PICK k \in Int : ComesTo(iter, current, watched, left, c, k)
  BY IteratesIs
<1>3. PICK dir \in IterDirs : dir = iter.direction
  BY <1>2 DEF ComesTo
<1>4. /\ k \in IterStops(n, dir) /\ iter.next = NodeAt(c, k)
      /\ watched \subseteq ToSet(c) /\ left \subseteq watched
      /\ \A i \in 1..n : c[i] \in watched => (c[i] \in left <=> IsAhead(i, k, dir))
  BY <1>1, <1>2, <1>3 DEF ComesTo
<1>5. Strung(next, prev, head[1], tail[1], c)
  BY DEF TwoLists
<1>6. PICK rest : rest = Chain(IF iter.direction = "head" THEN next ELSE prev, iter.next)
  OBVIOUS
<1>7. c \in Seq(Nodes) /\ ToSet(c) = {c[i] : i \in 1..n} /\ (\A a, b \in 1..n : c[a] = c[b] => a = b)
  BY <1>1, TwoListsAre DEF OneToOne
<1>8. ToSet(rest) = {c[i] : i \in {i \in 1..n : IsAhead(i, k, dir)}}
  <2>1. CASE dir = "head"
    <3>1. k \in 1..n + 1 /\ {i \in 1..n : IsAhead(i, k, dir)} = k..n
      BY <1>4, <2>1 DEF IterStops, IsAhead
    <3>2. rest = Rest(c, k)
      BY <1>1, <1>3, <1>4, <1>5, <1>6, <2>1, <3>1, ChainsAre
    <3>3. ToSet(Rest(c, k)) = {c[i] : i \in k..n}
      BY <1>1, <1>7, <3>1, RestSets
    <3> QED BY <3>1, <3>2, <3>3
  <2>2. CASE dir # "head"
    <3>1. k \in 0..n /\ {i \in 1..n : IsAhead(i, k, dir)} = 1..k
      BY <1>4, <2>2 DEF IterStops, IsAhead
    <3>2. rest = Back(c, k)
      BY <1>1, <1>3, <1>4, <1>5, <1>6, <2>2, <3>1, ChainsAre
    <3>3. ToSet(Back(c, k)) = {c[i] : i \in 1..k}
      BY <1>1, <1>7, <3>1, RestSets
    <3> QED BY <3>1, <3>2, <3>3
  <2> QED BY <2>1, <2>2
<1>9. ToSet(rest) \subseteq ToSet(c)
  BY <1>7, <1>8
<1>10. ASSUME NEW m \in ToSet(rest) \cap watched
       PROVE  m \in left
  BY <1>4, <1>8, <1>10
<1>11. ASSUME NEW m \in left
       PROVE  m \in ToSet(rest) \cap watched
  <2>1. PICK i \in 1..n : m = c[i]
    BY <1>4, <1>7, <1>11
  <2> QED BY <1>4, <1>8, <1>11, <2>1
<1>12. ListContents = c
  BY ListContentsAre
<1> QED BY <1>6, <1>9, <1>10, <1>11, <1>12

LEMMA IndexCountsThen ==
  ASSUME NEW c, NEW d, TwoLists(c, d)
  PROVE  IndexCountsBothWays
<1>1. PICK n \in Nat : n = Len(c) /\ n = len[1] /\ n <= MaxNodes
  BY TwoListsAre
<1>2. ListContents = c
  BY ListContentsAre
<1>3. Strung(next, prev, head[1], tail[1], c)
  BY DEF TwoLists
<1>4. head[1] = NodeAt(c, 1) /\ tail[1] = NodeAt(c, n)
  BY <1>1, TwoListsAre
<1>5. Leads(next, head[1], Rest(c, 1)) /\ Leads(prev, tail[1], Back(c, n))
  <2>1. 1 \in 1..n + 1 /\ n \in 0..n
    OBVIOUS
  <2> QED BY <1>1, <1>3, <1>4, <2>1, ChainsAre
<1>6. ASSUME NEW j \in Nat
      PROVE  /\ NodeAt(Rest(c, 1), j + 1) = IF j + 1 \in 1..n THEN c[j + 1] ELSE Null
             /\ NodeAt(Back(c, n), j + 1) = IF j + 1 \in 1..n THEN c[n - j] ELSE Null
  <2>1. PICK r, b : r = Rest(c, 1) /\ b = Back(c, n)
    OBVIOUS
  <2>2. r = [i \in 1..n |-> c[i]] /\ b = [i \in 1..n |-> c[n + 1 - i]]
    <3>1. n + 1 - 1 = n /\ \A i \in 1..n : 1 + i - 1 = i
      OBVIOUS
    <3> QED BY <1>1, <2>1, <3>1 DEF Rest, Back
  <2>3. r \in Seq(Nodes) /\ b \in Seq(Nodes)
    BY <1>5, <2>1 DEF Leads
  <2>4. Len(r) = n /\ Len(b) = n
    BY <2>2, <2>3
  <2>5. n + 1 - (j + 1) = n - j
    OBVIOUS
  <2> QED BY <2>1, <2>2, <2>4, <2>5 DEF NodeAt
<1>7. ASSUME NEW i \in -MaxNodes..MaxNodes
      PROVE  Index(i) = IF i \in 0..len[1] - 1 THEN ListContents[i + 1]
                        ELSE IF -i \in 1..len[1] THEN ListContents[len[1] + i + 1]
                        ELSE Null
  <2>1. i \in Int /\ MaxNodes \in Nat
    BY ListAssumption
  <2>2. CASE i < 0
    <3>1. PICK j \in Nat : j = -i - 1 /\ j + 1 = -i /\ n - j = n + i + 1
      <4>1. -i - 1 \in Nat /\ (-i - 1) + 1 = -i /\ n - (-i - 1) = n + i + 1
        BY <2>1, <2>2
      <4> QED BY <4>1
    <3>2. Index(i) = Along(prev, tail[1], j)
      BY <2>2, <3>1 DEF Index
    <3>3. Along(prev, tail[1], j) = NodeAt(Back(c, n), j + 1)
      BY <1>5, AlongIs
    <3>4. i \notin 0..n - 1
      BY <2>2
    <3> QED BY <1>1, <1>2, <1>6, <3>1, <3>2, <3>3, <3>4
  <2>3. CASE ~(i < 0)
    <3>1. i \in Nat /\ (i + 1 \in 1..n <=> i \in 0..n - 1) /\ -i \notin 1..n
      BY <2>1, <2>3
    <3>2. Index(i) = Along(next, head[1], i)
      BY <2>3 DEF Index
    <3>3. Along(next, head[1], i) = NodeAt(Rest(c, 1), i + 1)
      BY <1>5, <3>1, AlongIs
    <3> QED BY <1>1, <1>2, <1>6, <3>1, <3>2, <3>3
  <2> QED BY <2>2, <2>3
<1> QED BY <1>7 DEF IndexCountsBothWays

LEMMA ListInvIsEnough == ListInv => ListsAreRight
<1> SUFFICES ASSUME ListInv
             PROVE  ListsAreRight
  OBVIOUS
<1>1. PICK c, d : TwoLists(c, d) /\ Iterates(c)
  BY DEF ListInv
<1>2. NodesTyped
  BY DEF ListInv
<1>3. Strung(next, prev, head[1], tail[1], c) /\ Strung(next, prev, head[2], tail[2], d)
      /\ len[1] = Len(c) /\ len[2] = Len(d) /\ used = ToSet(c) \cup ToSet(d)
  BY <1>1 DEF TwoLists
<1>4. OneToOne(c) /\ OneToOne(d)
  BY <1>3, StrungIs
<1>5. Len(c) \in 0..MaxNodes /\ Len(d) \in 0..MaxNodes /\ ToSet(c) \subseteq Nodes /\ ToSet(d) \subseteq Nodes
  <2>1. MaxNodes \in Nat
    BY ListAssumption
  <2> QED BY <1>4, <2>1, Counted
<1>6. len \in [Lists -> 0..MaxNodes]
  BY <1>2, <1>3, <1>5 DEF NodesTyped, Lists
<1>7. /\ iter \in [next : Nodes \cup {Null}, direction : {"head", "tail", "none"}]
      /\ watched \subseteq ToSet(c) /\ left \subseteq watched
  <2>1. CASE Iterating
    <3>1. PICK k \in Int : ComesTo(iter, current, watched, left, c, k)
      BY <1>1, <2>1, IteratesIs
    <3> QED BY <3>1 DEF ComesTo, IterDirs
  <2>2. CASE ~Iterating
    BY <1>1, <2>2, IteratesIs DEF NoIter
  <2> QED BY <2>1, <2>2
<1>8. ListTypeOK
  BY <1>2, <1>3, <1>5, <1>6, <1>7 DEF ListTypeOK, NodesTyped
<1> QED BY <1>1, <1>8, ListsAreListsThen, IteratorSeesAllThen, IndexCountsThen DEF ListsAreRight

\* What adlist.c's pointers always are: the list from head is a sequence of nodes
\* in use without repetitions, linked both ways and ended by tail, with len counting
\* it, for both lists, and the iterator's next is in its list and leads through all
\* it has not returned (adlist.c:83-420, 508-523).
THEOREM ListInvariance == ListSpec => []ListInv
<1>1. ListInv /\ [ListStep]_listVars => ListInv'
  BY ListInvSteps
<1> QED BY <1>1, ListInvStarts, PTL DEF ListSpec

\* After any operations on any nodes, in the middle of any iteration, both lists are
\* lists in both directions, an iteration has returned and is to return what it
\* should although nodes it returned were deleted, and listIndex counts from either
\* end (adlist.c:335-360, 485-503).
THEOREM ListsAlwaysRight == ListSpec => []ListsAreRight
BY ListInvariance, ListInvIsEnough, PTL

\* What is in the lists after a step.
LEMMA ContentsThen ==
  ASSUME NEW r, NEW q, TwoLists(r, q)'
  PROVE  ListContents' = r /\ Chain(next, head[2])' = q
<1>1. Strung(next', prev', head'[1], tail'[1], r) /\ Strung(next', prev', head'[2], tail'[2], q)
  BY DEF TwoLists
<1>2. Chain(next', head'[1]) = r /\ Chain(next', head'[2]) = q
  BY <1>1, WholeChains
<1> QED BY <1>2 DEF ListContents

\* The i-th of s is at i only.
LEMMA PlaceInList ==
  ASSUME NEW s, OneToOne(s), NEW i \in 1..Len(s)
  PROVE  (CHOOSE k \in DOMAIN s : s[k] = s[i]) = i
<1>1. DOMAIN s = 1..Len(s)
  BY DEF OneToOne
<1>2. \A k \in 1..Len(s) : s[k] = s[i] <=> k = i
  BY DEF OneToOne
<1> QED BY <1>1, <1>2

\* The property, of one step.
OnSequences ==
  LET c == ListContents  d == Chain(next, head[2])
      at(n) == CHOOSE i \in DOMAIN c : c[i] = n
      values(q) == [i \in DOMAIN q |-> value[q[i]]]
  IN  /\ AddNodeHead => ListContents' = <<Fresh>> \o c
      /\ AddNodeTail => ListContents' = Append(c, Fresh)
      /\ \A n \in ToSet(c), after \in BOOLEAN :
           InsertNode(n, after) => LET i == at(n) + (IF after THEN 1 ELSE 0)
                                      IN ListContents' = InsertAt(c, i, Fresh)
      /\ \A n \in ToSet(c) : DelNode(n) => ListContents' = RemoveAt(c, at(n))
      /\ RotateTail => ListContents' = <<Last(c)>> \o Front(c)
      /\ Dup => ListContents' = c /\ values(Chain(next, head[2]))' = values(c)
      /\ ~(Dup \/ Release(2)) => Chain(next, head[2])' = d

LEMMA StepOnSequences ==
  ASSUME ListInv, [ListStep]_listVars
  PROVE  OnSequences
<1>1. NodesTyped
  BY DEF ListInv
<1>2. PICK c, d : TwoLists(c, d) /\ Iterates(c)
  BY DEF ListInv
<1>3. ListContents = c /\ Chain(next, head[2]) = d
  BY <1>2, ListContentsAre
<1>4. OneToOne(c) /\ ToSet(c) = {c[i] : i \in 1..Len(c)} /\ c \in Seq(Nodes)
  BY <1>2, TwoListsAre
<1>5. ASSUME AddNodeHead
      PROVE  ListContents' = <<Fresh>> \o c /\ Chain(next, head[2])' = d
  <2>1. PICK r : r = <<Fresh>> \o c
    OBVIOUS
  <2>2. TwoLists(r, d)'
    BY <1>1, <1>2, <1>5, <2>1, AddingHead
  <2>3. ListContents' = r /\ Chain(next, head[2])' = d
    BY <2>2, ContentsThen
  <2> QED BY <2>1, <2>3
<1>6. ASSUME AddNodeTail
      PROVE  ListContents' = Append(c, Fresh) /\ Chain(next, head[2])' = d
  <2>1. PICK r : r = Append(c, Fresh)
    OBVIOUS
  <2>2. TwoLists(r, d)'
    BY <1>1, <1>2, <1>6, <2>1, AddingTail
  <2>3. ListContents' = r /\ Chain(next, head[2])' = d
    BY <2>2, ContentsThen
  <2> QED BY <2>1, <2>3
<1>7. ASSUME NEW i \in 1..Len(c), NEW after \in BOOLEAN, InsertNode(c[i], after)
      PROVE  ListContents' = InsertAt(c, i + (IF after THEN 1 ELSE 0), Fresh) /\ Chain(next, head[2])' = d
  <2>1. PICK p, r : p = i + (IF after THEN 1 ELSE 0) /\ r = InsertAt(c, p, Fresh)
    OBVIOUS
  <2>2. TwoLists(r, d)'
    BY <1>1, <1>2, <1>7, <2>1, InsertingNode
  <2>3. ListContents' = r /\ Chain(next, head[2])' = d
    BY <2>2, ContentsThen
  <2> QED BY <2>1, <2>3
<1>8. ASSUME NEW i \in 1..Len(c), DelNode(c[i])
      PROVE  ListContents' = RemoveAt(c, i) /\ Chain(next, head[2])' = d
  <2>1. PICK r : r = RemoveAt(c, i)
    OBVIOUS
  <2>2. TwoLists(r, d)'
    BY <1>1, <1>2, <1>8, <2>1, DeletingNode
  <2>3. ListContents' = r /\ Chain(next, head[2])' = d
    BY <2>2, ContentsThen
  <2> QED BY <2>1, <2>3
<1>9. ASSUME RotateTail
      PROVE  ListContents' = <<Last(c)>> \o Front(c) /\ Chain(next, head[2])' = d
  <2>1. PICK r : r = <<Last(c)>> \o Front(c)
    OBVIOUS
  <2>2. TwoLists(r, d)'
    BY <1>1, <1>2, <1>9, <2>1, RotatingTail
  <2>3. ListContents' = r /\ Chain(next, head[2])' = d
    BY <2>2, ContentsThen
  <2> QED BY <2>1, <2>3
<1>10. ASSUME Dup
       PROVE  /\ ListContents' = c
              /\ LET q == Chain(next', head'[2])
                 IN  [i \in DOMAIN q |-> value'[q[i]]] = [i \in DOMAIN c |-> value[c[i]]]
  <2>1. PICK q : TwoLists(c, q)' /\ Len(q) = Len(c) /\ \A i \in 1..Len(c) : value'[q[i]] = value[c[i]]
    BY <1>1, <1>2, <1>10, Duplicating
  <2>2. ListContents' = c /\ Chain(next', head'[2]) = q
    BY <2>1, ContentsThen
  <2>3. Strung(next', prev', head'[2], tail'[2], q)
    BY <2>1 DEF TwoLists
  <2>4. q \in Seq(Nodes)
    BY <2>3 DEF Strung, OneToOne
  <2>5. DOMAIN q = 1..Len(c) /\ DOMAIN c = 1..Len(c)
    BY <1>4, <2>1, <2>4
  <2> QED BY <2>1, <2>2, <2>5
<1>11. ASSUME NEW r, NEW q, TwoLists(r, q)', q = d
       PROVE  Chain(next, head[2])' = d
  BY <1>11, ContentsThen
<1>12. ASSUME ~(Dup \/ Release(2))
       PROVE  Chain(next, head[2])' = d
  <2>1. ASSUME NEW n \in Nodes, NEW after \in BOOLEAN, InsertNode(n, after)
        PROVE  Chain(next, head[2])' = d
    <3>1. Contains(ListContents, n)
      BY <2>1 DEF InsertNode
    <3>2. PICK i \in 1..Len(c) : n = c[i]
      BY <1>2, <3>1, ContainedIs
    <3> QED BY <1>7, <2>1, <3>2
  <2>2. ASSUME NEW n \in Nodes, DelNode(n)
        PROVE  Chain(next, head[2])' = d
    <3>1. Contains(ListContents, n)
      BY <2>2 DEF DelNode
    <3>2. PICK i \in 1..Len(c) : n = c[i]
      BY <1>2, <3>1, ContainedIs
    <3> QED BY <1>8, <2>2, <3>2
  <2>3. ASSUME NEW dir \in {"head", "tail"}, StartIterator(dir)
        PROVE  Chain(next, head[2])' = d
    <3>1. TwoLists(c, d)'
      BY <1>1, <1>2, <2>3, Starting DEF IterDirs
    <3> QED BY <3>1, ContentsThen
  <2>4. CASE ListNext
    <3>1. TwoLists(c, d)'
      BY <1>1, <1>2, <2>4, ListStepping
    <3> QED BY <3>1, ContentsThen
  <2>5. CASE EndIterator
    <3>1. TwoLists(c, d)'
      BY <1>1, <1>2, <2>5, Ending
    <3> QED BY <3>1, ContentsThen
  <2>6. ASSUME NEW l \in Lists, Release(l)
        PROVE  Chain(next, head[2])' = d
    <3>1. l = 1
      BY <1>12, <2>6 DEF Lists
    <3>2. TwoLists(<< >>, d)'
      BY <1>1, <1>2, <2>6, <3>1, Releasing
    <3> QED BY <3>2, ContentsThen
  <2>7. CASE UNCHANGED listVars
    <3>1. TwoLists(c, d)'
      BY <1>2, <2>7 DEF listVars, TwoLists
    <3> QED BY <3>1, ContentsThen
  <2> QED BY <1>5, <1>6, <1>9, <1>12, <2>1, <2>2, <2>3, <2>4, <2>5, <2>6, <2>7 DEF ListStep
<1>13. ASSUME NEW n \in ToSet(c)
       PROVE  /\ \A after \in BOOLEAN :
                   InsertNode(n, after) =>
                     ListContents' = InsertAt(c, (CHOOSE i \in DOMAIN c : c[i] = n) + (IF after THEN 1 ELSE 0), Fresh)
              /\ DelNode(n) => ListContents' = RemoveAt(c, CHOOSE i \in DOMAIN c : c[i] = n)
  <2>1. PICK i \in 1..Len(c) : n = c[i]
    BY <1>4, <1>13
  <2>2. (CHOOSE k \in DOMAIN c : c[k] = n) = i
    BY <1>4, <2>1, PlaceInList
  <2> QED BY <1>7, <1>8, <2>1, <2>2
<1> DEFINE C == ListContents
           Place(n) == CHOOSE i \in DOMAIN C : C[i] = n
<1>14. /\ AddNodeHead => ListContents' = <<Fresh>> \o C
       /\ AddNodeTail => ListContents' = Append(C, Fresh)
       /\ RotateTail => ListContents' = <<Last(C)>> \o Front(C)
       /\ ~(Dup \/ Release(2)) => Chain(next, head[2])' = Chain(next, head[2])
  BY <1>3, <1>5, <1>6, <1>9, <1>12
<1>15. /\ \A n \in ToSet(C), after \in BOOLEAN :
            InsertNode(n, after) => ListContents' = InsertAt(C, Place(n) + (IF after THEN 1 ELSE 0), Fresh)
       /\ \A n \in ToSet(C) : DelNode(n) => ListContents' = RemoveAt(C, Place(n))
  BY <1>3, <1>13
<1>16. Dup => /\ ListContents' = C
              /\ LET q == Chain(next', head'[2])
                 IN  [i \in DOMAIN q |-> value'[q[i]]] = [i \in DOMAIN C |-> value[C[i]]]
  BY <1>3, <1>10
<1> QED BY <1>14, <1>15, <1>16 DEF OnSequences

\* Adding at either end, inserting before or after a node, deleting, rotating and
\* copying a list do to its sequence of nodes what their comments say, and nothing
\* to the other list (adlist.c:83-245, 373-420, 508-523).
THEOREM OperationsAlwaysOnSequences == ListSpec => OperationsAreOnSequences
<1>1. ListInv /\ [ListStep]_listVars => OnSequences
  BY StepOnSequences
<1>2. ListSpec => [][OnSequences]_listVars
  BY <1>1, ListInvariance, PTL DEF ListSpec
<1>3. [][OnSequences]_listVars => OperationsAreOnSequences
  BY PTL DEF OperationsAreOnSequences, OnSequences
<1> QED BY <1>2, <1>3
=============================================================================
