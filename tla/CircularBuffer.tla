--------------------------- MODULE CircularBuffer ---------------------------
(***************************************************************************)
(* src/Circular_Buffer/Circular_Buffer.h: a ring of the last items.  front *)
(* is where the next item goes, and the oldest one of a full ring.         *)
(***************************************************************************)
EXTENDS Naturals, Sequences

CONSTANTS RingItems,
          Capacities,   \* bound: the capacities a ring is made or resized with
          Hole          \* a slot of new T[n] that nobody has assigned

ASSUME RingAssumption == Capacities \subseteq Nat \ {0} /\ Hole \notin RingItems

VARIABLES buffer, capacity, front, full

ringVars == <<buffer, capacity, front, full>>

RingTypeOK ==
  /\ capacity \in Capacities /\ front \in 0..capacity - 1 /\ full \in BOOLEAN
  /\ buffer \in [0..capacity - 1 -> RingItems \cup {Hole}]

RingInit ==
  /\ capacity \in Capacities /\ front = 0 /\ full = FALSE
  /\ buffer = [i \in 0..capacity - 1 |-> Hole]

Size == IF full THEN capacity ELSE front

\* operator[], for an index below the size
At(i) == IF full THEN buffer[(front + i) % capacity] ELSE buffer[i]

Contents == [i \in 1..Size |-> At(i - 1)]

AddItem(x) ==
  /\ buffer' = [buffer EXCEPT ![front] = x]
  /\ front' = (front + 1) % capacity
  /\ full' = (full \/ front + 1 = capacity)
  /\ UNCHANGED capacity

\* Mutant: a ring that shrinks keeps its oldest items.
OffsetZero(n) == 0

\* how many of the oldest items a resize drops
Offset(n) == IF Size > n THEN Size - n ELSE 0

ResizeRing(n) ==
  /\ n # capacity
  /\ LET kept == Size - Offset(n)
     IN  /\ buffer' = [i \in 0..n - 1 |->
                         IF i < kept THEN At(i + Offset(n)) ELSE Hole]
         /\ front' = kept % n
         /\ full' = (kept = n)
  /\ capacity' = n

RingNext ==
  \/ \E x \in RingItems : AddItem(x)
  \/ \E n \in Capacities : ResizeRing(n)

RingSpec == RingInit /\ [][RingNext]_ringVars

-----------------------------------------------------------------------------
(* Properties.                                                             *)

Recent == INSTANCE RecentItems WITH
            Items <- RingItems, Bounds <- Capacities,
            items <- Contents, bound <- capacity

\* The ring with its wrapping index and full flag is the list of the newest items:
\* each addition drops the oldest at most, each resize keeps the newest, and
\* operator[] never gives a slot that nobody assigned.
RingIsRecentItems == []RingTypeOK /\ Recent!Spec
=============================================================================
