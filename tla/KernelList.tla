---------------------------- MODULE KernelList -----------------------------
(***************************************************************************)
(* src/KernelLinkedList/src/list.h (coroutine_3 has a part of it): the     *)
(* circular lists, each with a head, of entries that hold their own        *)
(* pointers. Operations are called as their comments allow.                *)
(***************************************************************************)
EXTENDS Integers, SequencesExt

CONSTANTS Heads, Entries,
          POISON  \* LIST_POISON1 and LIST_POISON2

ASSUME KernelAssumption == Heads \cap Entries = {} /\ POISON \notin Heads \cup Entries

VARIABLES ptr,    \* next and prev of every list_head
          lists,  \* history: what each list holds, as the calls said
          stale,  \* history: heads that list_splice left as they were
          walk    \* a loop over list h: pos, its direction, n if it is safe
                  \* against removal, and who is still to come

kernelVars == <<ptr, lists, stale, walk>>

ListHeads == Heads \cup Entries
NoWalk == [h |-> POISON, pos |-> POISON, dir |-> "next", safe |-> FALSE,
           n |-> POISON, due |-> {}]
Walking == walk # NoWalk
In(h) == ToSet(lists[h])
FreeEntries == Entries \ UNION {In(h) : h \in Heads}
Live == Heads \ stale
PointersOf(f) == [n \in ListHeads |-> IF n \in Heads THEN n ELSE f]

KernelInit ==
  /\ ptr = [next |-> PointersOf(POISON), prev |-> PointersOf(POISON)]
  /\ lists = [h \in Heads |-> << >>] /\ stale = {} /\ walk = NoWalk

-----------------------------------------------------------------------------
(* The pointers.                                                           *)

\* a->next = b and b->prev = a
Join(p, a, b) == [p EXCEPT !.next[a] = b, !.prev[b] = a]

\* list_empty, list_is_singular, list_is_first, list_is_last
IsEmpty(h) == ptr.next[h] = h
IsSingular(h) == ~IsEmpty(h) /\ ptr.next[h] = ptr.prev[h]
IsFirst(e, h) == ptr.prev[e] = h
IsLast(e, h) == ptr.next[e] = h

\* INIT_LIST_HEAD
Initialized(p, n) == Join(p, n, n)

Poisoned(p, n) == [p EXCEPT !.next[n] = POISON, !.prev[n] = POISON]

\* __list_add
PutBetween(p, n, a, b) == Join(Join(p, n, b), a, n)

PutAfter(p, n, a) == PutBetween(p, n, a, p.next[a])
PutBefore(p, n, b) == PutBetween(p, n, p.prev[b], b)

\* __list_del_entry
Unlink(p, n) == Join(p, p.prev[n], p.next[n])

\* list_replace
PutFor(p, old, new) == LET p1 == Join(p, new, p.next[old]) IN Join(p1, p1.prev[old], new)

\* Mutant: that the entries are neighbours goes unnoticed.
SwappedApart(p, a, b) == PutAfter(PutFor(Poisoned(Unlink(p, b), b), a, b), a, p.prev[b])

\* list_swap
Swapped(p, a, b) ==
  LET pos == IF p.prev[b] = a THEN b ELSE p.prev[b]
  IN  PutAfter(PutFor(Poisoned(Unlink(p, b), b), a, b), a, pos)

\* list_bulk_move_tail
BulkMoved(p, h, first, last) ==
  LET p1 == Join(p, p.prev[first], p.next[last])
  IN  Join(Join(p1, p1.prev[h], first), last, h)

\* __list_splice
Spliced(p, l, a, b) == Join(Join(p, a, p.next[l]), p.prev[l], b)

\* __list_cut_position
Cut(p, l, h, e) == Join(Join(Join(p, l, p.next[h]), e, l), h, p.next[e])

\* list_cut_before
CutBefore(p, l, h, e) ==
  LET p1 == Join(p, l, p.next[h])
  IN  IF p.next[h] = e THEN Initialized(p, l) ELSE Join(Join(p1, p1.prev[e], l), h, e)

-----------------------------------------------------------------------------
(* The operations, each with what it is for.                               *)

Change(p, ls) == ptr' = p /\ lists' = ls /\ UNCHANGED <<stale, walk>>

\* the lists when h holds s
Holding(h, s) == [lists EXCEPT ![h] = s]

PlaceOf(s, e) == CHOOSE i \in DOMAIN s : s[i] = e
Preceding(s, e) == SubSeq(s, 1, PlaceOf(s, e) - 1)
Upto(s, e) == SubSeq(s, 1, PlaceOf(s, e))
After(s, e) == SubSeq(s, PlaceOf(s, e) + 1, Len(s))
Without(s, e) == Preceding(s, e) \o After(s, e)
Renamed(s, a, b) == [i \in DOMAIN s |-> IF s[i] = a THEN b ELSE IF s[i] = b THEN a ELSE s[i]]

ListAdd(e, h) == Change(PutAfter(ptr, e, h), Holding(h, <<e>> \o lists[h]))

ListAddTail(e, h) == Change(PutBefore(ptr, e, h), Holding(h, Append(lists[h], e)))

\* list_del, list_del_init
ListDel(e, h) == Change(Poisoned(Unlink(ptr, e), e), Holding(h, Without(lists[h], e)))

ListDelInit(e, h) == Change(Initialized(Unlink(ptr, e), e), Holding(h, Without(lists[h], e)))

\* list_replace, and list_replace_init; new is in no list
ListReplace(old, new, h) == 
  Change(PutFor(ptr, old, new), Holding(h, Renamed(lists[h], old, new)))

ListReplaceInit(old, new, h) ==
  Change(Initialized(PutFor(ptr, old, new), old), Holding(h, Renamed(lists[h], old, new)))

ListSwap(a, b) == Change(Swapped(ptr, a, b), [h \in Heads |-> Renamed(lists[h], a, b)])

\* list_move and list_move_tail, from list g to h
ListMove(e, g, h) ==
  LET gone == Holding(g, Without(lists[g], e))
  IN  \/ Change(PutAfter(Unlink(ptr, e), e, h), [gone EXCEPT ![h] = <<e>> \o @])
      \/ Change(PutBefore(Unlink(ptr, e), e, h), [gone EXCEPT ![h] = Append(@, e)])

ListBulkMoveTail(h, i, j) ==
  LET s == lists[h]
  IN  Change(BulkMoved(ptr, h, s[i], s[j]),
             Holding(h, SubSeq(s, 1, i - 1) \o SubSeq(s, j + 1, Len(s)) \o SubSeq(s, i, j)))

ListRotateLeft(h) ==
  LET first == ptr.next[h]
  IN  /\ ~IsEmpty(h)
      /\ Change(PutBefore(Unlink(ptr, first), first, h),
                Holding(h, Append(Tail(lists[h]), Head(lists[h]))))

ListRotateToFront(e, h) ==
  Change(PutBefore(Unlink(ptr, h), h, e),
         Holding(h, <<e>> \o After(lists[h], e) \o Preceding(lists[h], e)))

\* list l is empty; e may be the head
ListCutPosition(l, h, e) ==
  LET s == lists[h]
      alone == IsSingular(h) /\ ptr.next[h] # e /\ h # e
  IN  IF IsEmpty(h) \/ alone THEN UNCHANGED kernelVars
      ELSE IF e = h THEN Change(Initialized(ptr, l), Holding(l, << >>))
      ELSE Change(Cut(ptr, l, h, e), [lists EXCEPT ![l] = Upto(s, e), ![h] = After(s, e)])

ListCutBefore(l, h, e) ==
  LET s == lists[h]
  IN  Change(CutBefore(ptr, l, h, e),
             IF e = h THEN [lists EXCEPT ![l] = s, ![h] = << >>]
             ELSE [lists EXCEPT ![l] = Preceding(s, e), ![h] = <<e>> \o After(s, e)])

\* list_splice, list_splice_tail: what was in l is then in h, and l is not to be
\* used before it is initialised; the other two initialise it.
SplicedAhead(l, h) == Spliced(ptr, l, h, ptr.next[h])
SplicedBehind(l, h) == Spliced(ptr, l, ptr.prev[h], h)
HoldingBoth(l, h, s) == [lists EXCEPT ![l] = << >>, ![h] = s]

ListSplice(l, h) ==
  /\ ~IsEmpty(l) /\ stale' = stale \cup {l} /\ UNCHANGED walk
  /\ \/ ptr' = SplicedAhead(l, h) /\ lists' = HoldingBoth(l, h, lists[l] \o lists[h])
     \/ ptr' = SplicedBehind(l, h) /\ lists' = HoldingBoth(l, h, lists[h] \o lists[l])

ListSpliceInit(l, h) ==
  /\ ~IsEmpty(l)
  /\ \/ Change(Initialized(SplicedAhead(l, h), l), HoldingBoth(l, h, lists[l] \o lists[h]))
     \/ Change(Initialized(SplicedBehind(l, h), l), HoldingBoth(l, h, lists[h] \o lists[l]))

InitHead(h) ==
  /\ h \in stale /\ stale' = stale \ {h}
  /\ ptr' = Initialized(ptr, h) /\ UNCHANGED <<lists, walk>>

-----------------------------------------------------------------------------
(* The loops.                                                              *)

\* list_first_entry, list_last_entry, list_next_entry, list_prev_entry
Following(p, dir) == ptr[dir][p]

\* The loop begins with pos; those from there on are to come.
WalkFrom(h, pos, dir, safe) ==
  /\ walk' = [h |-> h, pos |-> pos, dir |-> dir, safe |-> safe,
              n |-> IF safe THEN Following(pos, dir) ELSE POISON,
              due |-> {lists[h][i] : i \in {i \in DOMAIN lists[h] : \E j \in DOMAIN lists[h] :
                         lists[h][j] = pos /\ IF dir = "next" THEN i >= j ELSE i <= j}}]
  /\ UNCHANGED <<ptr, lists, stale>>

\* list_for_each, list_for_each_continue, list_for_each_entry_from and the others:
\* from the head on, after an entry, or from it on.
WalkStart(h) ==
  \E dir \in {"next", "prev"}, safe \in BOOLEAN :
    \/ \E p \in In(h) \cup {h} : WalkFrom(h, Following(p, dir), dir, safe)
    \/ \E p \in In(h) : WalkFrom(h, p, dir, safe)

NextToWalk == IF walk.safe THEN walk.n ELSE Following(walk.pos, walk.dir)

WalkOn ==
  /\ Walking
  /\ IF walk.pos = walk.h THEN walk' = NoWalk
     ELSE LET pos == NextToWalk
          IN  walk' = [walk EXCEPT
                !.pos = pos, !.due = @ \ {walk.pos},
                !.n = IF walk.safe /\ pos # POISON THEN Following(pos, walk.dir) ELSE POISON]
  /\ UNCHANGED <<ptr, lists, stale>>

AtEntry == Walking /\ walk.pos \in In(walk.h)

\* The body takes the entry it is at off the list.
WalkBody ==
  /\ AtEntry /\ walk.safe
  /\ ListDel(walk.pos, walk.h) \/ ListDelInit(walk.pos, walk.h)
     \/ \E h \in Live \ {walk.h} : ListMove(walk.pos, walk.h, h)

\* The body deletes another entry. A safe loop calls list_safe_reset_next after it:
\* that takes the next entry whichever way the loop goes, and is for forward loops
\* (list.h:777). Without it the entry must not be the one the loop has in hand.
WalkDrops(e) ==
  /\ AtEntry /\ e \in In(walk.h) \ {walk.pos}
  /\ ptr' = Poisoned(Unlink(ptr, e), e)
  /\ lists' = Holding(walk.h, Without(lists[walk.h], e))
  /\ \E reset \in BOOLEAN :
       /\ reset => walk.safe /\ walk.dir = "next"
       /\ ~reset => e # walk.n
       /\ walk' = [walk EXCEPT !.due = @ \ {e}, !.n = IF reset THEN ptr'.next[walk.pos] ELSE @]
  /\ UNCHANGED stale

-----------------------------------------------------------------------------

OnEntries ==
  \/ \E h \in Live, e \in FreeEntries : ListAdd(e, h) \/ ListAddTail(e, h)
  \/ \E h \in Live : \E e \in In(h) :
       \/ ListDel(e, h) \/ ListDelInit(e, h)
       \/ \E new \in FreeEntries : ListReplace(e, new, h) \/ ListReplaceInit(e, new, h)
       \/ \E g \in Live : ListMove(e, h, g)
       \/ ListRotateToFront(e, h)
  \/ \E a, b \in Entries \ FreeEntries : a # b /\ ListSwap(a, b)

OnLists ==
  \/ \E h \in Live :
       \/ \E i, j \in DOMAIN lists[h] : i <= j /\ ListBulkMoveTail(h, i, j)
       \/ ListRotateLeft(h)
       \/ WalkStart(h)
  \/ \E l, h \in Live : l # h /\ (ListSplice(l, h) \/ ListSpliceInit(l, h))
  \/ \E l, h \in Live : \E e \in In(h) \cup {h} :
       l # h /\ lists[l] = << >> /\ (ListCutPosition(l, h, e) \/ ListCutBefore(l, h, e))
  \/ \E h \in Heads : InitHead(h)

KernelNext ==
  \/ ~Walking /\ (OnEntries \/ OnLists)
  \/ WalkOn \/ WalkBody
  \/ \E e \in Entries : WalkDrops(e)

KernelSpec == KernelInit /\ [][KernelNext]_kernelVars

-----------------------------------------------------------------------------

\* Whatever is added, moved, swapped, cut and joined, every list is the cycle of
\* what the calls put there in the order of their comments, the same both ways.
ListsHoldWhatTheyShould ==
  \A h \in Live :
    LET s == lists[h]
        ring == <<h>> \o s \o <<h>>
    IN  \A i \in 1..Len(s) + 1 : ptr.next[ring[i]] = ring[i + 1] /\ ptr.prev[ring[i + 1]] = ring[i]

\* A loop meets every entry from its beginning on once, in both directions, and
\* comes back to the head, though its body deletes or moves the entry it is at
\* (list.h:604, 612), or deletes others: any, in a loop that reads the pointer
\* afterwards, as loops that are not safe do, and forward ones that reset theirs
\* (list.h:786); in other safe loops any but the one that is in hand.
WalkMeetsAll ==
  Walking => /\ walk.pos \in walk.due \cup {walk.h}
             /\ walk.pos = walk.h => walk.due = {}

\* The tests answer for the list as the calls left it.
TestsAreTrue ==
  \A h \in Live :
    /\ IsEmpty(h) <=> (lists[h] = << >>)
    /\ IsSingular(h) <=> (Len(lists[h]) = 1)
    /\ \A i \in DOMAIN lists[h] :
         /\ IsFirst(lists[h][i], h) <=> (i = 1)
         /\ IsLast(lists[h][i], h) <=> (i = Len(lists[h]))

\* Lists and walks stay right through each other's changes.
ListsAndWalksAreRight == ListsHoldWhatTheyShould /\ WalkMeetsAll /\ TestsAreTrue
=============================================================================
