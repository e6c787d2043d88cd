-------------------------------- MODULE CMap --------------------------------
(***************************************************************************)
(* src/cmap: the concurrent map, one segment of it (segments share nothing *)
(* but the total).  Put and Delete hold the segment's mutex from beginning *)
(* to end, including a redistribution of all pairs over twice as many      *)
(* buckets; Get holds it only to pick the bucket and then walks the list   *)
(* with no lock at all, so every store to a bucket's head or to a pair's   *)
(* next pointer is a step of its own.                                      *)
(*                                                                         *)
(* Pairs live in numbered nodes and are never reused (Go collects them);   *)
(* an element is named by the operation that put it.                       *)
(***************************************************************************)
EXTENDS Naturals, Sequences, FiniteSets

CONSTANTS Writers, Readers,  \* goroutines that call Put and Delete, Get
          Keys,
          Hash,              \* Hash[k], as far as the bucket index needs it
          InitialBuckets,    \* bucketNumber of newSegment
          Threshold,         \* upperThreshold: bucket size that triggers
                             \* redistribution (75 for small segments)
          Word,              \* 2^64: sizes and totals are kept modulo Word
          None,              \* no element, no pair
          Free,              \* the mutex is not held
          MaxOps,            \* bound: Puts and Deletes
          MaxNodes,          \* bound: pairs ever made
          MaxBuckets         \* bound: buckets of the segment

ASSUME CMapAssumption ==
  /\ Hash \in [Keys -> Nat]
  /\ InitialBuckets \in Nat \ {0} /\ Threshold \in Nat /\ Word \in Nat \ {0}
  /\ MaxOps \in Nat /\ MaxNodes \in Nat /\ MaxBuckets \in Nat
  /\ None \notin Nat /\ Free \notin Writers

\* 2^64 is more than there can be pairs or calls.
ASSUME CMapBounds == InitialBuckets <= MaxBuckets /\ MaxNodes < Word /\ MaxOps < Word

Nodes == 1..MaxNodes
Buckets == 0..(MaxBuckets - 1)
Elements == 1..MaxOps

VARIABLES
  pair,        \* pair[n]: key, element and next of a pair
  made,        \* pairs made so far
  first,       \* first[b]: firstValue of bucket b, None for the placeholder
  size,        \* size[b]: the bucket's own count
  bucketsLen,  \* s.bucketsLen
  pairTotal,   \* s.pairTotal
  overweight,  \* overweightBucketCount of the redistributor
  lock,        \* holder of s.lock
  step,        \* where the holder is in Redistribe
  next,        \* the bucket Redistribe clears next
  moving,      \* pairs still to be put back
  owes,        \* owes[w]: w has yet to update cmap.total
  total,       \* cmap.total
  ops,         \* operations begun so far
  truth,       \* history: the element each key has, by the calls alone
  deleted,     \* history: has there been a Delete?
  reader,      \* readers: where, for which key, at which bucket and pair
  allowed      \* history: elements its key had while the reader was at work

writerVars == <<pair, made, first, size, bucketsLen, pairTotal, overweight,
                lock, step, next, moving, owes, total, ops, truth, deleted>>
vars == <<writerVars, reader, allowed>>

NoPair == [key |-> None, element |-> None, next |-> None]
Pair == [key : Keys, element : Elements, next : Nodes \cup {None}] \cup {NoPair}
IdleReader == [at |-> "idle", key |-> None, bucket |-> None, node |-> None,
               result |-> None]

TypeOK ==
  /\ pair \in [Nodes -> Pair] /\ made \in 0..MaxNodes
  /\ first \in [Buckets -> Nodes \cup {None}]
  /\ size \in [Buckets -> 0..(Word - 1)]
  /\ bucketsLen \in 1..MaxBuckets
  /\ pairTotal \in 0..(Word - 1) /\ total \in 0..(Word - 1)
  /\ overweight \in Nat
  /\ lock \in Writers \cup {Free}
  /\ step \in {"none", "check", "clear", "put", "store"}
  /\ next \in 0..MaxBuckets
  /\ moving \in Seq(Nodes)
  /\ owes \in [Writers -> {"nothing", "add", "subtract"}]
  /\ ops \in 0..MaxOps
  /\ truth \in [Keys -> Elements \cup {None}]
  /\ deleted \in BOOLEAN
  /\ reader \in [Readers ->
       [at : {"idle", "first", "walk", "element", "done"}, key : Keys \cup {None},
        bucket : Buckets \cup {None}, node : Nodes \cup {None},
        result : Elements \cup {None}]]
  /\ allowed \in [Readers -> SUBSET (Elements \cup {None})]

Init ==
  /\ pair = [n \in Nodes |-> NoPair] /\ made = 0
  /\ first = [b \in Buckets |-> None]
  /\ size = [b \in Buckets |-> 0]
  /\ bucketsLen = InitialBuckets
  /\ pairTotal = 0 /\ total = 0 /\ overweight = 0
  /\ lock = Free /\ step = "none" /\ next = 0 /\ moving = << >>
  /\ owes = [w \in Writers |-> "nothing"]
  /\ ops = 0
  /\ truth = [k \in Keys |-> None] /\ deleted = FALSE
  /\ reader = [r \in Readers |-> IdleReader]
  /\ allowed = [r \in Readers |-> {}]

-----------------------------------------------------------------------------
\* The pairs reached from n by Next(): for v := n; v != nil; v = v.Next().
Chain(n) ==
  LET at[i \in 0..MaxNodes] ==
        IF i = 0 THEN n
        ELSE IF at[i - 1] = None THEN None ELSE pair[at[i - 1]].next
      length == Cardinality({i \in 0..MaxNodes : at[i] # None})
  IN  [i \in 1..length |-> at[i - 1]]

InChain(n, k) == \E i \in DOMAIN Chain(n) : pair[Chain(n)[i]].key = k

\* The place of key k in the chain, the first match as in the code.
Position(n, k) ==
  CHOOSE i \in DOMAIN Chain(n) :
    /\ pair[Chain(n)[i]].key = k
    /\ \A j \in 1..(i - 1) : pair[Chain(n)[j]].key # k

BucketOf(k) == Hash[k] % bucketsLen
Plus(x) == (x + 1) % Word
Minus(x) == (x + Word - 1) % Word

\* The calls' own view changes, and every Get under way may see the new one.
Becomes(k, e) ==
  /\ truth' = [truth EXCEPT ![k] = e]
  /\ deleted' = (deleted \/ e = None)
  /\ allowed' = [r \in Readers |-> IF reader[r].key = k
                                   THEN allowed[r] \cup {e} ELSE allowed[r]]

\* The mutex is taken for an operation that changes the bucket.
Enter(w) == /\ lock = Free /\ owes[w] = "nothing" /\ ops < MaxOps
            /\ ops' = ops + 1

\* bucket.Put of a new pair: at the head of the list.  The pair is not yet
\* visible when its next pointer is set, so this is one step for readers.
PutNew(w, k) ==
  LET b == BucketOf(k) IN
  /\ Enter(w) /\ made < MaxNodes
  /\ ~InChain(first[b], k)
  /\ made' = made + 1
  /\ pair' = [pair EXCEPT ![made + 1] =
                [key |-> k, element |-> ops + 1, next |-> first[b]]]
  /\ first' = [first EXCEPT ![b] = made + 1]
  /\ size' = [size EXCEPT ![b] = Plus(@)]
  /\ pairTotal' = Plus(pairTotal)
  /\ owes' = [owes EXCEPT ![w] = "add"]
  /\ lock' = w /\ step' = "check" /\ next' = b
  /\ Becomes(k, ops + 1)
  /\ UNCHANGED <<bucketsLen, overweight, moving, total, reader>>

\* bucket.Put of a key that is there: the element is replaced in its pair.
PutReplace(w, k) ==
  LET b == BucketOf(k)
      target == Chain(first[b])[Position(first[b], k)] IN
  /\ Enter(w)
  /\ InChain(first[b], k)
  /\ pair' = [pair EXCEPT ![target].element = ops + 1]
  /\ Becomes(k, ops + 1)
  /\ UNCHANGED <<made, first, size, bucketsLen, pairTotal, overweight, lock,
                 step, next, moving, owes, total, reader>>

\* Mutant: the pairs before the target are dropped with it.
DeleteWithPrefix(w, k) ==
  LET b == BucketOf(k)
      chain == Chain(first[b]) IN
  /\ Enter(w)
  /\ InChain(first[b], k)
  /\ first' = [first EXCEPT ![b] = pair[chain[Position(first[b], k)]].next]
  /\ size' = [size EXCEPT ![b] = Minus(@)]
  /\ pairTotal' = Minus(pairTotal)
  /\ owes' = [owes EXCEPT ![w] = "subtract"]
  /\ lock' = w /\ step' = "check" /\ next' = b
  /\ Becomes(k, None)
  /\ UNCHANGED <<pair, made, bucketsLen, overweight, moving, total, reader>>

\* Mutant: the deleted pair is cut off from the list readers walk on.
DeleteAndCut(w, k) ==
  LET b == BucketOf(k)
      chain == Chain(first[b])
      before == Position(first[b], k) - 1
      rest == pair[chain[before + 1]].next
      copy(i) == [pair[chain[i]] EXCEPT
                    !.next = IF i = before THEN rest ELSE made + i + 1] IN
  /\ Enter(w)
  /\ InChain(first[b], k)
  /\ made + before <= MaxNodes
  /\ made' = made + before
  /\ pair' = [n \in Nodes |->
       CASE n \in (made + 1)..(made + before) -> copy(n - made)
         [] n = chain[before + 1] -> [pair[n] EXCEPT !.next = None]
         [] OTHER -> pair[n]]
  /\ first' = [first EXCEPT ![b] = IF before = 0 THEN rest ELSE made + 1]
  /\ size' = [size EXCEPT ![b] = Minus(@)]
  /\ pairTotal' = Minus(pairTotal)
  /\ owes' = [owes EXCEPT ![w] = "subtract"]
  /\ lock' = w /\ step' = "check" /\ next' = b
  /\ Becomes(k, None)
  /\ UNCHANGED <<bucketsLen, overweight, moving, total, reader>>

\* bucket.Delete: the pairs before the target are copied, the copies end in
\* the pairs after it, and one store makes them the list.
Delete(w, k) ==
  LET b == BucketOf(k)
      chain == Chain(first[b])
      before == Position(first[b], k) - 1
      rest == pair[chain[before + 1]].next
      copy(i) == [pair[chain[i]] EXCEPT
                    !.next = IF i = before THEN rest ELSE made + i + 1] IN
  /\ Enter(w)
  /\ InChain(first[b], k)
  /\ made + before <= MaxNodes
  /\ made' = made + before
  /\ pair' = [n \in Nodes |-> IF n \in (made + 1)..(made + before)
                              THEN copy(n - made) ELSE pair[n]]
  /\ first' = [first EXCEPT ![b] = IF before = 0 THEN rest ELSE made + 1]
  /\ size' = [size EXCEPT ![b] = Minus(@)]
  /\ pairTotal' = Minus(pairTotal)
  /\ owes' = [owes EXCEPT ![w] = "subtract"]
  /\ lock' = w /\ step' = "check" /\ next' = b
  /\ Becomes(k, None)
  /\ UNCHANGED <<bucketsLen, overweight, moving, total, reader>>

\* Mutant: every finished operation counts up.
UpdateTotalUp(w) ==
  /\ owes[w] # "nothing" /\ lock # w
  /\ total' = Plus(total)
  /\ owes' = [owes EXCEPT ![w] = "nothing"]
  /\ UNCHANGED <<pair, made, first, size, bucketsLen, pairTotal, overweight,
                 lock, step, next, moving, ops, truth, deleted, reader, allowed>>

\* cmap.total follows after the mutex is released.
UpdateTotal(w) ==
  /\ owes[w] # "nothing" /\ lock # w
  /\ total' = IF owes[w] = "add" THEN Plus(total) ELSE Minus(total)
  /\ owes' = [owes EXCEPT ![w] = "nothing"]
  /\ UNCHANGED <<pair, made, first, size, bucketsLen, pairTotal, overweight,
                 lock, step, next, moving, ops, truth, deleted, reader, allowed>>

-----------------------------------------------------------------------------
(* segment.redistribute, run with the mutex held.                          *)

Unlock == lock' = Free /\ step' = "none" /\ next' = 0

\* CheckBucketStatus and the first lines of Redistribe: either nothing is
\* changed, or the pairs of all buckets are collected.
Check ==
  /\ step = "check"
  /\ LET over == size[next] >= Threshold
         count == IF over THEN overweight + 1 ELSE overweight
     IN  IF over /\ count * 4 >= bucketsLen
         THEN /\ 2 * bucketsLen <= MaxBuckets
              /\ moving' =
                   LET all[b \in 0..bucketsLen] ==
                         IF b = 0 THEN << >> ELSE all[b - 1] \o Chain(first[b - 1])
                   IN  all[bucketsLen]
              /\ step' = "clear" /\ next' = 0
              /\ overweight' = count
              /\ UNCHANGED lock
         ELSE /\ Unlock
              /\ overweight' = count
              /\ UNCHANGED moving
  /\ UNCHANGED <<pair, made, first, size, bucketsLen, pairTotal, owes, total,
                 ops, truth, deleted, reader, allowed>>

\* Redistribe clears the buckets one after the other.
Clear ==
  /\ step = "clear"
  /\ size' = [size EXCEPT ![next] = 0]
  /\ first' = [first EXCEPT ![next] = None]
  /\ next' = next + 1
  /\ step' = IF next + 1 = bucketsLen THEN "put" ELSE "clear"
  /\ UNCHANGED <<pair, made, bucketsLen, pairTotal, overweight, lock, moving,
                 owes, total, ops, truth, deleted, reader, allowed>>

\* Mutant: the index is taken modulo the old number of buckets.
TargetOfOldLength == Hash[pair[Head(moving)].key] % bucketsLen

Target == Hash[pair[Head(moving)].key] % (2 * bucketsLen)

\* Redistribe puts the same pair object into its new bucket: an empty bucket
\* takes it as it is, with whatever next pointer it has ...
MoveToEmpty ==
  /\ step = "put" /\ moving # << >>
  /\ first[Target] = None
  /\ first' = [first EXCEPT ![Target] = Head(moving)]
  /\ size' = [size EXCEPT ![Target] = Plus(@)]
  /\ moving' = Tail(moving)
  /\ UNCHANGED <<pair, made, bucketsLen, pairTotal, overweight, lock, step,
                 next, owes, total, ops, truth, deleted, reader, allowed>>

\* ... a bucket whose list has the key keeps its list and gets the element ...
MoveToFound ==
  /\ step = "put" /\ moving # << >>
  /\ LET f == first[Target]
         k == pair[Head(moving)].key IN
     /\ f # None /\ InChain(f, k)
     /\ pair' = [pair EXCEPT ![Chain(f)[Position(f, k)]].element =
                                pair[Head(moving)].element]
  /\ moving' = Tail(moving)
  /\ UNCHANGED <<made, first, size, bucketsLen, pairTotal, overweight, lock,
                 step, next, owes, total, ops, truth, deleted, reader, allowed>>

\* Mutant: the pair is linked in without looking for its key.
MoveLinkBlindly ==
  /\ step = "put" /\ moving # << >>
  /\ first[Target] # None
  /\ pair' = [pair EXCEPT ![Head(moving)].next = first[Target]]
  /\ step' = "store"
  /\ UNCHANGED <<made, first, size, bucketsLen, pairTotal, overweight, lock,
                 next, moving, owes, total, ops, truth, deleted, reader, allowed>>

\* ... and any other takes it at the head, in two stores.
MoveLink ==
  /\ step = "put" /\ moving # << >>
  /\ LET f == first[Target] IN
     /\ f # None /\ ~InChain(f, pair[Head(moving)].key)
     /\ pair' = [pair EXCEPT ![Head(moving)].next = f]
  /\ step' = "store"
  /\ UNCHANGED <<made, first, size, bucketsLen, pairTotal, overweight, lock,
                 next, moving, owes, total, ops, truth, deleted, reader, allowed>>

MoveStore ==
  /\ step = "store"
  /\ first' = [first EXCEPT ![Target] = Head(moving)]
  /\ size' = [size EXCEPT ![Target] = Plus(@)]
  /\ moving' = Tail(moving)
  /\ step' = "put"
  /\ UNCHANGED <<pair, made, bucketsLen, pairTotal, overweight, lock, next,
                 owes, total, ops, truth, deleted, reader, allowed>>

\* All pairs are back: the segment uses the new buckets and is unlocked.
MoveDone ==
  /\ step = "put" /\ moving = << >>
  /\ bucketsLen' = 2 * bucketsLen
  /\ overweight' = 0
  /\ Unlock
  /\ UNCHANGED <<pair, made, first, size, pairTotal, moving, owes, total, ops,
                 truth, deleted, reader, allowed>>

-----------------------------------------------------------------------------
(* Get.                                                                    *)

\* The bucket is picked under the mutex.
GetBegin(r, k) ==
  /\ reader[r].at = "idle"
  /\ lock = Free
  /\ reader' = [reader EXCEPT ![r] = [IdleReader EXCEPT !.at = "first",
                                        !.key = k, !.bucket = BucketOf(k)]]
  /\ allowed' = [allowed EXCEPT ![r] = {truth[k]}]
  /\ UNCHANGED writerVars

\* Arriving at pair n, or at the end of the list.
Arrive(r, n) ==
  reader' = [reader EXCEPT ![r].node = n,
                           ![r].at = IF n = None THEN "done" ELSE "walk"]

GetFirst(r) ==
  /\ reader[r].at = "first"
  /\ Arrive(r, first[reader[r].bucket])
  /\ UNCHANGED <<writerVars, allowed>>

GetWalk(r) ==
  /\ reader[r].at = "walk"
  /\ IF pair[reader[r].node].key = reader[r].key
     THEN reader' = [reader EXCEPT ![r].at = "element"]
     ELSE Arrive(r, pair[reader[r].node].next)
  /\ UNCHANGED <<writerVars, allowed>>

\* The element is loaded from the pair that was found.
GetElement(r) ==
  /\ reader[r].at = "element"
  /\ reader' = [reader EXCEPT ![r].result = pair[reader[r].node].element,
                              ![r].at = "done"]
  /\ UNCHANGED <<writerVars, allowed>>

GetEnd(r) ==
  /\ reader[r].at = "done"
  /\ reader' = [reader EXCEPT ![r] = IdleReader]
  /\ allowed' = [allowed EXCEPT ![r] = {}]
  /\ UNCHANGED writerVars

-----------------------------------------------------------------------------
Redistribute == Check \/ Clear \/ MoveToEmpty \/ MoveToFound \/ MoveLink
                \/ MoveStore \/ MoveDone
ReadStep(r) == GetFirst(r) \/ GetWalk(r) \/ GetElement(r) \/ GetEnd(r)

Next ==
  \/ \E w \in Writers :
        \/ \E k \in Keys : PutNew(w, k) \/ PutReplace(w, k) \/ Delete(w, k)
        \/ UpdateTotal(w)
  \/ Redistribute
  \/ \E r \in Readers : ReadStep(r) \/ \E k \in Keys : GetBegin(r, k)

Spec == Init /\ [][Next]_vars

\* Goroutines that are inside an operation keep running.
FairSpec == Spec /\ WF_vars(Redistribute) /\ \A r \in Readers : WF_vars(ReadStep(r))

-----------------------------------------------------------------------------
Settled == lock = Free

\* What a Get that starts now and meets nobody would find.
Lookup(k) ==
  LET f == first[BucketOf(k)]
  IN  IF InChain(f, k) THEN pair[Chain(f)[Position(f, k)]].element ELSE None

\* Between operations every key has the element of its last Put, or none after
\* a Delete (bucket.go:49-158, segment.go:62-96).
MapsKeys == Settled => \A k \in Keys : Lookup(k) = truth[k]

\* The map is also a map while it grows, whatever the order of the puts and
\* however often it doubles, as long as nothing is deleted; with Deletes, up to
\* its second redistribution (see DeletedStaysDeleted for what happens then).
GrowsFaithfully ==
  (Settled /\ (deleted => bucketsLen <= 2 * InitialBuckets))
     => \A k \in Keys : Lookup(k) = truth[k]

\* Get takes no lock while it walks the list, and still returns an element its
\* key had at some moment of the call, and nil only if there was a moment
\* without the key: Delete copies what precedes the target and never unlinks
\* in place (bucket.go:86-99, 138-154).
GetSeesTheMap ==
  \A r \in Readers : reader[r].at = "done" => reader[r].result \in allowed[r]

\* No list ever runs into itself, not even while Redistribe relinks pairs that
\* readers stand on: a Get under way comes to an end (redistributor.go:138-169).
NoCycles == \A n \in 1..made : Len(Chain(n)) <= made

\* Between operations each bucket counts its pairs, and the segment all pairs
\* (bucket.go:62, 82, 156; segment.go:67, 91).
CountsAreRight ==
  Settled =>
    /\ \A b \in 0..(bucketsLen - 1) : size[b] = Len(Chain(first[b]))
    /\ pairTotal = Cardinality({k \in Keys : truth[k] # None})

\* As long as nothing is redistributed the buckets are a map, and know its size.
CountedMap == TypeOK /\ MapsKeys /\ CountsAreRight

\* Growing neither loses nor changes an element, nor ties a list into a ring.
GrowsIntact == GrowsFaithfully /\ NoCycles

\* Once every caller has returned, cmap.total is the number of pairs.
TotalCatchesUp ==
  (Settled /\ \A w \in Writers : owes[w] = "nothing") => total = pairTotal

\* A Get returns, whatever the writers do to the list it walks.
GetReturns == \A r \in Readers : (reader[r].at # "idle") ~> (reader[r].at = "idle")

-----------------------------------------------------------------------------
(* What a comment says; the code does otherwise.                           *)

\* "Delete deletes the given pair" (cmap.go:20-21): a deleted key does not
\* come back without a Put.
DeletedStaysDeleted ==
  Settled => \A k \in Keys : truth[k] = None => Lookup(k) = None

=============================================================================
