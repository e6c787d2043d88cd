----------------------------- MODULE CMapProofs -----------------------------
(***************************************************************************)
(* Proofs about CMap.tla, for any writers and readers, keys and hashes,    *)
(* buckets, thresholds and sizes of a counter that no caller can exhaust.  *)
(*                                                                         *)
(* 1. The counters.  Put and Delete change the count of the segment under  *)
(*    its mutex, but that of the map only after they released it, with an  *)
(*    atomic addition.  The two differ by the additions still to come, and *)
(*    agree once everyone has returned.  Both are unsigned and may wrap    *)
(*    around, so they are compared modulo Word.                            *)
(* 2. Types.  The recursive functions Chain and moving are computed along  *)
(*    are unfolded, and every pointer is one to a pair that was made.      *)
(* 3. The map until it first grows, with the Gets that are under way.      *)
(* 4. No list ever runs into itself.                                       *)
(* 5. The map while it grows.                                              *)
(***************************************************************************)
EXTENDS CMap, Integers, FiniteSetTheorems, SequenceTheorems, TLAPS

\* Whose addition to the total is still to come.
Adding == {w \in Writers : owes[w] = "add"}
Subtracting == {w \in Writers : owes[w] = "subtract"}

\* The counters are kept modulo Word.
SameCount(x, y) == \E turns \in Int : x = y + turns * Word

\* The inductive invariant.
TotalsAgree ==
  /\ pairTotal \in 0..(Word - 1) /\ total \in 0..(Word - 1)
  /\ owes \in [Writers -> {"nothing", "add", "subtract"}]
  /\ IsFiniteSet(Adding) /\ IsFiniteSet(Subtracting)
  /\ SameCount(pairTotal, total + Cardinality(Adding) - Cardinality(Subtracting))

-----------------------------------------------------------------------------
(* Counting modulo Word.                                                   *)

\* Plus and Minus add and subtract one.
LEMMA Counted ==
  ASSUME NEW x \in 0..(Word - 1)
  PROVE  /\ Plus(x) \in 0..(Word - 1) /\ Minus(x) \in 0..(Word - 1)
         /\ SameCount(Plus(x), x + 1) /\ SameCount(Minus(x), x - 1)
<1>1. Word \in Nat \ {0} /\ x \in Int
  BY CMapAssumption
<1>2. Plus(x) \in 0..(Word - 1) /\ SameCount(Plus(x), x + 1)
  <2>1. CASE x = Word - 1
    <3>1. x + 1 = Word /\ Word % Word = 0
      BY <1>1, <2>1
    <3>2. Plus(x) = 0
      BY <3>1 DEF Plus
    <3>3. 0 = (x + 1) + (-1) * Word /\ -1 \in Int
      BY <1>1, <3>1
    <3> QED BY <1>1, <3>2, <3>3 DEF SameCount
  <2>2. CASE x # Word - 1
    <3>1. (x + 1) % Word = x + 1 /\ x + 1 \in 0..(Word - 1)
      BY <1>1, <2>2
    <3>2. x + 1 = (x + 1) + 0 * Word
      BY <1>1
    <3> QED BY <3>1, <3>2 DEF SameCount, Plus
  <2> QED BY <2>1, <2>2
<1>3. Minus(x) \in 0..(Word - 1) /\ SameCount(Minus(x), x - 1)
  <2>1. CASE x = 0
    <3>1. (x + Word - 1) % Word = Word - 1 /\ Word - 1 \in 0..(Word - 1)
      BY <1>1, <2>1
    <3>2. Word - 1 = (x - 1) + 1 * Word
      BY <1>1, <2>1
    <3> QED BY <3>1, <3>2 DEF SameCount, Minus
  <2>2. CASE x # 0
    <3>1. PICK y \in 0..(Word - 1) : y = x - 1
      BY <1>1, <2>2
    <3>2. (y + Word) % Word = y /\ x + Word - 1 = y + Word
      BY <1>1, <3>1
    <3>3. x - 1 = (x - 1) + 0 * Word
      BY <1>1
    <3> QED BY <3>1, <3>2, <3>3 DEF SameCount, Minus
  <2> QED BY <2>1, <2>2
<1> QED BY <1>2, <1>3

\* To be the same modulo Word is transitive,
LEMMA CountsAdd ==
  ASSUME NEW x \in Int, NEW y \in Int, NEW z \in Int, SameCount(x, y), SameCount(y, z)
  PROVE  SameCount(x, z)
<1>1. PICK a \in Int : x = y + a * Word
  BY DEF SameCount
<1>2. PICK b \in Int : y = z + b * Word
  BY DEF SameCount
<1>3. Word \in Int
  BY CMapAssumption
<1>4. (a + b) * Word = a * Word + b * Word /\ a + b \in Int
  BY <1>3
<1>5. a * Word \in Int /\ b * Word \in Int
  BY <1>3
<1>6. x = z + (a + b) * Word
  BY <1>1, <1>2, <1>4, <1>5
<1> QED BY <1>4, <1>6 DEF SameCount

\* kept by the addition of any number, and symmetric.
LEMMA CountsShift ==
  ASSUME NEW x \in Int, NEW y \in Int, NEW d \in Int, SameCount(x, y)
  PROVE  SameCount(x + d, y + d) /\ SameCount(y, x)
<1>1. PICK a \in Int : x = y + a * Word
  BY DEF SameCount
<1>2. Word \in Int /\ a * Word \in Int
  BY CMapAssumption
<1>3. x + d = (y + d) + a * Word
  BY <1>1, <1>2
<1>4. -a \in Int /\ (-a) * Word = -(a * Word)
  BY <1>2
<1>5. y = x + (-a) * Word
  BY <1>1, <1>2, <1>4
<1> QED BY <1>3, <1>4, <1>5 DEF SameCount

\* Numbers below Word that are the same modulo Word are equal.
LEMMA SameBelow ==
  ASSUME NEW x \in 0..(Word - 1), NEW y \in 0..(Word - 1), SameCount(x, y)
  PROVE  x = y
<1>1. PICK a \in Int : x = y + a * Word
  BY DEF SameCount
<1>2. Word \in Nat \ {0} /\ x \in Int /\ y \in Int
  BY CMapAssumption
<1>3. CASE a > 0
  <2>1. a - 1 \in Nat /\ (a - 1) * Word \in Nat /\ a * Word = (a - 1) * Word + Word
    BY <1>2, <1>3
  <2> QED BY <1>1, <1>2, <2>1
<1>4. CASE a < 0
  <2>1. -a - 1 \in Nat /\ (-a - 1) * Word \in Nat /\ a * Word = -((-a - 1) * Word) - Word
    BY <1>2, <1>4
  <2> QED BY <1>1, <1>2, <2>1
<1>5. CASE a = 0
  <2>1. a * Word = 0
    BY <1>2, <1>5
  <2> QED BY <1>1, <1>2, <2>1
<1> QED BY <1>3, <1>4, <1>5

-----------------------------------------------------------------------------
(* A Put or Delete that changes the number of pairs, and its afterthought. *)

\* The mutex is held: the segment's count changes, and the writer owes the same
\* to the total.
LEMMA CountChanges ==
  ASSUME TotalsAgree, NEW w \in Writers, owes[w] = "nothing", total' = total,
         \/ owes' = [owes EXCEPT ![w] = "add"] /\ pairTotal' = Plus(pairTotal)
         \/ owes' = [owes EXCEPT ![w] = "subtract"] /\ pairTotal' = Minus(pairTotal)
  PROVE  TotalsAgree'
<1> DEFINE a == Cardinality(Adding)
           s == Cardinality(Subtracting)
<1>1. /\ pairTotal \in 0..(Word - 1) /\ total \in 0..(Word - 1)
      /\ owes \in [Writers -> {"nothing", "add", "subtract"}]
      /\ IsFiniteSet(Adding) /\ IsFiniteSet(Subtracting)
      /\ SameCount(pairTotal, total + a - s)
  BY DEF TotalsAgree
<1>2. a \in Nat /\ s \in Nat /\ pairTotal \in Int /\ total \in Int
  BY <1>1, CMapAssumption, FS_CardinalityType
<1>3. /\ Plus(pairTotal) \in 0..(Word - 1) /\ Minus(pairTotal) \in 0..(Word - 1)
      /\ SameCount(Plus(pairTotal), pairTotal + 1)
      /\ SameCount(Minus(pairTotal), pairTotal - 1)
  BY <1>1, Counted
<1>4. Plus(pairTotal) \in Int /\ Minus(pairTotal) \in Int
  BY <1>3, CMapAssumption
<1>5. w \notin Adding /\ w \notin Subtracting
  BY DEF Adding, Subtracting
<1>6. owes' \in [Writers -> {"nothing", "add", "subtract"}]
  BY <1>1
<1>7. CASE owes' = [owes EXCEPT ![w] = "add"] /\ pairTotal' = Plus(pairTotal)
  <2>1. Adding' = Adding \cup {w} /\ Subtracting' = Subtracting
    BY <1>1, <1>5, <1>7 DEF Adding, Subtracting
  <2>2. IsFiniteSet(Adding') /\ Cardinality(Adding') = a + 1
    BY <1>1, <1>5, <2>1, FS_AddElement
  <2> HIDE DEF a, s
  <2>3. SameCount(pairTotal + 1, (total + a - s) + 1)
    <3>1. PICK b \in Int : b = total + a - s
      BY <1>2
    <3>2. SameCount(pairTotal, b) /\ pairTotal \in Int /\ 1 \in Int
      BY <1>1, <1>2, <3>1 DEF a, s
    <3> QED BY <3>1, <3>2, CountsShift
  <2>4. SameCount(Plus(pairTotal), (total + a - s) + 1)
    BY <1>2, <1>3, <1>4, <2>3, CountsAdd
  <2>5. (total + a - s) + 1 = total' + Cardinality(Adding') - s
    BY <1>2, <2>2
  <2>6. SameCount(pairTotal', total' + Cardinality(Adding') - Cardinality(Subtracting'))
    BY <1>7, <2>1, <2>4, <2>5 DEF s
  <2> QED BY <1>1, <1>3, <1>6, <1>7, <2>1, <2>2, <2>6 DEF TotalsAgree
<1>8. CASE owes' = [owes EXCEPT ![w] = "subtract"] /\ pairTotal' = Minus(pairTotal)
  <2>1. Subtracting' = Subtracting \cup {w} /\ Adding' = Adding
    BY <1>1, <1>5, <1>8 DEF Adding, Subtracting
  <2>2. IsFiniteSet(Subtracting') /\ Cardinality(Subtracting') = s + 1
    BY <1>1, <1>5, <2>1, FS_AddElement
  <2> HIDE DEF a, s
  <2>3. SameCount(pairTotal + (-1), (total + a - s) + (-1))
    <3>1. PICK b \in Int : b = total + a - s
      BY <1>2
    <3>2. SameCount(pairTotal, b) /\ pairTotal \in Int /\ -1 \in Int
      BY <1>1, <1>2, <3>1 DEF a, s
    <3> QED BY <3>1, <3>2, CountsShift
  <2>4. pairTotal + (-1) = pairTotal - 1
    BY <1>2
  <2>5. SameCount(Minus(pairTotal), (total + a - s) + (-1))
    BY <1>2, <1>3, <1>4, <2>3, <2>4, CountsAdd
  <2>6. (total + a - s) + (-1) = total' + a - Cardinality(Subtracting')
    BY <1>2, <2>2
  <2>7. SameCount(pairTotal', total' + Cardinality(Adding') - Cardinality(Subtracting'))
    BY <1>8, <2>1, <2>5, <2>6 DEF a
  <2> QED BY <1>1, <1>3, <1>6, <1>8, <2>1, <2>2, <2>7 DEF TotalsAgree
<1> QED BY <1>7, <1>8

\* The mutex is free again: the writer pays what it owes to the total.
LEMMA TotalFollows ==
  ASSUME TotalsAgree, NEW w \in Writers, UpdateTotal(w)
  PROVE  TotalsAgree'
<1> DEFINE a == Cardinality(Adding)
           s == Cardinality(Subtracting)
<1>1. /\ pairTotal \in 0..(Word - 1) /\ total \in 0..(Word - 1)
      /\ owes \in [Writers -> {"nothing", "add", "subtract"}]
      /\ IsFiniteSet(Adding) /\ IsFiniteSet(Subtracting)
      /\ SameCount(pairTotal, total + a - s)
  BY DEF TotalsAgree
<1>2. a \in Nat /\ s \in Nat /\ pairTotal \in Int /\ total \in Int
  BY <1>1, CMapAssumption, FS_CardinalityType
<1>3. /\ Plus(total) \in 0..(Word - 1) /\ Minus(total) \in 0..(Word - 1)
      /\ SameCount(Plus(total), total + 1) /\ SameCount(Minus(total), total - 1)
  BY <1>1, Counted
<1>4. Plus(total) \in Int /\ Minus(total) \in Int
  BY <1>3, CMapAssumption
<1>5. /\ owes[w] # "nothing" /\ owes' = [owes EXCEPT ![w] = "nothing"]
      /\ total' = IF owes[w] = "add" THEN Plus(total) ELSE Minus(total)
      /\ pairTotal' = pairTotal
  BY DEF UpdateTotal
<1>6. owes' \in [Writers -> {"nothing", "add", "subtract"}]
  BY <1>1, <1>5
<1>7. CASE owes[w] = "add"
  <2>1. w \in Adding /\ Adding' = Adding \ {w} /\ Subtracting' = Subtracting
    BY <1>1, <1>5, <1>7 DEF Adding, Subtracting
  <2>2. IsFiniteSet(Adding') /\ Cardinality(Adding') = a - 1
    BY <1>1, <2>1, FS_RemoveElement
  <2> HIDE DEF a, s
  <2>3. SameCount(total + 1, Plus(total))
    BY <1>2, <1>3, <1>4, CountsShift
  <2>4. SameCount((total + 1) + (a - s - 1), Plus(total) + (a - s - 1))
    <3>1. PICK d \in Int : d = a - s - 1
      BY <1>2
    <3>2. total + 1 \in Int
      BY <1>2
    <3> QED BY <1>4, <2>3, <3>1, <3>2, CountsShift
  <2>5. /\ (total + 1) + (a - s - 1) = total + a - s
        /\ Plus(total) + (a - s - 1) = total' + Cardinality(Adding') - s
    BY <1>2, <1>4, <1>5, <1>7, <2>2
  <2>6. total + a - s \in Int /\ total' + Cardinality(Adding') - s \in Int
    BY <1>2, <1>4, <1>5, <1>7, <2>2
  <2>7. SameCount(pairTotal, total' + Cardinality(Adding') - s)
    BY <1>1, <1>2, <2>4, <2>5, <2>6, CountsAdd
  <2>8. SameCount(pairTotal', total' + Cardinality(Adding') - Cardinality(Subtracting'))
    BY <1>5, <2>1, <2>7 DEF s
  <2> QED BY <1>1, <1>3, <1>5, <1>6, <1>7, <2>1, <2>2, <2>8 DEF TotalsAgree
<1>8. CASE owes[w] = "subtract"
  <2>1. w \in Subtracting /\ Subtracting' = Subtracting \ {w} /\ Adding' = Adding
    BY <1>1, <1>5, <1>8 DEF Adding, Subtracting
  <2>2. IsFiniteSet(Subtracting') /\ Cardinality(Subtracting') = s - 1
    BY <1>1, <2>1, FS_RemoveElement
  <2> HIDE DEF a, s
  <2>3. SameCount(total - 1, Minus(total))
    BY <1>2, <1>3, <1>4, CountsShift
  <2>4. SameCount((total - 1) + (a - s + 1), Minus(total) + (a - s + 1))
    <3>1. PICK d \in Int : d = a - s + 1
      BY <1>2
    <3>2. total - 1 \in Int
      BY <1>2
    <3> QED BY <1>4, <2>3, <3>1, <3>2, CountsShift
  <2>5. /\ (total - 1) + (a - s + 1) = total + a - s
        /\ Minus(total) + (a - s + 1) = total' + a - Cardinality(Subtracting')
    BY <1>2, <1>4, <1>5, <1>8, <2>2
  <2>6. total + a - s \in Int /\ total' + a - Cardinality(Subtracting') \in Int
    BY <1>2, <1>4, <1>5, <1>8, <2>2
  <2>7. SameCount(pairTotal, total' + a - Cardinality(Subtracting'))
    BY <1>1, <1>2, <2>4, <2>5, <2>6, CountsAdd
  <2>8. SameCount(pairTotal', total' + Cardinality(Adding') - Cardinality(Subtracting'))
    BY <1>5, <2>1, <2>7 DEF a
  <2> QED BY <1>1, <1>3, <1>5, <1>6, <1>8, <2>1, <2>2, <2>8 DEF TotalsAgree
<1> QED BY <1>1, <1>5, <1>7, <1>8

-----------------------------------------------------------------------------

(* The invariant.                                                          *)

LEMMA InitAgrees == Init => TotalsAgree
<1> SUFFICES ASSUME Init
             PROVE  TotalsAgree
  OBVIOUS
<1>1. pairTotal = 0 /\ total = 0 /\ owes = [w \in Writers |-> "nothing"]
  BY DEF Init
<1>2. Adding = {} /\ Subtracting = {}
  BY <1>1 DEF Adding, Subtracting
<1>3. IsFiniteSet({}) /\ Cardinality({}) = 0
  BY FS_EmptySet
<1>4. Word \in Nat \ {0} /\ 0 = (0 + 0 - 0) + 0 * Word
  BY CMapAssumption
<1>5. SameCount(0, 0 + 0 - 0)
  BY <1>4 DEF SameCount
<1> QED BY <1>1, <1>2, <1>3, <1>4, <1>5 DEF TotalsAgree

LEMMA NextAgrees == TotalsAgree /\ [Next]_vars => TotalsAgree'
<1> SUFFICES ASSUME TotalsAgree, [Next]_vars
             PROVE  TotalsAgree'
  OBVIOUS
<1>1. ASSUME UNCHANGED <<pairTotal, total, owes>>
      PROVE  TotalsAgree'
  BY <1>1 DEF TotalsAgree, Adding, Subtracting
<1>2. ASSUME NEW w \in Writers, NEW k \in Keys, PutNew(w, k)
      PROVE  TotalsAgree'
  <2>1. /\ owes[w] = "nothing" /\ total' = total
        /\ owes' = [owes EXCEPT ![w] = "add"] /\ pairTotal' = Plus(pairTotal)
    BY <1>2 DEF PutNew, Enter
  <2> QED BY <2>1, CountChanges
<1>3. ASSUME NEW w \in Writers, NEW k \in Keys, Delete(w, k)
      PROVE  TotalsAgree'
  <2>1. /\ owes[w] = "nothing" /\ total' = total
        /\ owes' = [owes EXCEPT ![w] = "subtract"] /\ pairTotal' = Minus(pairTotal)
    BY <1>3 DEF Delete, Enter
  <2> QED BY <2>1, CountChanges
<1>4. ASSUME NEW w \in Writers, NEW k \in Keys, PutReplace(w, k)
      PROVE  TotalsAgree'
  BY <1>1, <1>4 DEF PutReplace
<1>5. ASSUME NEW w \in Writers, UpdateTotal(w)
      PROVE  TotalsAgree'
  BY <1>5, TotalFollows
<1>6. CASE Redistribute
  BY <1>1, <1>6 DEF Redistribute, Check, Clear, MoveToEmpty, MoveToFound, MoveLink,
                    MoveStore, MoveDone
<1>7. ASSUME NEW r \in Readers, ReadStep(r) \/ \E k \in Keys : GetBegin(r, k)
      PROVE  TotalsAgree'
  BY <1>1, <1>7 DEF ReadStep, GetFirst, GetWalk, GetElement, GetEnd, GetBegin, writerVars
<1>8. CASE UNCHANGED vars
  BY <1>1, <1>8 DEF vars, writerVars
<1> QED BY <1>2, <1>3, <1>4, <1>5, <1>6, <1>7, <1>8 DEF Next

\* At every moment cmap.total differs from the segment's count by exactly the
\* Puts and Deletes that have released the mutex, or are about to, and have not
\* come to their atomic addition yet (cmap.go:80-111), wrap-around included.
THEOREM TotalIsAccountedFor == Spec => []TotalsAgree
<1> QED BY InitAgrees, NextAgrees, PTL DEF Spec

\* Once every caller has returned, cmap.total is the number of pairs, in
\* whatever order the callers did their additions.
THEOREM TotalAlwaysCatchesUp == Spec => []TotalCatchesUp
<1>1. TotalsAgree => TotalCatchesUp
  <2> SUFFICES ASSUME TotalsAgree, \A w \in Writers : owes[w] = "nothing"
               PROVE  total = pairTotal
    BY DEF TotalCatchesUp
  <2>1. Adding = {} /\ Subtracting = {}
    BY DEF Adding, Subtracting
  <2>2. Cardinality({}) = 0
    BY FS_EmptySet
  <2>3. total \in 0..(Word - 1) /\ pairTotal \in 0..(Word - 1) /\ total + 0 - 0 = total
    BY CMapAssumption DEF TotalsAgree
  <2>4. SameCount(pairTotal, total)
    BY <2>1, <2>2, <2>3 DEF TotalsAgree
  <2> QED BY <2>3, <2>4, SameBelow
<1> QED BY <1>1, TotalIsAccountedFor, PTL

\* A set of numbers has a smallest one.
LEMMA LeastExists ==
  ASSUME NEW S \in SUBSET Nat, S # {}
  PROVE  \E m \in S : \A x \in S : m <= x
<1> DEFINE Less == {p \in Nat \X Nat : p[1] < p[2]}
<1>1. IsWellFoundedOn(Less, Nat)
  BY NatLessThanWellFounded DEF OpToRel
<1> HIDE DEF Less
<1>2. PICK m \in S : \A y \in S : <<y, m>> \notin Less
  BY <1>1, WFMin
<1>3. ASSUME NEW x \in S
      PROVE  m <= x
  <2>1. x \in Nat /\ m \in Nat
    OBVIOUS
  <2>2. x < m => <<x, m>> \in Less
    BY <2>1 DEF Less
  <2>3. ~(x < m)
    BY <1>2, <2>2
  <2> QED BY <2>1, <2>3
<1> QED BY <1>3

\* The i-th of s, or nil.
PairAt(s, i) == IF i \in 1..Len(s) THEN s[i] ELSE None

\* With the pairs p, the list from n on is s.
ListOf(p, n, s) ==
  s \in Seq(Nodes) /\ n = PairAt(s, 1) /\ \A i \in 1..Len(s) : p[s[i]].next = PairAt(s, i + 1)

\* Chain, of any pairs.
ChainOf(p, n) ==
  LET at[i \in 0..MaxNodes] ==
        IF i = 0 THEN n
        ELSE IF at[i - 1] = None THEN None ELSE p[at[i - 1]].next
      length == Cardinality({i \in 0..MaxNodes : at[i] # None})
  IN  [i \in 1..length |-> at[i - 1]]

LEMMA NodesAre == Nodes \subseteq Nat /\ None \notin Nodes /\ MaxNodes \in Nat
BY CMapAssumption DEF Nodes

LEMMA ChainOfIs ==
  ASSUME NEW p, NEW n, NEW s, ListOf(p, n, s), Len(s) <= MaxNodes
  PROVE  ChainOf(p, n) = s
<1> DEFINE Walked(w) == w = [i \in 0..MaxNodes |-> IF i = 0 THEN n
                              ELSE IF w[i - 1] = None THEN None ELSE p[w[i - 1]].next]
           f == [i \in 0..MaxNodes |-> PairAt(s, i + 1)]
           length(w) == Cardinality({i \in 0..MaxNodes : w[i] # None})
<1>1. PICK m \in Nat : m = Len(s)
  BY LenProperties DEF ListOf
<1>2. (\A i \in 1..m : s[i] \in Nodes /\ s[i] # None /\ p[s[i]].next = PairAt(s, i + 1)) /\ n = PairAt(s, 1)
      /\ m <= MaxNodes /\ MaxNodes \in Nat
  BY <1>1, NodesAre, ElementOfSeq DEF ListOf
<1>3. ASSUME NEW i \in 0..MaxNodes, i # 0
      PROVE  i - 1 \in 0..MaxNodes /\ f[i - 1] = PairAt(s, i)
             /\ PairAt(s, i + 1) = IF PairAt(s, i) = None THEN None ELSE p[PairAt(s, i)].next
  <2>1. i - 1 \in 0..MaxNodes /\ (i - 1) + 1 = i /\ (i + 1 \in 1..m => i \in 1..m)
    BY <1>2, <1>3
  <2> QED BY <1>1, <1>2, <2>1 DEF PairAt
<1>4. Walked(f)
  BY <1>2, <1>3
<1>5. ASSUME NEW w, Walked(w)
      PROVE  w = f
  <2>1. \A i \in 0..MaxNodes : w[i] = f[i]
    <3> SUFFICES ASSUME \E i \in 0..MaxNodes : w[i] # f[i]
                 PROVE  FALSE
      OBVIOUS
    <3>1. PICK i \in 0..MaxNodes : w[i] # f[i] /\ \A j \in 0..MaxNodes : w[j] # f[j] => i <= j
      <4> DEFINE T == {j \in 0..MaxNodes : w[j] # f[j]}
      <4> HIDE DEF f
      <4>1. T \in SUBSET Nat /\ T # {}
        BY <1>2
      <4>2. PICK k \in T : \A x \in T : k <= x
        BY <4>1, LeastExists
      <4> QED BY <4>2
    <3>2. w[0] = n /\ f[0] = n
      BY <1>2, <1>5
    <3>3. i # 0
      BY <3>1, <3>2
    <3>4. i - 1 \in 0..MaxNodes /\ ~(i <= i - 1)
      BY <1>2, <3>3
    <3>5. w[i - 1] = f[i - 1]
      BY <3>1, <3>4
    <3>6. w[i] = IF w[i - 1] = None THEN None ELSE p[w[i - 1]].next
      BY <1>5, <3>3
    <3>7. f[i] = PairAt(s, i + 1)
      OBVIOUS
    <3>8. w[i] = f[i]
      BY <1>3, <3>3, <3>5, <3>6, <3>7
    <3> QED BY <3>1, <3>8
  <2>2. DOMAIN w = 0..MaxNodes /\ w = [i \in 0..MaxNodes |-> w[i]]
    BY <1>5
  <2> QED BY <2>1, <2>2
<1>6. \A i \in 0..MaxNodes : f[i] = PairAt(s, i + 1)
  OBVIOUS
<1>7. {i \in 0..MaxNodes : f[i] # None} = 0..m - 1
  <2>1. ASSUME NEW i \in 0..MaxNodes
        PROVE  f[i] # None <=> i \in 0..m - 1
    <3>1. i + 1 \in 1..m <=> i \in 0..m - 1
      BY <1>2
    <3> QED BY <1>1, <1>2, <1>6, <3>1 DEF PairAt
  <2>2. 0..m - 1 \subseteq 0..MaxNodes
    BY <1>2
  <2> HIDE DEF f
  <2> QED BY <2>1, <2>2
<1>8. \A i \in 1..m : i - 1 \in 0..MaxNodes /\ f[i - 1] = s[i]
  <2> TAKE i \in 1..m
  <2>1. i - 1 \in 0..MaxNodes /\ (i - 1) + 1 = i
    BY <1>2
  <2> QED BY <1>1, <2>1 DEF PairAt
<1> HIDE DEF f
<1>9. (CHOOSE w : Walked(w)) = f
  BY <1>4, <1>5
<1>10. length(f) = m
  <2>1. Cardinality(0..m - 1) = m
    <3>1. m - 1 \in Int /\ 0 \in Int /\ (m - 1) - 0 + 1 = m /\ (0 > m - 1 => m = 0)
      OBVIOUS
    <3> QED BY <3>1, FS_Interval
  <2> QED BY <1>7, <2>1
<1>11. ChainOf(p, n) = [i \in 1..length(f) |-> f[i - 1]]
  <2>1. ChainOf(p, n) = [i \in 1..length(CHOOSE w : Walked(w)) |-> (CHOOSE w : Walked(w))[i - 1]]
    BY Zenon DEF ChainOf
  <2> HIDE DEF length, Walked
  <2> QED BY <1>9, <2>1
<1>12. DOMAIN s = 1..m /\ s = [i \in 1..m |-> s[i]]
  BY <1>1 DEF ListOf
<1> HIDE DEF length
<1> QED BY <1>8, <1>10, <1>11, <1>12

\* A list without repetitions fits into memory.
LEMMA ListFits ==
  ASSUME NEW s \in Seq(Nodes), \A i, j \in 1..Len(s) : s[i] = s[j] => i = j
  PROVE  Len(s) \in Nat /\ Len(s) <= MaxNodes
<1> DEFINE S == {s[i] : i \in 1..Len(s)}
<1>1. Len(s) \in Nat /\ DOMAIN s = 1..Len(s) /\ \A i \in 1..Len(s) : s[i] \in Nodes
  BY LenProperties, ElementOfSeq
<1>2. s \in Bijection(1..Len(s), S)
  <2>1. s \in [1..Len(s) -> S]
    BY <1>1
  <2> QED BY <2>1 DEF Bijection, Injection, Surjection, IsInjective
<1>3. IsFiniteSet(Nodes) /\ Cardinality(Nodes) = MaxNodes
  BY FS_Interval, CMapAssumption DEF Nodes
<1>4. S \subseteq Nodes
  BY <1>1
<1> HIDE DEF S
<1>5. Cardinality(S) = Len(s)
  BY <1>1, <1>2, FS_CountingElements DEF ExistsBijection
<1>6. Cardinality(S) <= Cardinality(Nodes)
  BY <1>3, <1>4, FS_Subset
<1> QED BY <1>1, <1>3, <1>5, <1>6

\* What holds first, and goes on to hold, holds throughout.
LEMMA Throughout ==
  ASSUME NEW N \in Nat, NEW w, NEW D, w[0] \in D,
         \A i \in 1..N : w[i - 1] \in D => w[i] \in D
  PROVE  \A i \in 0..N : w[i] \in D
<1> SUFFICES ASSUME \E i \in 0..N : w[i] \notin D
             PROVE  FALSE
  OBVIOUS
<1> DEFINE T == {i \in 0..N : w[i] \notin D}
<1>1. T \in SUBSET Nat /\ T # {}
  OBVIOUS
<1>2. PICK m \in T : \A x \in T : m <= x
  BY <1>1, LeastExists
<1>3. m # 0 /\ m \in 0..N
  BY <1>2
<1>4. m - 1 \in 0..N /\ m \in 1..N /\ ~(m <= m - 1)
  BY <1>3
<1>5. m - 1 \notin T
  BY <1>2, <1>4
<1> QED BY <1>2, <1>4, <1>5

\* w[0] is a, and each next value is made from the one before by F.
Follows(N, D, a, F) ==
  \E w \in [0..N -> D] : w[0] = a /\ \A i \in 1..N : w[i] = F[i][w[i - 1]]

\* A function is defined by its first value and by how it goes on.
LEMMA Recursion ==
  ASSUME NEW N \in Nat, NEW D, NEW a \in D, NEW F \in [1..N -> [D -> D]]
  PROVE  Follows(N, D, a, F)
<1> DEFINE Upto(k, g) == g[0] = a /\ \A i \in 1..k : g[i] = F[i][g[i - 1]]
           T == {k \in 0..N : ~ \E g \in [0..N -> D] : Upto(k, g)}
<1> SUFFICES ASSUME T # {}
             PROVE  FALSE
  <2>1. N \notin T
    OBVIOUS
  <2>2. N \in 0..N
    OBVIOUS
  <2> QED BY <2>1, <2>2 DEF Follows
<1>1. PICK m \in T : \A x \in T : m <= x
  <2>1. T \in SUBSET Nat
    OBVIOUS
  <2> HIDE DEF T
  <2> QED BY <2>1, LeastExists
<1>2. m # 0
  <2>1. [i \in 0..N |-> a] \in [0..N -> D]
    OBVIOUS
  <2>2. Upto(0, [i \in 0..N |-> a])
    OBVIOUS
  <2> HIDE DEF Upto
  <2> QED BY <2>1, <2>2
<1>3. m \in 1..N /\ m - 1 \in 0..N /\ ~(m <= m - 1)
  BY <1>2
<1>4. m - 1 \notin T
  BY <1>1, <1>3
<1>5. PICK g \in [0..N -> D] : Upto(m - 1, g)
  BY <1>3, <1>4
<1> DEFINE h == [g EXCEPT ![m] = F[m][g[m - 1]]]
<1>6. F[m][g[m - 1]] \in D
  BY <1>3
<1>7. h \in [0..N -> D]
  BY <1>6
<1>8. Upto(m, h)
  <2>1. h[0] = a
    BY <1>3, <1>5
  <2>2. ASSUME NEW i \in 1..m
        PROVE  h[i] = F[i][h[i - 1]]
    <3>1. i \in 0..N /\ i - 1 \in 0..N /\ i - 1 # m
      BY <1>3
    <3>2. h[i - 1] = g[i - 1]
      BY <3>1
    <3>3. CASE i = m
      BY <3>1, <3>2, <3>3
    <3>4. CASE i # m
      <4>1. i \in 1..m - 1 /\ h[i] = g[i]
        BY <3>1, <3>4, <1>3
      <4> QED BY <1>5, <3>2, <4>1
    <3> QED BY <3>3, <3>4
  <2> QED BY <2>1, <2>2
<1> HIDE DEF Upto, h
<1>9. m \notin T
  BY <1>7, <1>8
<1> QED BY <1>9, <1>1

\* Whatever the pairs are, a chain is a sequence of pairs.
LEMMA ChainIsList ==
  ASSUME NEW p, NEW m \in Nat, m <= MaxNodes, NEW n \in (1..m) \cup {None},
         \A i \in 1..m : p[i].next \in (1..m) \cup {None}
  PROVE  ChainOf(p, n) \in Seq(1..m)
<1> DEFINE D == (1..m) \cup {None}
           Walked(w) == w = [i \in 0..MaxNodes |-> IF i = 0 THEN n
                              ELSE IF w[i - 1] = None THEN None ELSE p[w[i - 1]].next]
           F == [i \in 1..MaxNodes |-> [x \in D |-> IF x = None THEN None ELSE p[x].next]]
           length(w) == Cardinality({i \in 0..MaxNodes : w[i] # None})
<1>1. MaxNodes \in Nat /\ None \notin 1..m
  BY CMapAssumption
<1>2. F \in [1..MaxNodes -> [D -> D]]
  OBVIOUS
<1>3. \E w : Walked(w)
  <2>1. PICK w \in [0..MaxNodes -> D] :
          w[0] = n /\ \A i \in 1..MaxNodes : w[i] = F[i][w[i - 1]]
    <3> HIDE DEF D, F
    <3>1. n \in D
      BY DEF D
    <3>2. Follows(MaxNodes, D, n, F)
      BY <1>1, <1>2, <3>1, Recursion
    <3> QED BY <3>2 DEF Follows
  <2>2. ASSUME NEW i \in 0..MaxNodes, i # 0
        PROVE  w[i] = IF w[i - 1] = None THEN None ELSE p[w[i - 1]].next
    <3>1. i \in 1..MaxNodes /\ i - 1 \in 0..MaxNodes
      BY <1>1, <2>2
    <3>2. w[i - 1] \in D
      BY <2>1, <3>1
    <3>3. F[i][w[i - 1]] = IF w[i - 1] = None THEN None ELSE p[w[i - 1]].next
      BY <3>1, <3>2
    <3> QED BY <2>1, <3>1, <3>3
  <2> HIDE DEF D, F
  <2>3. Walked(w)
    BY <2>1, <2>2
  <2> QED BY <2>3
<1>4. PICK w : Walked(w) /\ w = CHOOSE v : Walked(v)
  <2> HIDE DEF Walked
  <2> QED BY <1>3
<1>5. \A i \in 0..MaxNodes : w[i] \in D
  <2>1. w[0] \in D
    BY <1>1, <1>4
  <2>2. ASSUME NEW i \in 1..MaxNodes, w[i - 1] \in D
        PROVE  w[i] \in D
    <3>1. i \in 0..MaxNodes /\ i # 0
      BY <1>1
    <3>2. w[i] = IF w[i - 1] = None THEN None ELSE p[w[i - 1]].next
      BY <1>4, <3>1
    <3> QED BY <2>2, <3>2
  <2> HIDE DEF D
  <2> QED BY <1>1, <2>1, <2>2, Throughout
<1> DEFINE S == {i \in 0..MaxNodes : w[i] # None}
<1>6. IsFiniteSet(S) /\ Cardinality(S) \in Nat /\ Cardinality(S) <= MaxNodes + 1
  <2>1. IsFiniteSet(0..MaxNodes) /\ Cardinality(0..MaxNodes) = MaxNodes + 1
    <3>1. 0 \in Int /\ MaxNodes \in Int /\ ~(0 > MaxNodes) /\ MaxNodes - 0 + 1 = MaxNodes + 1
      BY <1>1
    <3> QED BY <3>1, FS_Interval
  <2>2. S \subseteq 0..MaxNodes
    OBVIOUS
  <2> HIDE DEF S
  <2> QED BY <2>1, <2>2, FS_Subset, FS_CardinalityType
<1>7. ASSUME NEW i \in 0..MaxNodes, w[i] = None
      PROVE  Cardinality(S) <= i
  <2> DEFINE v == [j \in 0..MaxNodes - i |-> w[i + j]]
  <2>1. MaxNodes - i \in Nat /\ v[0] \in {None}
    BY <1>1, <1>7
  <2>2. ASSUME NEW j \in 1..MaxNodes - i, v[j - 1] \in {None}
        PROVE  v[j] \in {None}
    <3>1. i + j \in 0..MaxNodes /\ i + j # 0 /\ (i + j) - 1 = i + (j - 1)
          /\ j \in 0..MaxNodes - i /\ j - 1 \in 0..MaxNodes - i
      BY <1>1
    <3>2. w[i + j] = IF w[(i + j) - 1] = None THEN None ELSE p[w[(i + j) - 1]].next
      BY <1>4, <3>1
    <3>3. w[i + (j - 1)] = None
      BY <2>2, <3>1
    <3> QED BY <3>1, <3>2, <3>3
  <2>3. \A j \in 0..MaxNodes - i : v[j] \in {None}
    <3> HIDE DEF v
    <3> QED BY <2>1, <2>2, Throughout
  <2>4. S \subseteq 0..i - 1
    <3> SUFFICES ASSUME NEW x \in S
                 PROVE  x \in 0..i - 1
      OBVIOUS
    <3>1. x \in 0..MaxNodes /\ w[x] # None
      OBVIOUS
    <3>2. CASE x >= i
      <4>1. x - i \in 0..MaxNodes - i /\ i + (x - i) = x
        BY <1>1, <3>1, <3>2
      <4> QED BY <2>3, <3>1, <4>1
    <3> QED BY <3>1, <3>2
  <2>5. IsFiniteSet(0..i - 1) /\ Cardinality(0..i - 1) = i
    <3>1. 0 \in Int /\ i - 1 \in Int /\ (0 > i - 1 => i = 0) /\ (i - 1) - 0 + 1 = i
      OBVIOUS
    <3> QED BY <3>1, FS_Interval
  <2> HIDE DEF S
  <2>6. PICK T : T = 0..i - 1
    OBVIOUS
  <2>7. IsFiniteSet(T) /\ S \subseteq T /\ Cardinality(T) = i
    BY <2>4, <2>5, <2>6
  <2>8. Cardinality(S) <= Cardinality(T)
    BY <2>7, FS_Subset
  <2> QED BY <2>7, <2>8
<1>8. ASSUME NEW i \in 1..Cardinality(S)
      PROVE  w[i - 1] \in 1..m
  <2> HIDE DEF S
  <2>1. i - 1 \in 0..MaxNodes /\ ~(Cardinality(S) <= i - 1)
    BY <1>1, <1>6
  <2> QED BY <1>5, <1>7, <2>1
<1>9. ChainOf(p, n) = [i \in 1..Cardinality(S) |-> w[i - 1]]
  <2>1. ChainOf(p, n) = [i \in 1..length(CHOOSE v : Walked(v)) |-> (CHOOSE v : Walked(v))[i - 1]]
    BY Zenon DEF ChainOf
  <2>2. ChainOf(p, n) = [i \in 1..length(w) |-> w[i - 1]]
    <3> HIDE DEF length, Walked
    <3> QED BY <1>4, <2>1
  <2> QED BY <2>2
<1> HIDE DEF S
<1>10. [i \in 1..Cardinality(S) |-> w[i - 1]] \in [1..Cardinality(S) -> 1..m]
  <2>1. PICK l : l = Cardinality(S)
    OBVIOUS
  <2>2. \A i \in 1..l : w[i - 1] \in 1..m
    BY <1>8, <2>1
  <2>3. [i \in 1..l |-> w[i - 1]] \in [1..l -> 1..m]
    BY <2>2
  <2> QED BY <2>1, <2>3
<1>11. PICK l, f, T : l = Cardinality(S) /\ f = [i \in 1..Cardinality(S) |-> w[i - 1]] /\ T = 1..m
  OBVIOUS
<1>12. l \in Nat /\ f \in [1..l -> T] /\ ChainOf(p, n) = f
  BY <1>6, <1>9, <1>10, <1>11
<1>13. f \in Seq(T)
  BY <1>12, SeqDef
<1> QED BY <1>11, <1>12, <1>13

\* All chains of N buckets, one after the other, as Check collects them.
AllOf(p, h, N) ==
  LET all[b \in 0..N] ==
        IF b = 0 THEN << >> ELSE all[b - 1] \o ChainOf(p, h[b - 1])
  IN  all[N]

\* w[i] is what was collected from the first i buckets.
Collects(p, h, m, N, w) ==
  /\ w[0] = << >> /\ AllOf(p, h, N) = w[N]
  /\ \A i \in 0..N : w[i] \in Seq(1..m)
  /\ \A i \in 1..N : w[i] = w[i - 1] \o ChainOf(p, h[i - 1])

LEMMA AllFollows ==
  ASSUME NEW p, NEW h, NEW m \in Nat, m <= MaxNodes, NEW N \in Nat,
         \A b \in 0..N - 1 : h[b] \in (1..m) \cup {None},
         \A i \in 1..m : p[i].next \in (1..m) \cup {None}
  PROVE  \E w : Collects(p, h, m, N, w)
<1> DEFINE D == Seq(1..m)
           All(w) == w = [b \in 0..N |-> IF b = 0 THEN << >>
                                         ELSE w[b - 1] \o ChainOf(p, h[b - 1])]
           F == [i \in 1..N |-> [x \in D |-> x \o ChainOf(p, h[i - 1])]]
<1>1. ASSUME NEW i \in 1..N
      PROVE  ChainOf(p, h[i - 1]) \in D /\ \A x \in D : x \o ChainOf(p, h[i - 1]) \in D
  <2>1. i - 1 \in 0..N - 1
    OBVIOUS
  <2>2. h[i - 1] \in (1..m) \cup {None}
    BY <2>1
  <2>3. PICK a : a = h[i - 1]
    OBVIOUS
  <2>4. ChainOf(p, a) \in Seq(1..m)
    BY <2>2, <2>3, ChainIsList
  <2>5. \A x \in D : x \o ChainOf(p, a) \in D
    BY <2>4, ConcatProperties
  <2> QED BY <2>3, <2>4, <2>5
<1>2. F \in [1..N -> [D -> D]]
  BY <1>1
<1>3. << >> \in D
  OBVIOUS
<1>4. \E w : All(w)
  <2>1. PICK w \in [0..N -> D] :
          w[0] = << >> /\ \A i \in 1..N : w[i] = F[i][w[i - 1]]
    <3> HIDE DEF D, F
    <3>1. Follows(N, D, << >>, F)
      BY <1>2, <1>3, Recursion
    <3> QED BY <3>1 DEF Follows
  <2>2. ASSUME NEW i \in 0..N, i # 0
        PROVE  w[i] = w[i - 1] \o ChainOf(p, h[i - 1])
    <3>1. i \in 1..N /\ i - 1 \in 0..N
      BY <2>2
    <3>2. w[i - 1] \in D
      BY <2>1, <3>1
    <3>3. F[i][w[i - 1]] = w[i - 1] \o ChainOf(p, h[i - 1])
      BY <3>1, <3>2
    <3> QED BY <2>1, <3>1, <3>3
  <2> HIDE DEF D, F
  <2>3. All(w)
    BY <2>1, <2>2
  <2> QED BY <2>3
<1>5. PICK w : All(w) /\ w = CHOOSE v : All(v)
  <2> HIDE DEF All
  <2> QED BY <1>4
<1>6. \A i \in 0..N : w[i] \in D
  <2>1. w[0] \in D
    BY <1>3, <1>5
  <2>2. ASSUME NEW i \in 1..N, w[i - 1] \in D
        PROVE  w[i] \in D
    <3>1. i \in 0..N /\ i # 0
      OBVIOUS
    <3>2. w[i] = w[i - 1] \o ChainOf(p, h[i - 1])
      BY <1>5, <3>1
    <3> HIDE DEF D
    <3> QED BY <1>1, <2>2, <3>2
  <2> HIDE DEF D
  <2> QED BY <2>1, <2>2, Throughout
<1>7. AllOf(p, h, N) = (CHOOSE v : All(v))[N]
  BY Zenon DEF AllOf
<1>8. AllOf(p, h, N) = w[N]
  <2> HIDE DEF All
  <2> QED BY <1>5, <1>7
<1>9. w[0] = << >>
  BY <1>5
<1>10. ASSUME NEW i \in 1..N
       PROVE  w[i] = w[i - 1] \o ChainOf(p, h[i - 1])
  <2>1. i \in 0..N /\ i # 0
    OBVIOUS
  <2> QED BY <1>5, <2>1
<1> QED BY <1>6, <1>8, <1>9, <1>10 DEF Collects

LEMMA AllIsList ==
  ASSUME NEW p, NEW h, NEW m \in Nat, m <= MaxNodes, NEW N \in Nat,
         \A b \in 0..N - 1 : h[b] \in (1..m) \cup {None},
         \A i \in 1..m : p[i].next \in (1..m) \cup {None}
  PROVE  AllOf(p, h, N) \in Seq(1..m)
<1>1. PICK w : Collects(p, h, m, N, w)
  BY AllFollows
<1>2. N \in 0..N
  OBVIOUS
<1> QED BY <1>1, <1>2 DEF Collects

-----------------------------------------------------------------------------
(* Where things are and of what type, growing or not.                      *)

\* What is in a list, about to be moved or walked on has been made.
OfMade(m) == (1..m) \cup {None}
Filled(m) == [key : Keys, element : Elements, next : OfMade(m)]
ReaderOf(m) ==
  {x \in [at : {"idle", "first", "walk", "element", "done"}, key : Keys \cup {None},
          bucket : Buckets \cup {None}, node : OfMade(m), result : Elements \cup {None}] :
     /\ x.at \in {"first", "walk", "element"} => x.result = None
     /\ x.at \in {"walk", "element"} => x.node # None
     /\ x.at = "first" => x.bucket \in Buckets}

MadeNodes ==
  /\ \A n \in 1..made : pair[n] \in Filled(made)
  /\ first \in [Buckets -> OfMade(made)]
  /\ moving \in Seq(1..made)
  /\ reader \in [Readers -> ReaderOf(made)]

\* Redistribute has room, and only the holder of the mutex is in it.
Held ==
  /\ lock = Free => step = "none"
  /\ step \in {"check", "clear"} => next < bucketsLen
  /\ step \in {"clear", "put", "store"} => 2 * bucketsLen <= MaxBuckets
  /\ step \notin {"clear", "put", "store"} => moving = << >>
  /\ step = "store" => moving # << >>
  /\ bucketsLen >= InitialBuckets

TypeInv == TypeOK /\ MadeNodes /\ Held

LEMMA ChainIs == ASSUME NEW n PROVE Chain(n) = ChainOf(pair, n)
BY Zenon DEF Chain, ChainOf

\* The lists consist of pairs that were made.
LEMMA ListsOfMade ==
  ASSUME TypeInv
  PROVE  /\ made \in Nat /\ made <= MaxNodes /\ MaxNodes \in Nat /\ None \notin Nat
         /\ 1..made \subseteq Nodes
         /\ \A i \in 1..made : pair[i].next \in (1..made) \cup {None}
         /\ \A n \in OfMade(made) : Chain(n) \in Seq(1..made)
<1>1. made \in Nat /\ made <= MaxNodes /\ MaxNodes \in Nat /\ None \notin Nat
  BY CMapAssumption DEF TypeInv, TypeOK
<1>2. \A i \in 1..made : pair[i].next \in (1..made) \cup {None}
  BY DEF TypeInv, MadeNodes, Filled, OfMade
<1>3. ASSUME NEW n \in OfMade(made)
      PROVE  Chain(n) \in Seq(1..made)
  <2>1. PICK m, p : m = made /\ p = pair
    OBVIOUS
  <2>2. m \in Nat /\ m <= MaxNodes /\ n \in (1..m) \cup {None}
        /\ \A i \in 1..m : p[i].next \in (1..m) \cup {None}
    BY <1>1, <1>2, <2>1 DEF OfMade
  <2>3. ChainOf(p, n) \in Seq(1..m)
    BY <2>2, ChainIsList
  <2> QED BY <2>1, <2>3, ChainIs
<1> QED BY <1>1, <1>2, <1>3 DEF Nodes

\* Position is the place of the first pair with the key.
LEMMA PositionIs ==
  ASSUME NEW n, NEW k, NEW c, c = Chain(n), NEW m, c \in Seq(1..m), InChain(n, k)
  PROVE  /\ Position(n, k) \in 1..Len(c) /\ Len(c) \in Nat
         /\ pair[c[Position(n, k)]].key = k
         /\ \A j \in 1..(Position(n, k) - 1) : pair[c[j]].key # k
         /\ c[Position(n, k)] \in 1..m
<1>1. Len(c) \in Nat /\ DOMAIN c = 1..Len(c)
  BY LenProperties
<1> DEFINE S == {i \in 1..Len(c) : pair[c[i]].key = k}
<1>2. S \in SUBSET Nat /\ S # {}
  BY <1>1 DEF InChain
<1>3. PICK i \in S : \A x \in S : i <= x
  <2> HIDE DEF S
  <2> QED BY <1>2, LeastExists
<1>4. \A j \in 1..(i - 1) : pair[c[j]].key # k
  BY <1>1, <1>3
<1>5. i \in DOMAIN Chain(n) /\ pair[Chain(n)[i]].key = k
      /\ \A j \in 1..(i - 1) : pair[Chain(n)[j]].key # k
  BY <1>1, <1>3, <1>4
<1>6. Position(n, k) \in DOMAIN Chain(n) /\ pair[Chain(n)[Position(n, k)]].key = k
      /\ \A j \in 1..(Position(n, k) - 1) : pair[Chain(n)[j]].key # k
  BY <1>5 DEF Position
<1>7. c[Position(n, k)] \in 1..m
  BY <1>1, <1>6, ElementOfSeq
<1> QED BY <1>1, <1>6, <1>7

\* What was made stays made.
LEMMA MadeStays ==
  ASSUME NEW m \in Nat, NEW n \in Nat, m <= n
  PROVE  /\ OfMade(m) \subseteq OfMade(n) /\ Filled(m) \subseteq Filled(n)
         /\ ReaderOf(m) \subseteq ReaderOf(n) /\ Seq(1..m) \subseteq Seq(1..n)
<1>1. 1..m \subseteq 1..n /\ OfMade(m) \subseteq OfMade(n)
  BY DEF OfMade
<1>2. Filled(m) \subseteq Filled(n)
  BY <1>1 DEF Filled
<1>3. ReaderOf(m) \subseteq ReaderOf(n)
  BY <1>1 DEF ReaderOf
<1>4. Seq(1..m) \subseteq Seq(1..n)
  BY <1>1
<1> QED BY <1>1, <1>2, <1>3, <1>4

LEMMA InitTyped == Init => TypeInv
<1> SUFFICES ASSUME Init
             PROVE  TypeInv
  OBVIOUS
<1>1. CMapAssumption /\ CMapBounds
  BY CMapAssumption, CMapBounds
<1>2. TypeOK
  <2>6. pair \in [Nodes -> Pair]
    BY DEF Init, Pair
  <2>7. made \in 0..MaxNodes /\ moving \in Seq(Nodes) /\ lock \in Writers \cup {Free}
    BY <1>1 DEF Init, CMapAssumption
  <2>1. /\ first \in [Buckets -> Nodes \cup {None}]
        /\ owes \in [Writers -> {"nothing", "add", "subtract"}]
        /\ truth \in [Keys -> Elements \cup {None}] /\ deleted \in BOOLEAN
        /\ allowed \in [Readers -> SUBSET (Elements \cup {None})]
    BY DEF Init
  <2>2. 0 \in 0..(Word - 1) /\ bucketsLen \in 1..MaxBuckets /\ ops \in 0..MaxOps
        /\ next \in 0..MaxBuckets /\ overweight \in Nat
    BY <1>1 DEF Init, CMapAssumption, CMapBounds
  <2>3. size \in [Buckets -> 0..(Word - 1)] /\ pairTotal \in 0..(Word - 1)
        /\ total \in 0..(Word - 1)
    BY <2>2 DEF Init
  <2>4. IdleReader \in
          [at : {"idle", "first", "walk", "element", "done"}, key : Keys \cup {None},
           bucket : Buckets \cup {None}, node : Nodes \cup {None},
           result : Elements \cup {None}]
    BY DEF IdleReader
  <2>5. step = "none"
    BY DEF Init
  <2> QED BY <2>1, <2>2, <2>3, <2>4, <2>5, <2>6, <2>7 DEF Init, TypeOK
<1>3. MadeNodes
  <2>1. IdleReader \in ReaderOf(0)
    BY DEF IdleReader, ReaderOf, OfMade
  <2>2. \A n \in 1..0 : FALSE
    OBVIOUS
  <2> QED BY <2>1, <2>2 DEF Init, MadeNodes, OfMade
<1>4. Held
  BY <1>1 DEF Init, Held, CMapAssumption
<1> QED BY <1>2, <1>3, <1>4 DEF TypeInv

-----------------------------------------------------------------------------
\* A call's effect as its caller sees it.
LEMMA BecomesTyped ==
  ASSUME TypeInv, NEW k \in Keys, NEW e \in Elements \cup {None}, Becomes(k, e)
  PROVE  /\ truth' \in [Keys -> Elements \cup {None}] /\ deleted' \in BOOLEAN
         /\ allowed' \in [Readers -> SUBSET (Elements \cup {None})]
BY DEF TypeInv, TypeOK, Becomes

\* The bucket of a key is one of the segment's.
LEMMA BucketIn ==
  ASSUME TypeInv, NEW k \in Keys
  PROVE  BucketOf(k) \in 0..(bucketsLen - 1) /\ BucketOf(k) \in Buckets
         /\ BucketOf(k) \in 0..MaxBuckets
<1>1. Hash[k] \in Nat /\ bucketsLen \in Nat \ {0} /\ bucketsLen <= MaxBuckets
      /\ MaxBuckets \in Nat
  BY CMapAssumption DEF TypeInv, TypeOK
<1>2. Hash[k] % bucketsLen \in 0..(bucketsLen - 1)
  BY <1>1
<1> QED BY <1>1, <1>2 DEF BucketOf, Buckets

LEMMA PutNewTyped ==
  ASSUME TypeInv, NEW w \in Writers, NEW k \in Keys, PutNew(w, k)
  PROVE  TypeInv'
<1> DEFINE b == BucketOf(k)
<1>1. /\ lock = Free /\ ops < MaxOps /\ ops' = ops + 1
      /\ made < MaxNodes /\ made' = made + 1
      /\ pair' = [pair EXCEPT ![made + 1] =
                    [key |-> k, element |-> ops + 1, next |-> first[b]]]
      /\ first' = [first EXCEPT ![b] = made + 1]
      /\ size' = [size EXCEPT ![b] = Plus(size[b])]
      /\ pairTotal' = Plus(pairTotal)
      /\ owes' = [owes EXCEPT ![w] = "add"]
      /\ lock' = w /\ step' = "check" /\ next' = b
      /\ Becomes(k, ops + 1)
      /\ bucketsLen' = bucketsLen /\ overweight' = overweight /\ moving' = moving
      /\ total' = total /\ reader' = reader
  BY DEF PutNew, Enter
<1>2. b \in 0..(bucketsLen - 1) /\ b \in Buckets /\ b \in 0..MaxBuckets
  BY BucketIn
<1> HIDE DEF b
<1>3. ops + 1 \in Elements /\ ops' \in 0..MaxOps /\ made + 1 \in Nodes /\ made' \in 0..MaxNodes
      /\ made \in Nat /\ made + 1 \in Nat /\ None \notin Nat
  BY <1>1, CMapAssumption DEF TypeInv, TypeOK, Elements, Nodes
<1>4. /\ truth' \in [Keys -> Elements \cup {None}] /\ deleted' \in BOOLEAN
      /\ allowed' \in [Readers -> SUBSET (Elements \cup {None})]
  <2>1. PICK e : e = ops + 1
    OBVIOUS
  <2> QED BY <1>1, <1>3, <2>1, BecomesTyped
<1>5. size[b] \in 0..(Word - 1) /\ Plus(size[b]) \in 0..(Word - 1)
      /\ Plus(pairTotal) \in 0..(Word - 1)
  BY <1>2, Counted DEF TypeInv, TypeOK
<1>6. first[b] \in OfMade(made) /\ made + 1 \in OfMade(made + 1)
  BY <1>2, <1>3 DEF TypeInv, MadeNodes, OfMade
<1>7. OfMade(made) \subseteq OfMade(made + 1) /\ Filled(made) \subseteq Filled(made + 1)
      /\ ReaderOf(made) \subseteq ReaderOf(made + 1) /\ Seq(1..made) \subseteq Seq(1..made + 1)
  BY <1>3, MadeStays
<1>8. [key |-> k, element |-> ops + 1, next |-> first[b]] \in Filled(made + 1)
  BY <1>3, <1>6, <1>7 DEF Filled
<1>9. [key |-> k, element |-> ops + 1, next |-> first[b]] \in Pair
  BY <1>3, <1>2 DEF Pair, TypeInv, TypeOK
<1>10. TypeOK'
  <2>1. pair' \in [Nodes -> Pair]
    BY <1>1, <1>9 DEF TypeInv, TypeOK
  <2>2. first' \in [Buckets -> Nodes \cup {None}]
    BY <1>1, <1>3 DEF TypeInv, TypeOK
  <2>3. size' \in [Buckets -> 0..(Word - 1)] /\ owes' \in [Writers -> {"nothing", "add", "subtract"}]
    BY <1>1, <1>5 DEF TypeInv, TypeOK
  <2> QED BY <1>1, <1>2, <1>3, <1>4, <1>5, <2>1, <2>2, <2>3 DEF TypeInv, TypeOK
<1>11. MadeNodes'
  <2>1. \A n \in 1..made + 1 : pair'[n] \in Filled(made + 1)
    <3> TAKE n \in 1..made + 1
    <3>1. n \in Nodes
      BY <1>1, <1>3, CMapAssumption DEF Nodes
    <3>2. CASE n = made + 1
      BY <1>1, <1>8, <3>1, <3>2 DEF TypeInv, TypeOK
    <3>3. CASE n # made + 1
      <4>1. n \in 1..made
        BY <1>3, <3>3
      <4> QED BY <1>1, <1>7, <3>1, <3>3, <4>1 DEF TypeInv, TypeOK, MadeNodes
    <3> QED BY <3>2, <3>3
  <2>2. first' \in [Buckets -> OfMade(made + 1)]
    BY <1>1, <1>6, <1>7 DEF TypeInv, MadeNodes
  <2>3. moving' \in Seq(1..made + 1) /\ reader' \in [Readers -> ReaderOf(made + 1)]
    BY <1>1, <1>7 DEF TypeInv, MadeNodes
  <2> QED BY <1>1, <2>1, <2>2, <2>3 DEF MadeNodes
<1>12. Held'
  <2>1. w # Free
    BY CMapAssumption
  <2> QED BY <1>1, <1>2, <2>1 DEF TypeInv, TypeOK, Held
<1> QED BY <1>10, <1>11, <1>12 DEF TypeInv

\* A pair that gets another element is still one.
LEMMA ReplacedTyped ==
  ASSUME TypeInv, NEW n \in 1..made, NEW e \in Elements,
         pair' = [pair EXCEPT ![n].element = e], made' = made
  PROVE  /\ pair' \in [Nodes -> Pair]
         /\ \A i \in 1..made : pair'[i] \in Filled(made)
<1>1. pair \in [Nodes -> Pair] /\ n \in Nodes /\ 1..made \subseteq Nodes
      /\ \A i \in 1..made : pair[i] \in Filled(made)
  BY ListsOfMade DEF TypeInv, TypeOK, MadeNodes
<1>2. [pair[n] EXCEPT !.element = e] \in Filled(made)
  BY <1>1 DEF Filled
<1>3. Filled(made) \subseteq Pair
  BY <1>1 DEF Filled, Pair, OfMade
<1>4. pair' = [pair EXCEPT ![n] = [pair[n] EXCEPT !.element = e]]
  BY <1>1
<1> QED BY <1>1, <1>2, <1>3, <1>4

LEMMA PutReplaceTyped ==
  ASSUME TypeInv, NEW w \in Writers, NEW k \in Keys, PutReplace(w, k)
  PROVE  TypeInv'
<1> DEFINE b == BucketOf(k)
           c == Chain(first[b])
           target == c[Position(first[b], k)]
<1>1. /\ ops < MaxOps /\ ops' = ops + 1 /\ InChain(first[b], k)
      /\ pair' = [pair EXCEPT ![target].element = ops + 1]
      /\ Becomes(k, ops + 1)
      /\ UNCHANGED <<made, first, size, bucketsLen, pairTotal, overweight, lock,
                     step, next, moving, owes, total, reader>>
  BY DEF PutReplace, Enter
<1>2. b \in Buckets /\ c \in Seq(1..made)
  <2>1. b \in Buckets
    BY BucketIn
  <2>2. first[b] \in OfMade(made)
    BY <2>1 DEF TypeInv, MadeNodes
  <2> QED BY <2>1, <2>2, ListsOfMade
<1>3. target \in 1..made
  <2> HIDE DEF b
  <2>1. PICK n, m, s : n = first[b] /\ m = made /\ s = c
    OBVIOUS
  <2>2. s = Chain(n) /\ s \in Seq(1..m) /\ InChain(n, k)
    BY <1>1, <1>2, <2>1
  <2>3. s[Position(n, k)] \in 1..m
    BY <2>2, PositionIs
  <2> QED BY <2>1, <2>3
<1> HIDE DEF b, c, target
<1>4. ops + 1 \in Elements /\ ops' \in 0..MaxOps /\ None \notin Nat
  <2>1. ops \in 0..MaxOps
    BY DEF TypeInv, TypeOK
  <2>2. ops < MaxOps /\ ops' = ops + 1
    BY <1>1
  <2> QED BY <2>1, <2>2, CMapAssumption DEF Elements
<1>5. /\ truth' \in [Keys -> Elements \cup {None}] /\ deleted' \in BOOLEAN
      /\ allowed' \in [Readers -> SUBSET (Elements \cup {None})]
  <2>1. PICK e : e = ops + 1
    OBVIOUS
  <2> QED BY <1>1, <1>4, <2>1, BecomesTyped
<1>6. /\ pair' \in [Nodes -> Pair]
      /\ \A i \in 1..made : pair'[i] \in Filled(made)
  <2>1. PICK n, e : n = target /\ e = ops + 1
    OBVIOUS
  <2>2. pair' = [pair EXCEPT ![n].element = e] /\ made' = made /\ n \in 1..made /\ e \in Elements
    BY <1>1, <1>3, <1>4, <2>1
  <2> QED BY <2>2, ReplacedTyped
<1>7. TypeOK'
  BY <1>1, <1>4, <1>5, <1>6 DEF TypeInv, TypeOK
<1>8. MadeNodes'
  BY <1>1, <1>6 DEF TypeInv, MadeNodes
<1>9. Held'
  BY <1>1 DEF TypeInv, Held
<1> QED BY <1>7, <1>8, <1>9 DEF TypeInv

LEMMA DeleteTyped ==
  ASSUME TypeInv, NEW w \in Writers, NEW k \in Keys, Delete(w, k)
  PROVE  TypeInv'
<1> DEFINE b == BucketOf(k)
           c == Chain(first[b])
           before == Position(first[b], k) - 1
           rest == pair[c[before + 1]].next
           copy(i) == [pair[c[i]] EXCEPT !.next = IF i = before THEN rest ELSE made + i + 1]
<1>1. /\ lock = Free /\ ops < MaxOps /\ ops' = ops + 1 /\ InChain(first[b], k)
      /\ made + before <= MaxNodes /\ made' = made + before
      /\ pair' = [n \in Nodes |-> IF n \in (made + 1)..(made + before)
                                  THEN copy(n - made) ELSE pair[n]]
      /\ first' = [first EXCEPT ![b] = IF before = 0 THEN rest ELSE made + 1]
      /\ size' = [size EXCEPT ![b] = Minus(size[b])]
      /\ pairTotal' = Minus(pairTotal)
      /\ owes' = [owes EXCEPT ![w] = "subtract"]
      /\ lock' = w /\ step' = "check" /\ next' = b
      /\ Becomes(k, None)
      /\ bucketsLen' = bucketsLen /\ overweight' = overweight /\ moving' = moving
      /\ total' = total /\ reader' = reader
  BY DEF Delete, Enter
<1>2. b \in 0..(bucketsLen - 1) /\ b \in Buckets /\ b \in 0..MaxBuckets /\ c \in Seq(1..made)
  <2>1. b \in 0..(bucketsLen - 1) /\ b \in Buckets /\ b \in 0..MaxBuckets
    BY BucketIn
  <2>2. first[b] \in OfMade(made)
    BY <2>1 DEF TypeInv, MadeNodes
  <2> QED BY <2>1, <2>2, ListsOfMade
<1>3. before + 1 \in 1..Len(c) /\ Len(c) \in Nat /\ before \in Nat
  <2> HIDE DEF b
  <2>1. PICK n, m, s : n = first[b] /\ m = made /\ s = c
    OBVIOUS
  <2>2. s = Chain(n) /\ s \in Seq(1..m) /\ InChain(n, k)
    BY <1>1, <1>2, <2>1
  <2>3. Position(n, k) \in 1..Len(s) /\ Len(s) \in Nat
    BY <2>2, PositionIs
  <2> QED BY <2>1, <2>3
<1>4. ops' \in 0..MaxOps /\ None \notin Nat /\ made \in Nat /\ made + before \in Nat
      /\ made' \in 0..MaxNodes /\ made <= made + before
  <2> HIDE DEF b, c, before, rest, copy
  <2>1. ops \in 0..MaxOps /\ made \in 0..MaxNodes
    BY DEF TypeInv, TypeOK
  <2> QED BY <1>1, <1>3, <2>1, CMapAssumption
<1>5. /\ truth' \in [Keys -> Elements \cup {None}] /\ deleted' \in BOOLEAN
      /\ allowed' \in [Readers -> SUBSET (Elements \cup {None})]
  BY <1>1, BecomesTyped
<1> HIDE DEF b, c, before
<1>6. size[b] \in 0..(Word - 1) /\ Minus(size[b]) \in 0..(Word - 1)
      /\ Minus(pairTotal) \in 0..(Word - 1)
  BY <1>2, Counted DEF TypeInv, TypeOK
<1>7. OfMade(made) \subseteq OfMade(made + before) /\ Filled(made) \subseteq Filled(made + before)
      /\ ReaderOf(made) \subseteq ReaderOf(made + before)
      /\ Seq(1..made) \subseteq Seq(1..made + before)
  BY <1>4, MadeStays
<1>8. \A i \in 1..Len(c) : pair[c[i]] \in Filled(made)
  BY <1>2, ElementOfSeq DEF TypeInv, MadeNodes
<1>9. rest \in OfMade(made)
  BY <1>3, <1>8 DEF Filled
<1> HIDE DEF rest
<1>10. \A i \in 1..before : copy(i) \in Filled(made + before)
  <2> TAKE i \in 1..before
  <2>1. i \in 1..Len(c) /\ (i # before => made + i + 1 \in 1..(made + before))
    BY <1>3, <1>4
  <2>2. (IF i = before THEN rest ELSE made + i + 1) \in OfMade(made + before)
    BY <1>7, <1>9, <2>1 DEF OfMade
  <2> QED BY <1>8, <2>1, <2>2 DEF Filled
<1> HIDE DEF copy
<1>11. Filled(made + before) \subseteq Pair
  <2>1. 1..(made + before) \subseteq Nodes
    BY <1>1, <1>4, CMapAssumption DEF Nodes
  <2> QED BY <2>1 DEF Filled, Pair, OfMade
<1>12. \A n \in (made + 1)..(made + before) : n - made \in 1..before
  BY <1>3, <1>4
<1>13. TypeOK'
  <2>1. pair' \in [Nodes -> Pair]
    BY <1>1, <1>10, <1>11, <1>12 DEF TypeInv, TypeOK
  <2>2. first' \in [Buckets -> Nodes \cup {None}]
    <3>1. rest \in Nodes \cup {None}
      BY <1>9, ListsOfMade DEF OfMade
    <3>2. before # 0 => made + 1 \in Nodes
      BY <1>1, <1>3, <1>4, CMapAssumption DEF Nodes
    <3> QED BY <1>1, <3>1, <3>2 DEF TypeInv, TypeOK
  <2>3. size' \in [Buckets -> 0..(Word - 1)] /\ owes' \in [Writers -> {"nothing", "add", "subtract"}]
    BY <1>1, <1>6 DEF TypeInv, TypeOK
  <2> QED BY <1>1, <1>2, <1>4, <1>5, <1>6, <2>1, <2>2, <2>3 DEF TypeInv, TypeOK
<1>14. MadeNodes'
  <2>1. \A n \in 1..made + before : pair'[n] \in Filled(made + before)
    <3> TAKE n \in 1..made + before
    <3>1. n \in Nodes
      BY <1>1, <1>4, CMapAssumption DEF Nodes
    <3>2. CASE n \in (made + 1)..(made + before)
      BY <1>1, <1>10, <1>12, <3>1, <3>2
    <3>3. CASE n \notin (made + 1)..(made + before)
      <4>1. n \in 1..made
        BY <1>4, <3>3
      <4> QED BY <1>1, <1>7, <3>1, <3>3, <4>1 DEF TypeInv, MadeNodes
    <3> QED BY <3>2, <3>3
  <2>2. first' \in [Buckets -> OfMade(made + before)]
    <3>1. before # 0 => made + 1 \in OfMade(made + before)
      BY <1>3, <1>4 DEF OfMade
    <3> QED BY <1>1, <1>7, <1>9, <3>1 DEF TypeInv, MadeNodes
  <2>3. moving' \in Seq(1..made + before) /\ reader' \in [Readers -> ReaderOf(made + before)]
    BY <1>1, <1>7 DEF TypeInv, MadeNodes
  <2> QED BY <1>1, <2>1, <2>2, <2>3 DEF MadeNodes
<1>15. Held'
  <2>1. w # Free
    BY CMapAssumption
  <2> QED BY <1>1, <1>2, <2>1 DEF TypeInv, TypeOK, Held
<1> QED BY <1>13, <1>14, <1>15 DEF TypeInv

LEMMA UpdateTotalTyped ==
  ASSUME TypeInv, NEW w \in Writers, UpdateTotal(w)
  PROVE  TypeInv'
<1>1. Plus(total) \in 0..(Word - 1) /\ Minus(total) \in 0..(Word - 1)
  BY Counted DEF TypeInv, TypeOK
<1>2. TypeOK'
  BY <1>1 DEF UpdateTotal, TypeInv, TypeOK
<1>3. MadeNodes'
  BY DEF UpdateTotal, TypeInv, MadeNodes
<1>4. Held'
  BY DEF UpdateTotal, TypeInv, Held
<1> QED BY <1>2, <1>3, <1>4 DEF TypeInv

LEMMA CheckTyped ==
  ASSUME TypeInv, Check
  PROVE  TypeInv'
<1>1. /\ step = "check"
      /\ UNCHANGED <<pair, made, first, size, bucketsLen, pairTotal, owes, total,
                     ops, truth, deleted, reader, allowed>>
      /\ overweight' \in Nat
  BY DEF Check, TypeInv, TypeOK
<1>2. \/ lock' = Free /\ step' = "none" /\ next' = 0 /\ moving' = moving
      \/ /\ 2 * bucketsLen <= MaxBuckets /\ step' = "clear" /\ next' = 0 /\ lock' = lock
         /\ moving' = LET all[b \in 0..bucketsLen] ==
                            IF b = 0 THEN << >> ELSE all[b - 1] \o Chain(first[b - 1])
                      IN  all[bucketsLen]
  BY Zenon DEF Check, Unlock
<1>3. bucketsLen \in Nat \ {0} /\ bucketsLen <= MaxBuckets /\ MaxBuckets \in Nat
  BY CMapAssumption DEF TypeInv, TypeOK
<1>4. CASE lock' = Free /\ step' = "none" /\ next' = 0 /\ moving' = moving
  <2>1. TypeOK'
    BY <1>1, <1>3, <1>4 DEF TypeInv, TypeOK
  <2>2. MadeNodes'
    BY <1>1, <1>4 DEF TypeInv, MadeNodes
  <2>3. Held'
    BY <1>1, <1>4 DEF TypeInv, Held
  <2> QED BY <2>1, <2>2, <2>3 DEF TypeInv
<1>5. CASE /\ 2 * bucketsLen <= MaxBuckets /\ step' = "clear" /\ next' = 0 /\ lock' = lock
           /\ moving' = LET all[b \in 0..bucketsLen] ==
                              IF b = 0 THEN << >> ELSE all[b - 1] \o Chain(first[b - 1])
                        IN  all[bucketsLen]
  <2>1. moving' = AllOf(pair, first, bucketsLen)
    BY <1>5, ChainIs, Zenon DEF AllOf
  <2>2. AllOf(pair, first, bucketsLen) \in Seq(1..made)
    <3>1. PICK p, h, m, N : p = pair /\ h = first /\ m = made /\ N = bucketsLen
      OBVIOUS
    <3>2. m \in Nat /\ m <= MaxNodes /\ N \in Nat
          /\ \A i \in 1..m : p[i].next \in (1..m) \cup {None}
      BY <1>3, <3>1, ListsOfMade
    <3>3. \A b \in 0..N - 1 : h[b] \in (1..m) \cup {None}
      BY <1>3, <3>1 DEF TypeInv, MadeNodes, OfMade, Buckets
    <3>4. AllOf(p, h, N) \in Seq(1..m)
      BY <3>2, <3>3, AllIsList
    <3> QED BY <3>1, <3>4
  <2>3. moving' \in Seq(1..made) /\ moving' \in Seq(Nodes)
    <3>1. moving' \in Seq(1..made)
      BY <2>1, <2>2
    <3> QED BY <3>1, ListsOfMade
  <2>4. TypeOK'
    BY <1>1, <1>3, <1>5, <2>3 DEF TypeInv, TypeOK
  <2>5. MadeNodes'
    BY <1>1, <2>3 DEF TypeInv, MadeNodes
  <2>6. Held'
    <3>1. step' = "clear" /\ next' = 0 /\ lock' = lock /\ 2 * bucketsLen <= MaxBuckets
      BY <1>5
    <3> QED BY <1>1, <1>3, <3>1 DEF TypeInv, Held
  <2> QED BY <2>4, <2>5, <2>6 DEF TypeInv
<1> QED BY <1>2, <1>4, <1>5

LEMMA ClearTyped ==
  ASSUME TypeInv, Clear
  PROVE  TypeInv'
<1>1. bucketsLen \in Nat \ {0} /\ bucketsLen <= MaxBuckets /\ MaxBuckets \in Nat
      /\ next \in 0..MaxBuckets /\ next < bucketsLen /\ Word \in Nat \ {0}
  BY CMapAssumption DEF TypeInv, TypeOK, Held, Clear
<1>2. next' \in 0..MaxBuckets /\ (step' = "clear" => next' < bucketsLen) /\ 0 \in 0..(Word - 1)
      /\ step' \in {"clear", "put"}
  BY <1>1 DEF Clear
<1>3. TypeOK'
  BY <1>2 DEF Clear, TypeInv, TypeOK
<1>4. MadeNodes'
  BY DEF Clear, TypeInv, MadeNodes, OfMade
<1>5. Held'
  BY <1>2 DEF Clear, TypeInv, Held
<1> QED BY <1>3, <1>4, <1>5 DEF TypeInv

\* What is to be moved is a pair, and has a bucket to go to.
LEMMA Moving ==
  ASSUME TypeInv, step \in {"put", "store"}, moving # << >>
  PROVE  /\ Head(moving) \in 1..made /\ Head(moving) \in Nodes
         /\ Tail(moving) \in Seq(1..made) /\ Tail(moving) \in Seq(Nodes)
         /\ pair[Head(moving)] \in Filled(made)
         /\ Target \in Buckets /\ first[Target] \in OfMade(made)
         /\ Plus(size[Target]) \in 0..(Word - 1)
<1>1. moving \in Seq(1..made) /\ 1..made \subseteq Nodes
  BY ListsOfMade DEF TypeInv, MadeNodes
<1>2. Head(moving) \in 1..made /\ Tail(moving) \in Seq(1..made)
  BY <1>1, HeadTailProperties
<1>3. Head(moving) \in Nodes /\ Tail(moving) \in Seq(Nodes) /\ pair[Head(moving)] \in Filled(made)
  <2>1. Head(moving) \in Nodes /\ pair[Head(moving)] \in Filled(made)
    BY <1>1, <1>2 DEF TypeInv, MadeNodes
  <2>2. Tail(moving) \in Seq(Nodes)
    <3>1. PICK S : S = 1..made
      OBVIOUS
    <3>2. S \subseteq Nodes /\ Tail(moving) \in Seq(S)
      BY <1>1, <1>2, <3>1
    <3> QED BY <3>2
  <2> QED BY <1>2, <2>1, <2>2
<1>4. PICK k \in Keys : k = pair[Head(moving)].key
  BY <1>3 DEF Filled
<1>5. Target \in Buckets
  <2>1. Hash[k] \in Nat /\ 2 * bucketsLen \in Nat \ {0} /\ 2 * bucketsLen <= MaxBuckets
        /\ MaxBuckets \in Nat
    BY CMapAssumption DEF TypeInv, TypeOK, Held
  <2>2. PICK d \in Nat \ {0} : d = 2 * bucketsLen
    BY <2>1
  <2>3. Hash[k] % d \in 0..(d - 1)
    BY <2>1
  <2> QED BY <1>4, <2>1, <2>2, <2>3 DEF Target, Buckets
<1>6. first[Target] \in OfMade(made) /\ Plus(size[Target]) \in 0..(Word - 1)
  BY <1>5, Counted DEF TypeInv, TypeOK, MadeNodes
<1> QED BY <1>2, <1>3, <1>5, <1>6

\* The first of the pairs becomes the head of its bucket.
LEMMA MoveTyped ==
  ASSUME TypeInv, MoveToEmpty \/ MoveStore
  PROVE  TypeInv'
<1>1. /\ step \in {"put", "store"} /\ step' = "put" /\ moving # << >>
      /\ first' = [first EXCEPT ![Target] = Head(moving)]
      /\ size' = [size EXCEPT ![Target] = Plus(size[Target])]
      /\ moving' = Tail(moving)
      /\ UNCHANGED <<pair, made, bucketsLen, pairTotal, overweight, lock,
                     next, owes, total, ops, truth, deleted, reader, allowed>>
  BY DEF MoveToEmpty, MoveStore, TypeInv, Held
<1>2. PICK t, n, q, z : t = Target /\ n = Head(moving) /\ q = Tail(moving) /\ z = Plus(size[Target])
  OBVIOUS
<1>3. /\ n \in 1..made /\ n \in Nodes /\ q \in Seq(1..made) /\ q \in Seq(Nodes)
      /\ z \in 0..(Word - 1)
      /\ first' = [first EXCEPT ![t] = n] /\ size' = [size EXCEPT ![t] = z] /\ moving' = q
  BY <1>1, <1>2, Moving
<1>4. TypeOK'
  <2>1. first' \in [Buckets -> Nodes \cup {None}] /\ size' \in [Buckets -> 0..(Word - 1)]
    BY <1>3 DEF TypeInv, TypeOK
  <2>2. moving' \in Seq(Nodes)
    BY <1>3
  <2> QED BY <1>1, <2>1, <2>2 DEF TypeInv, TypeOK
<1>5. MadeNodes'
  BY <1>1, <1>3 DEF TypeInv, MadeNodes, OfMade
<1>6. Held'
  BY <1>1 DEF TypeInv, Held
<1> QED BY <1>4, <1>5, <1>6 DEF TypeInv

LEMMA MoveToFoundTyped ==
  ASSUME TypeInv, MoveToFound
  PROVE  TypeInv'
<1> DEFINE f == first[Target]
           k == pair[Head(moving)].key
           target == Chain(f)[Position(f, k)]
           e == pair[Head(moving)].element
<1>1. /\ step = "put" /\ moving # << >> /\ moving' = Tail(moving)
      /\ InChain(f, k) /\ pair' = [pair EXCEPT ![target].element = e]
      /\ UNCHANGED <<made, first, size, bucketsLen, pairTotal, overweight, lock,
                     step, next, owes, total, ops, truth, deleted, reader, allowed>>
  BY DEF MoveToFound
<1>2. /\ f \in OfMade(made) /\ e \in Elements
      /\ moving' \in Seq(1..made) /\ moving' \in Seq(Nodes)
  <2>1. pair[Head(moving)] \in Filled(made) /\ f \in OfMade(made)
        /\ moving' \in Seq(1..made) /\ moving' \in Seq(Nodes)
    BY <1>1, Moving
  <2> QED BY <2>1 DEF Filled
<1>3. target \in 1..made
  <2>1. Chain(f) \in Seq(1..made)
    BY <1>2, ListsOfMade
  <2>2. PICK n, j, m, s : n = f /\ j = k /\ m = made /\ s = Chain(f)
    OBVIOUS
  <2>3. s = Chain(n) /\ s \in Seq(1..m) /\ InChain(n, j)
    BY <1>1, <2>1, <2>2
  <2>4. s[Position(n, j)] \in 1..m
    BY <2>3, PositionIs
  <2> QED BY <2>2, <2>4
<1> HIDE DEF f, k, target, e
<1>4. /\ pair' \in [Nodes -> Pair]
      /\ \A i \in 1..made : pair'[i] \in Filled(made)
  <2>1. PICK n, x : n = target /\ x = e
    OBVIOUS
  <2>2. pair' = [pair EXCEPT ![n].element = x] /\ made' = made /\ n \in 1..made /\ x \in Elements
    BY <1>1, <1>2, <1>3, <2>1
  <2> QED BY <2>2, ReplacedTyped
<1>5. TypeOK'
  BY <1>1, <1>2, <1>4 DEF TypeInv, TypeOK
<1>6. MadeNodes'
  BY <1>1, <1>2, <1>4 DEF TypeInv, MadeNodes
<1>7. Held'
  BY <1>1 DEF TypeInv, Held
<1> QED BY <1>5, <1>6, <1>7 DEF TypeInv

LEMMA MoveLinkTyped ==
  ASSUME TypeInv, MoveLink
  PROVE  TypeInv'
<1> DEFINE f == first[Target]
           n == Head(moving)
<1>1. /\ step = "put" /\ moving # << >> /\ step' = "store"
      /\ pair' = [pair EXCEPT ![n].next = f]
      /\ UNCHANGED <<made, first, size, bucketsLen, pairTotal, overweight, lock,
                     next, moving, owes, total, ops, truth, deleted, reader, allowed>>
  BY DEF MoveLink
<1>2. f \in OfMade(made) /\ n \in 1..made /\ n \in Nodes
  BY <1>1, Moving
<1> HIDE DEF f, n
<1>3. pair \in [Nodes -> Pair] /\ 1..made \subseteq Nodes /\ \A i \in 1..made : pair[i] \in Filled(made)
  BY ListsOfMade DEF TypeInv, TypeOK, MadeNodes
<1>4. [pair[n] EXCEPT !.next = f] \in Filled(made)
  BY <1>2, <1>3 DEF Filled
<1>5. Filled(made) \subseteq Pair
  BY <1>3 DEF Filled, Pair, OfMade
<1>6. pair' = [pair EXCEPT ![n] = [pair[n] EXCEPT !.next = f]]
  BY <1>1, <1>2, <1>3
<1>7. pair' \in [Nodes -> Pair] /\ \A i \in 1..made : pair'[i] \in Filled(made)
  BY <1>2, <1>3, <1>4, <1>5, <1>6
<1>8. TypeOK'
  BY <1>1, <1>7 DEF TypeInv, TypeOK
<1>9. MadeNodes'
  BY <1>1, <1>7 DEF TypeInv, MadeNodes
<1>10. Held'
  BY <1>1 DEF TypeInv, Held
<1> QED BY <1>8, <1>9, <1>10 DEF TypeInv

LEMMA MoveDoneTyped ==
  ASSUME TypeInv, MoveDone
  PROVE  TypeInv'
<1>1. bucketsLen \in Nat \ {0} /\ 2 * bucketsLen <= MaxBuckets /\ MaxBuckets \in Nat
      /\ bucketsLen >= InitialBuckets /\ InitialBuckets \in Nat
  BY CMapAssumption DEF TypeInv, TypeOK, Held, MoveDone
<1>2. 2 * bucketsLen \in 1..MaxBuckets /\ 2 * bucketsLen >= InitialBuckets
      /\ 0 \in 0..MaxBuckets
  BY <1>1
<1>3. TypeOK'
  BY <1>2 DEF MoveDone, Unlock, TypeInv, TypeOK
<1>4. MadeNodes'
  BY DEF MoveDone, TypeInv, MadeNodes
<1>5. Held'
  BY <1>2 DEF MoveDone, Unlock, TypeInv, Held
<1> QED BY <1>3, <1>4, <1>5 DEF TypeInv

\* A reader that goes on is still one.
LEMMA ReaderTyped ==
  ASSUME TypeInv, NEW r \in Readers, NEW x \in ReaderOf(made),
         reader' = [reader EXCEPT ![r] = x],
         allowed' \in [Readers -> SUBSET (Elements \cup {None})], UNCHANGED writerVars
  PROVE  TypeInv'
<1>1. ReaderOf(made) \subseteq
        [at : {"idle", "first", "walk", "element", "done"}, key : Keys \cup {None},
         bucket : Buckets \cup {None}, node : Nodes \cup {None},
         result : Elements \cup {None}]
  BY ListsOfMade DEF ReaderOf, OfMade
<1>2. TypeOK'
  BY <1>1 DEF writerVars, TypeInv, TypeOK
<1>3. MadeNodes'
  BY DEF writerVars, TypeInv, MadeNodes
<1>4. Held'
  BY DEF writerVars, TypeInv, Held
<1> QED BY <1>2, <1>3, <1>4 DEF TypeInv

LEMMA ReadTyped ==
  ASSUME TypeInv, NEW r \in Readers, ReadStep(r) \/ \E k \in Keys : GetBegin(r, k)
  PROVE  TypeInv'
<1>1. /\ reader \in [Readers -> ReaderOf(made)] /\ reader[r] \in ReaderOf(made)
      /\ allowed \in [Readers -> SUBSET (Elements \cup {None})]
      /\ truth \in [Keys -> Elements \cup {None}]
      /\ IdleReader \in ReaderOf(made)
      /\ \A i \in 1..made : pair[i] \in Filled(made)
      /\ first \in [Buckets -> OfMade(made)]
  <2>1. IdleReader \in ReaderOf(made)
    BY DEF IdleReader, ReaderOf, OfMade
  <2> QED BY <2>1 DEF TypeInv, TypeOK, MadeNodes
<1>2. ASSUME NEW n \in OfMade(made), reader[r].at \in {"first", "walk"}, Arrive(r, n)
      PROVE  \E x \in ReaderOf(made) : reader' = [reader EXCEPT ![r] = x]
  <2> DEFINE x == [reader[r] EXCEPT !.node = n, !.at = IF n = None THEN "done" ELSE "walk"]
  <2>1. reader' = [reader EXCEPT ![r] = x]
    BY <1>1, <1>2 DEF Arrive
  <2>2. x \in ReaderOf(made)
    BY <1>1, <1>2 DEF ReaderOf
  <2> QED BY <2>1, <2>2
<1>3. \E x \in ReaderOf(made) : reader' = [reader EXCEPT ![r] = x]
  <2>1. CASE GetFirst(r)
    <3>1. reader[r].at = "first" /\ Arrive(r, first[reader[r].bucket])
      BY <2>1 DEF GetFirst
    <3>2. first[reader[r].bucket] \in OfMade(made)
      BY <1>1, <3>1 DEF ReaderOf
    <3> QED BY <1>2, <3>1, <3>2
  <2>2. CASE GetWalk(r)
    <3>1. reader[r].at = "walk" /\ reader[r].node \in 1..made
      BY <1>1, <2>2 DEF GetWalk, ReaderOf, OfMade
    <3>2. CASE pair[reader[r].node].key = reader[r].key
      <4> DEFINE x == [reader[r] EXCEPT !.at = "element"]
      <4>1. reader' = [reader EXCEPT ![r] = x]
        BY <1>1, <2>2, <3>2 DEF GetWalk
      <4>2. x \in ReaderOf(made)
        BY <1>1, <3>1 DEF ReaderOf
      <4> QED BY <4>1, <4>2
    <3>3. CASE pair[reader[r].node].key # reader[r].key
      <4>1. Arrive(r, pair[reader[r].node].next)
        BY <2>2, <3>3 DEF GetWalk
      <4>2. pair[reader[r].node].next \in OfMade(made)
        BY <1>1, <3>1 DEF Filled
      <4> QED BY <1>2, <3>1, <4>1, <4>2
    <3> QED BY <3>2, <3>3
  <2>3. CASE GetElement(r)
    <3> DEFINE x == [reader[r] EXCEPT !.result = pair[reader[r].node].element, !.at = "done"]
    <3>1. reader[r].at = "element" /\ reader[r].node \in 1..made
      BY <1>1, <2>3 DEF GetElement, ReaderOf, OfMade
    <3>2. reader' = [reader EXCEPT ![r] = x]
      BY <1>1, <2>3 DEF GetElement
    <3>3. pair[reader[r].node].element \in Elements
      BY <1>1, <3>1 DEF Filled
    <3>4. x \in ReaderOf(made)
      BY <1>1, <3>3 DEF ReaderOf
    <3> QED BY <3>2, <3>4
  <2>4. CASE GetEnd(r)
    BY <1>1, <2>4 DEF GetEnd
  <2>5. ASSUME NEW k \in Keys, GetBegin(r, k)
        PROVE  \E x \in ReaderOf(made) : reader' = [reader EXCEPT ![r] = x]
    <3> DEFINE x == [IdleReader EXCEPT !.at = "first", !.key = k, !.bucket = BucketOf(k)]
    <3>1. reader' = [reader EXCEPT ![r] = x]
      BY <2>5 DEF GetBegin
    <3>2. x \in ReaderOf(made)
      BY BucketIn DEF IdleReader, ReaderOf, OfMade
    <3> QED BY <3>1, <3>2
  <2> QED BY <2>1, <2>2, <2>3, <2>4, <2>5 DEF ReadStep
<1>4. allowed' \in [Readers -> SUBSET (Elements \cup {None})] /\ UNCHANGED writerVars
  <2>1. ASSUME NEW k \in Keys
        PROVE  truth[k] \in Elements \cup {None}
    BY <1>1
  <2>2. CASE GetFirst(r) \/ GetWalk(r) \/ GetElement(r)
    BY <1>1, <2>2 DEF GetFirst, GetWalk, GetElement
  <2>3. CASE GetEnd(r)
    BY <1>1, <2>3 DEF GetEnd
  <2>4. ASSUME NEW k \in Keys, GetBegin(r, k)
        PROVE  allowed' \in [Readers -> SUBSET (Elements \cup {None})] /\ UNCHANGED writerVars
    <3>1. PICK S \in SUBSET (Elements \cup {None}) : S = {truth[k]}
      BY <2>1
    <3> QED BY <1>1, <2>4, <3>1 DEF GetBegin
  <2> QED BY <2>2, <2>3, <2>4 DEF ReadStep
<1> QED BY <1>3, <1>4, ReaderTyped

LEMMA NextTyped == TypeInv /\ [Next]_vars => TypeInv'
<1> SUFFICES ASSUME TypeInv, [Next]_vars
             PROVE  TypeInv'
  OBVIOUS
<1>1. ASSUME NEW w \in Writers, NEW k \in Keys, PutNew(w, k) \/ PutReplace(w, k) \/ Delete(w, k)
      PROVE  TypeInv'
  BY <1>1, PutNewTyped, PutReplaceTyped, DeleteTyped
<1>2. ASSUME NEW w \in Writers, UpdateTotal(w)
      PROVE  TypeInv'
  BY <1>2, UpdateTotalTyped
<1>3. CASE Redistribute
  BY <1>3, CheckTyped, ClearTyped, MoveTyped, MoveToFoundTyped, MoveLinkTyped, MoveDoneTyped
     DEF Redistribute
<1>4. ASSUME NEW r \in Readers, ReadStep(r) \/ \E k \in Keys : GetBegin(r, k)
      PROVE  TypeInv'
  BY <1>4, ReadTyped
<1>5. CASE UNCHANGED vars
  <2>1. TypeOK'
    BY <1>5 DEF vars, writerVars, TypeInv, TypeOK
  <2>2. MadeNodes' /\ Held'
    BY <1>5 DEF vars, writerVars, TypeInv, MadeNodes, Held
  <2> QED BY <2>1, <2>2 DEF TypeInv
<1> QED BY <1>1, <1>2, <1>3, <1>4, <1>5 DEF Next

\* Whatever is put, deleted and redistributed, lists and readers stay within
\* the pairs that were made, a bucket has its index within the segment, and only
\* the holder of the mutex is inside Redistribute (segment.go, redistributor.go).
THEOREM MapIsTyped == Spec => []TypeInv
<1> QED BY InitTyped, NextTyped, PTL DEF Spec

-----------------------------------------------------------------------------
(* The map, until it grows for the first time.                             *)

\* From h on the pairs p, of which m are made, form the list s, and no two of
\* them have the same key.
Walks(p, m, h, s) ==
  /\ ListOf(p, h, s) /\ s \in Seq(1..m)
  /\ \A i, j \in 1..Len(s) : p[s[i]].key = p[s[j]].key => i = j

\* Bucket b has head h and count c: its list s has the keys of the bucket that
\* are present, and their elements.
BucketIs(p, m, t, b, h, c, s) ==
  /\ Walks(p, m, h, s) /\ c = Len(s)
  /\ \A i \in 1..Len(s) : /\ Hash[p[s[i]].key] % InitialBuckets = b
                          /\ t[p[s[i]].key] = p[s[i]].element
  /\ \A k \in Keys : (Hash[k] % InitialBuckets = b /\ t[k] # None)
                       => \E i \in 1..Len(s) : p[s[i]].key = k

FirstBuckets == 0..(InitialBuckets - 1)
Loaded == \A b \in FirstBuckets :
            \E s : BucketIs(pair, made, truth, b, first[b], size[b], s)

Present(t) == {k \in Keys : t[k] # None}
CountIs == /\ IsFiniteSet(Present(truth))
           /\ pairTotal = Cardinality(Present(truth)) /\ pairTotal <= ops

\* A walk from n on comes to an element that is allowed, or to the end, if that is.
Expects(p, m, k, n, a) ==
  \E s : /\ Walks(p, m, n, s)
         /\ \A i \in 1..Len(s) : p[s[i]].key = k => p[s[i]].element \in a
         /\ (\A i \in 1..Len(s) : p[s[i]].key # k) => None \in a

\* A reader in state x may return what is in a.
ReaderSees(p, m, t, x, a) ==
  x.at # "idle" =>
    /\ x.key \in Keys /\ t[x.key] \in a
    /\ x.at = "first" => x.bucket = Hash[x.key] % InitialBuckets
    /\ x.at = "walk" => Expects(p, m, x.key, x.node, a)
    /\ x.at = "element" => p[x.node].key = x.key /\ p[x.node].element \in a
    /\ x.at = "done" => x.result \in a
ReadsFit == \A r \in Readers : ReaderSees(pair, made, truth, reader[r], allowed[r])

\* Nothing has been redistributed yet.
BeforeGrowing == bucketsLen = InitialBuckets /\ step \notin {"clear", "put", "store"}

\* The inductive invariant.
MapInv == BeforeGrowing => Loaded /\ CountIs /\ ReadsFit

-----------------------------------------------------------------------------
\* The first m pairs of p are in q, but that a pair with key k may have got the
\* element e.
Keeps(p, q, m, k, e) ==
  \A n \in 1..m : /\ q[n].key = p[n].key /\ q[n].next = p[n].next
                  /\ \/ q[n].element = p[n].element
                     \/ p[n].key = k /\ q[n].element = e

\* What a walk finds is found in spite of that,
LEMMA WalksOn ==
  ASSUME NEW p, NEW q, NEW m \in Nat, NEW m1 \in Nat, m <= m1, NEW k, NEW e, Keeps(p, q, m, k, e),
         NEW h, NEW s, Walks(p, m, h, s)
  PROVE  Walks(q, m1, h, s) /\ Len(s) \in Nat /\ \A i \in 1..Len(s) : s[i] \in 1..m
<1>1. s \in Seq(1..m) /\ s \in Seq(Nodes) /\ Len(s) \in Nat /\ \A i \in 1..Len(s) : s[i] \in 1..m
  BY LenProperties, ElementOfSeq DEF Walks, ListOf
<1>2. s \in Seq(1..m1)
  <2>1. PICK S, T : S = 1..m /\ T = 1..m1
    OBVIOUS
  <2>2. S \subseteq T /\ s \in Seq(S)
    BY <1>1, <2>1
  <2>3. s \in Seq(T)
    BY <2>2
  <2> QED BY <2>1, <2>3
<1>3. \A i \in 1..Len(s) : q[s[i]].key = p[s[i]].key /\ q[s[i]].next = p[s[i]].next
  BY <1>1 DEF Keeps
<1>4. ListOf(q, h, s)
  BY <1>3 DEF Walks, ListOf
<1>5. \A i, j \in 1..Len(s) : q[s[i]].key = q[s[j]].key => i = j
  BY <1>3 DEF Walks
<1> QED BY <1>1, <1>2, <1>4, <1>5 DEF Walks

\* and what a reader may return it still may, or else what the call put.
LEMMA SeesOn ==
  ASSUME NEW p, NEW q, NEW m \in Nat, NEW m1 \in Nat, m <= m1, NEW k, NEW e, Keeps(p, q, m, k, e),
         NEW t, NEW t1, NEW x, NEW a, NEW a1,
         x.at = "element" => x.node \in 1..m,
         \A j \in Keys : t1[j] = IF j = k THEN e ELSE t[j],
         a1 = IF x.key = k THEN a \cup {e} ELSE a,
         ReaderSees(p, m, t, x, a)
  PROVE  ReaderSees(q, m1, t1, x, a1)
<1> SUFFICES ASSUME x.at # "idle"
             PROVE  ReaderSees(q, m1, t1, x, a1)
  BY DEF ReaderSees
<1>1. /\ x.key \in Keys /\ t[x.key] \in a
      /\ x.at = "first" => x.bucket = Hash[x.key] % InitialBuckets
      /\ x.at = "walk" => Expects(p, m, x.key, x.node, a)
      /\ x.at = "element" => p[x.node].key = x.key /\ p[x.node].element \in a
      /\ x.at = "done" => x.result \in a
  BY DEF ReaderSees
<1>2. a \subseteq a1 /\ (x.key = k => e \in a1) /\ t1[x.key] \in a1
  BY <1>1
<1>3. ASSUME x.at = "walk"
      PROVE  Expects(q, m1, x.key, x.node, a1)
  <2>1. PICK s : /\ Walks(p, m, x.node, s)
                 /\ \A i \in 1..Len(s) : p[s[i]].key = x.key => p[s[i]].element \in a
                 /\ (\A i \in 1..Len(s) : p[s[i]].key # x.key) => None \in a
    BY <1>1, <1>3 DEF Expects
  <2>2. Walks(q, m1, x.node, s) /\ \A i \in 1..Len(s) : s[i] \in 1..m
    BY <2>1, WalksOn
  <2>3. \A i \in 1..Len(s) : /\ q[s[i]].key = p[s[i]].key
                             /\ \/ q[s[i]].element = p[s[i]].element
                                \/ p[s[i]].key = k /\ q[s[i]].element = e
    BY <2>2 DEF Keeps
  <2>4. \A i \in 1..Len(s) : q[s[i]].key = x.key => q[s[i]].element \in a1
    BY <1>2, <2>1, <2>3
  <2>5. (\A i \in 1..Len(s) : q[s[i]].key # x.key) => None \in a1
    BY <1>2, <2>1, <2>3
  <2> QED BY <2>2, <2>4, <2>5 DEF Expects
<1>4. ASSUME x.at = "element"
      PROVE  q[x.node].key = x.key /\ q[x.node].element \in a1
  <2>1. /\ q[x.node].key = p[x.node].key
        /\ \/ q[x.node].element = p[x.node].element
           \/ p[x.node].key = k /\ q[x.node].element = e
    BY <1>4 DEF Keeps
  <2> QED BY <1>1, <1>2, <1>4, <2>1
<1> QED BY <1>1, <1>2, <1>3, <1>4 DEF ReaderSees

\* So a Put or Delete never surprises a Get under way.
LEMMA ReadsGoOn ==
  ASSUME TypeInv, ReadsFit, NEW k \in Keys, NEW e, Becomes(k, e), made' \in Nat, made <= made',
         Keeps(pair, pair', made, k, e), reader' = reader
  PROVE  ReadsFit'
<1>1. made \in Nat /\ truth \in [Keys -> Elements \cup {None}]
      /\ allowed \in [Readers -> SUBSET (Elements \cup {None})] /\ reader \in [Readers -> ReaderOf(made)]
  BY ListsOfMade DEF TypeInv, TypeOK, MadeNodes
<1>2. ASSUME NEW r \in Readers
      PROVE  ReaderSees(pair, made, truth, reader[r], allowed[r])'
  <2>1. PICK p, q, m, m1, t, t1, x, a, a1 :
          /\ p = pair /\ q = pair' /\ m = made /\ m1 = made' /\ t = truth /\ t1 = truth'
          /\ x = reader[r] /\ a = allowed[r] /\ a1 = allowed'[r]
    OBVIOUS
  <2>2. m \in Nat /\ m1 \in Nat /\ m <= m1 /\ Keeps(p, q, m, k, e) /\ ReaderSees(p, m, t, x, a)
    BY <1>1, <2>1 DEF ReadsFit
  <2>3. x.at = "element" => x.node \in 1..m
    BY <1>1, <2>1 DEF ReaderOf, OfMade
  <2>4. \A j \in Keys : t1[j] = IF j = k THEN e ELSE t[j]
    BY <1>1, <2>1 DEF Becomes
  <2>5. a1 = IF x.key = k THEN a \cup {e} ELSE a
    BY <1>1, <2>1 DEF Becomes
  <2>6. ReaderSees(q, m1, t1, x, a1)
    BY <2>2, <2>3, <2>4, <2>5, SeesOn
  <2> QED BY <2>1, <2>6
<1> QED BY <1>2 DEF ReadsFit

\* Another bucket is as it was.
LEMMA OtherBucket ==
  ASSUME NEW p, NEW q, NEW m \in Nat, NEW m1 \in Nat, m <= m1, NEW k, NEW e, Keeps(p, q, m, k, e),
         NEW t, NEW t1, \A j \in Keys : j # k => t1[j] = t[j],
         \A n \in 1..m : p[n].key \in Keys,
         NEW b, Hash[k] % InitialBuckets # b, NEW h, NEW c, NEW s, BucketIs(p, m, t, b, h, c, s)
  PROVE  BucketIs(q, m1, t1, b, h, c, s)
<1>1. Walks(q, m1, h, s) /\ c = Len(s) /\ \A i \in 1..Len(s) : s[i] \in 1..m
  BY WalksOn DEF BucketIs
<1>2. ASSUME NEW i \in 1..Len(s)
      PROVE  /\ p[s[i]].key \in Keys /\ p[s[i]].key # k
             /\ q[s[i]].key = p[s[i]].key /\ q[s[i]].element = p[s[i]].element
  <2>1. s[i] \in 1..m /\ Hash[p[s[i]].key] % InitialBuckets = b
    BY <1>1 DEF BucketIs
  <2> QED BY <2>1 DEF Keeps
<1>3. \A i \in 1..Len(s) : /\ Hash[q[s[i]].key] % InitialBuckets = b
                           /\ t1[q[s[i]].key] = q[s[i]].element
  BY <1>2 DEF BucketIs
<1>4. \A j \in Keys : (Hash[j] % InitialBuckets = b /\ t1[j] # None)
                        => \E i \in 1..Len(s) : q[s[i]].key = j
  BY <1>2 DEF BucketIs
<1> QED BY <1>1, <1>3, <1>4 DEF BucketIs

\* What a bucket's list is made of.
Fits(p, m, t, b, h, c, s) ==
  /\ Len(s) \in Nat /\ c = Len(s) /\ Len(s) <= MaxNodes /\ h = PairAt(s, 1)
  /\ \A i \in 1..Len(s) : /\ s[i] \in 1..m /\ s[i] \in Nodes /\ p[s[i]].next = PairAt(s, i + 1)
                          /\ Hash[p[s[i]].key] % InitialBuckets = b
                          /\ t[p[s[i]].key] = p[s[i]].element
  /\ \A i, j \in 1..Len(s) : p[s[i]].key = p[s[j]].key => i = j

LEMMA ListFacts ==
  ASSUME NEW p, NEW m \in Nat, m <= MaxNodes, NEW t, NEW b, NEW h, NEW c, NEW s, BucketIs(p, m, t, b, h, c, s)
  PROVE  Fits(p, m, t, b, h, c, s)
<1>1. s \in Seq(1..m) /\ s \in Seq(Nodes) /\ ListOf(p, h, s)
      /\ \A i, j \in 1..Len(s) : p[s[i]].key = p[s[j]].key => i = j
  BY DEF BucketIs, Walks, ListOf
<1>2. Len(s) \in Nat /\ \A i \in 1..Len(s) : s[i] \in 1..m /\ s[i] \in Nodes
  BY <1>1, LenProperties, ElementOfSeq
<1>3. \A i, j \in 1..Len(s) : s[i] = s[j] => i = j
  BY <1>1
<1>4. Len(s) <= MaxNodes
  BY <1>1, <1>3, ListFits
<1> QED BY <1>1, <1>2, <1>4 DEF BucketIs, ListOf, Fits

\* Key k has become e.
Turns(t, t1, k, e) == \A j \in Keys : t1[j] = IF j = k THEN e ELSE t[j]

\* A new pair at the head.
HeadPut(p, q, m, k, e, h) ==
  /\ \A n \in 1..m : q[n] = p[n] /\ p[n].element # None /\ p[n].key \in Keys
  /\ q[m + 1] = [key |-> k, element |-> e, next |-> h]

LEMMA NewHead ==
  ASSUME NEW p, NEW q, NEW m \in Nat, m + 1 \in Nodes, NEW k \in Keys, NEW e, e # None,
         NEW t, NEW t1, NEW b, NEW h, NEW c, NEW s, BucketIs(p, m, t, b, h, c, s),
         Hash[k] % InitialBuckets = b, t[k] = None,
         HeadPut(p, q, m, k, e, h), Turns(t, t1, k, e)
  PROVE  \E r : BucketIs(q, m + 1, t1, b, m + 1, c + 1, r)
<1>0. /\ \A n \in 1..m : q[n] = p[n] /\ p[n].element # None
      /\ q[m + 1] = [key |-> k, element |-> e, next |-> h]
      /\ \A n \in 1..m : p[n].key \in Keys
      /\ \A j \in Keys : t1[j] = IF j = k THEN e ELSE t[j]
  BY DEF HeadPut, Turns
<1>1. m <= MaxNodes /\ None \notin Nat
  BY NodesAre, CMapAssumption DEF Nodes
<1>00. Fits(p, m, t, b, h, c, s)
  BY <1>1, ListFacts
<1>2. PICK l \in Nat : l = Len(s) /\ l = c
  BY <1>00 DEF Fits
<1>3. /\ h = PairAt(s, 1)
      /\ \A i \in 1..l : /\ s[i] \in 1..m /\ s[i] \in Nodes /\ p[s[i]].next = PairAt(s, i + 1)
                         /\ Hash[p[s[i]].key] % InitialBuckets = b
                         /\ t[p[s[i]].key] = p[s[i]].element
      /\ \A i, j \in 1..l : p[s[i]].key = p[s[j]].key => i = j
  BY <1>2, <1>00 DEF Fits
<1> USE <1>0
<1> DEFINE r == [i \in 1..(l + 1) |-> IF i = 1 THEN m + 1 ELSE s[i - 1]]
<1>4. \A i \in 1..(l + 1) : i # 1 => i - 1 \in 1..l /\ r[i] = s[i - 1]
  OBVIOUS
<1>5. r[1] = m + 1 /\ DOMAIN r = 1..(l + 1)
  OBVIOUS
<1>6. r \in Seq(Nodes) /\ r \in Seq(1..(m + 1)) /\ Len(r) = l + 1
  <2>1. \A i \in 1..(l + 1) : r[i] \in Nodes /\ r[i] \in 1..(m + 1)
    <3> HIDE DEF r
    <3> TAKE i \in 1..(l + 1)
    <3>1. CASE i = 1
      BY <1>5, <3>1
    <3>2. CASE i # 1
      <4>1. PICK n : n = r[i] /\ n \in 1..m /\ n \in Nodes
        BY <1>3, <1>4, <3>2
      <4> QED BY <4>1
    <3> QED BY <3>1, <3>2
  <2>2. r \in [1..(l + 1) -> Nodes] /\ r \in [1..(l + 1) -> 1..(m + 1)]
    BY <2>1
  <2> HIDE DEF r
  <2> QED BY <1>5, <2>2, SeqDef, LenProperties
<1> HIDE DEF r
<1>7. \A i \in 2..(l + 1) : PairAt(r, i + 1) = PairAt(s, i)
  <2> TAKE i \in 2..(l + 1)
  <2>1. i + 1 \in 1..(l + 1) <=> i \in 1..l
    OBVIOUS
  <2>2. i \in 1..l => r[i + 1] = s[i]
    <3> SUFFICES ASSUME i \in 1..l
                 PROVE  r[i + 1] = s[i]
      OBVIOUS
    <3>1. i + 1 \in 1..(l + 1) /\ i + 1 # 1 /\ (i + 1) - 1 = i
      OBVIOUS
    <3> QED BY <1>4, <3>1
  <2> QED BY <1>2, <1>6, <2>1, <2>2 DEF PairAt
<1>8. PairAt(r, 1) = m + 1 /\ PairAt(r, 2) = h
  <2>1. PairAt(r, 1) = m + 1
    BY <1>5, <1>6 DEF PairAt
  <2>4. h = PairAt(s, 1)
    BY <1>3
  <2>2. CASE l = 0
    <3>1. 2 \notin 1..(l + 1) /\ 1 \notin 1..l
      BY <2>2
    <3>2. PairAt(r, 2) = None /\ PairAt(s, 1) = None
      BY <1>2, <1>6, <3>1 DEF PairAt
    <3> QED BY <2>1, <2>4, <3>2
  <2>3. CASE l # 0
    <3>1. 2 \in 1..(l + 1) /\ 2 - 1 = 1 /\ 1 \in 1..l
      BY <2>3
    <3>2. r[2] = s[1]
      BY <1>4, <3>1
    <3>3. PairAt(r, 2) = r[2] /\ PairAt(s, 1) = s[1]
      BY <1>2, <1>6, <3>1 DEF PairAt
    <3> QED BY <2>1, <2>4, <3>2, <3>3
  <2> QED BY <2>1, <2>2, <2>3
<1>9. ASSUME NEW i \in 1..(l + 1)
      PROVE  /\ q[r[i]].next = PairAt(r, i + 1)
             /\ Hash[q[r[i]].key] % InitialBuckets = b /\ t1[q[r[i]].key] = q[r[i]].element
  <2>1. CASE i = 1
    BY <1>5, <1>8, <2>1
  <2>2. CASE i # 1
    <3>1. i - 1 \in 1..l /\ r[i] = s[i - 1] /\ i \in 2..(l + 1) /\ (i - 1) + 1 = i
      BY <1>4, <2>2
    <3>2. PICK n \in 1..m : n = r[i] /\ n = s[i - 1]
      BY <1>3, <3>1
    <3>3. q[n] = p[n] /\ p[n].element # None /\ p[n].key \in Keys
      OBVIOUS
    <3>4. /\ p[n].next = PairAt(s, i) /\ Hash[p[n].key] % InitialBuckets = b
          /\ t[p[n].key] = p[n].element
      <4>1. /\ p[s[i - 1]].next = PairAt(s, (i - 1) + 1)
            /\ Hash[p[s[i - 1]].key] % InitialBuckets = b /\ t[p[s[i - 1]].key] = p[s[i - 1]].element
        BY <1>3, <3>1
      <4> QED BY <3>1, <3>2, <4>1
    <3>5. p[n].key # k
      BY <3>3, <3>4
    <3> QED BY <1>7, <3>1, <3>2, <3>3, <3>4, <3>5
  <2> QED BY <2>1, <2>2
<1>10. ASSUME NEW i \in 1..(l + 1), NEW j \in 1..(l + 1), q[r[i]].key = q[r[j]].key
       PROVE  i = j
  <2>1. ASSUME NEW x \in 1..(l + 1), x # 1
        PROVE  q[r[x]].key = p[s[x - 1]].key /\ q[r[x]].key # k /\ x - 1 \in 1..l
    <3>1. x - 1 \in 1..l /\ r[x] = s[x - 1]
      BY <1>4, <2>1
    <3>2. s[x - 1] \in 1..m /\ t[p[s[x - 1]].key] = p[s[x - 1]].element
      BY <1>3, <3>1
    <3> QED BY <3>1, <3>2
  <2>2. q[r[1]].key = k
    BY <1>5
  <2>3. CASE i = 1 \/ j = 1
    BY <1>10, <2>1, <2>2, <2>3
  <2>4. CASE i # 1 /\ j # 1
    <3>1. p[s[i - 1]].key = p[s[j - 1]].key /\ i - 1 \in 1..l /\ j - 1 \in 1..l
      BY <1>10, <2>1, <2>4
    <3>2. i - 1 = j - 1
      BY <1>3, <3>1
    <3> QED BY <3>2
  <2> QED BY <2>3, <2>4
<1>11. ASSUME NEW j \in Keys, Hash[j] % InitialBuckets = b, t1[j] # None
       PROVE  \E i \in 1..(l + 1) : q[r[i]].key = j
  <2>1. CASE j = k
    BY <1>5, <2>1
  <2>2. CASE j # k
    <3>1. PICK i \in 1..l : p[s[i]].key = j
      BY <1>2, <1>11, <2>2 DEF BucketIs
    <3>2. i + 1 \in 1..(l + 1) /\ i + 1 # 1 /\ (i + 1) - 1 = i
      OBVIOUS
    <3>3. r[i + 1] = s[i] /\ s[i] \in 1..m
      BY <1>3, <1>4, <3>2
    <3> QED BY <3>1, <3>2, <3>3
  <2> QED BY <2>1, <2>2
<1>12. BucketIs(q, m + 1, t1, b, m + 1, c + 1, r)
  <2>1. ListOf(q, m + 1, r)
    BY <1>6, <1>8, <1>9 DEF ListOf
  <2>2. Walks(q, m + 1, m + 1, r)
    BY <1>6, <1>10, <2>1 DEF Walks
  <2> QED BY <1>2, <1>6, <1>9, <1>11, <2>2 DEF BucketIs
<1> QED BY <1>12

\* Another element in the pair n of the key.
ElementPut(p, q, m, n, k, e) ==
  /\ p[n].key = k /\ q[n].element = e
  /\ \A i \in 1..m : q[i].key = p[i].key /\ q[i].next = p[i].next /\ p[i].key \in Keys
  /\ \A i \in 1..m : i # n => q[i].element = p[i].element

LEMMA NewElement ==
  ASSUME NEW p, NEW q, NEW m \in Nat, m <= MaxNodes, NEW k \in Keys, NEW e,
         NEW t, NEW t1, NEW b, NEW h, NEW c, NEW s, BucketIs(p, m, t, b, h, c, s),
         NEW z \in 1..Len(s), ElementPut(p, q, m, s[z], k, e), Turns(t, t1, k, e)
  PROVE  BucketIs(q, m, t1, b, h, c, s)
<1>0. /\ p[s[z]].key = k /\ q[s[z]].element = e
      /\ \A n \in 1..m : q[n].key = p[n].key /\ q[n].next = p[n].next
      /\ \A n \in 1..m : n # s[z] => q[n].element = p[n].element
      /\ \A j \in Keys : t1[j] = IF j = k THEN e ELSE t[j]
      /\ \A n \in 1..m : p[n].key \in Keys
  BY DEF ElementPut, Turns
<1>00. Fits(p, m, t, b, h, c, s)
  BY ListFacts
<1> USE <1>0
<1>1. PICK l \in Nat : l = Len(s) /\ l = c
  BY <1>00 DEF Fits
<1>2. /\ h = PairAt(s, 1)
      /\ \A i \in 1..l : /\ s[i] \in 1..m /\ s[i] \in Nodes /\ p[s[i]].next = PairAt(s, i + 1)
                         /\ Hash[p[s[i]].key] % InitialBuckets = b
                         /\ t[p[s[i]].key] = p[s[i]].element
      /\ \A i, j \in 1..l : p[s[i]].key = p[s[j]].key => i = j
  BY <1>1, <1>00 DEF Fits
<1>3. \A i \in 1..l : q[s[i]].key = p[s[i]].key /\ q[s[i]].next = p[s[i]].next /\ p[s[i]].key \in Keys
  BY <1>2
<1>4. \A i \in 1..l : t1[q[s[i]].key] = q[s[i]].element
  <2> TAKE i \in 1..l
  <2>1. CASE i = z
    BY <1>1, <1>3, <2>1
  <2>2. CASE i # z
    <3>1. p[s[i]].key # k /\ s[i] # s[z] /\ s[i] \in 1..m
      BY <1>1, <1>2, <2>2
    <3>2. PICK n : n = s[i]
      OBVIOUS
    <3>3. /\ n \in 1..m /\ n # s[z] /\ t[p[n].key] = p[n].element /\ q[n].key = p[n].key
          /\ p[n].key \in Keys /\ p[n].key # k
      BY <1>2, <1>3, <3>1, <3>2
    <3>4. q[n].element = p[n].element /\ t1[p[n].key] = t[p[n].key]
      BY <3>3
    <3> QED BY <3>2, <3>3, <3>4
  <2> QED BY <2>1, <2>2
<1>5. Walks(q, m, h, s)
  BY <1>1, <1>2, <1>3 DEF Walks, ListOf, BucketIs
<1>6. \A j \in Keys : (Hash[j] % InitialBuckets = b /\ t1[j] # None)
                        => \E i \in 1..l : q[s[i]].key = j
  <2> SUFFICES ASSUME NEW j \in Keys, Hash[j] % InitialBuckets = b, t1[j] # None
               PROVE  \E i \in 1..l : q[s[i]].key = j
    OBVIOUS
  <2>1. CASE j = k
    BY <1>1, <1>3, <2>1
  <2>2. CASE j # k
    <3>1. t[j] # None
      BY <2>2
    <3> QED BY <1>1, <1>3, <3>1 DEF BucketIs
  <2> QED BY <2>1, <2>2
<1> QED BY <1>1, <1>2, <1>3, <1>4, <1>5, <1>6 DEF BucketIs

\* The pair at place z is taken out: the pairs before it are copied.
TakenOut(p, q, m, s, z) ==
  /\ \A n \in 1..m : q[n] = p[n] /\ p[n].key \in Keys
  /\ \A i \in 1..z :
       /\ q[m + i].key = p[s[i]].key /\ q[m + i].element = p[s[i]].element
       /\ q[m + i].next = IF i = z THEN p[s[z + 1]].next ELSE m + i + 1

\* Where the i-th of what is left was, when place z + 1 is taken out.
Past(z, i) == IF i <= z THEN i ELSE i + 1

\* r is the list s without its place z + 1.
Without(p, q, m, s, z, h1, r) ==
  /\ r \in Seq(Nodes) /\ r \in Seq(1..(m + z)) /\ Len(r) \in Nat /\ Len(r) + 1 = Len(s) /\ ListOf(q, h1, r)
  /\ \A i \in 1..Len(r) : /\ Past(z, i) \in 1..Len(s) /\ Past(z, i) # z + 1
                          /\ q[r[i]].key = p[s[Past(z, i)]].key /\ q[r[i]].element = p[s[Past(z, i)]].element
  /\ \A i, j \in 1..Len(r) : Past(z, i) = Past(z, j) => i = j
  /\ \A x \in 1..Len(s) : x # z + 1 => \E i \in 1..Len(r) : Past(z, i) = x

LEMMA ListWithout ==
  ASSUME NEW p, NEW q, NEW m \in Nat, m <= MaxNodes, NEW h, NEW s \in Seq(1..m), ListOf(p, h, s),
         NEW z \in Nat, z + 1 \in 1..Len(s), m + z <= MaxNodes, TakenOut(p, q, m, s, z),
         NEW h1, h1 = IF z = 0 THEN p[s[z + 1]].next ELSE m + 1
  PROVE  \E r : Without(p, q, m, s, z, h1, r)
<1>0. /\ \A n \in 1..m : q[n] = p[n]
      /\ \A i \in 1..z : /\ q[m + i].key = p[s[i]].key /\ q[m + i].element = p[s[i]].element
                         /\ q[m + i].next = IF i = z THEN p[s[z + 1]].next ELSE m + i + 1
  BY DEF TakenOut
<1> USE <1>0
<1>1. PICK l \in Nat : l + 1 = Len(s)
  <2>1. Len(s) \in Nat
    BY LenProperties
  <2>2. Len(s) - 1 \in Nat /\ (Len(s) - 1) + 1 = Len(s)
    BY <2>1
  <2> QED BY <2>2
<1>2. \A i \in 1..(l + 1) : s[i] \in 1..m /\ s[i] \in Nodes /\ p[s[i]].next = PairAt(s, i + 1)
  <2>1. \A i \in 1..(l + 1) : p[s[i]].next = PairAt(s, i + 1)
    BY <1>1 DEF ListOf
  <2>2. \A i \in 1..(l + 1) : s[i] \in 1..m
    BY <1>1, ElementOfSeq
  <2>3. 1..m \subseteq Nodes
    BY NodesAre DEF Nodes
  <2> QED BY <2>1, <2>2, <2>3
<1>3. z \in 0..l /\ MaxNodes \in Nat
  BY <1>1, NodesAre
<1> DEFINE r == [i \in 1..l |-> IF i <= z THEN m + i ELSE s[i + 1]]
\* Each pair of the new list is one of the old list, or its copy.
<1>4. ASSUME NEW i \in 1..l
      PROVE  /\ r[i] \in Nodes /\ r[i] \in 1..(m + z) /\ Past(z, i) \in 1..(l + 1) /\ Past(z, i) # z + 1
             /\ q[r[i]].key = p[s[Past(z, i)]].key /\ q[r[i]].element = p[s[Past(z, i)]].element
             /\ r[i] = IF i <= z THEN m + i ELSE s[i + 1]
  <2>1. CASE i <= z
    <3>1. i \in 1..z /\ r[i] = m + i /\ Past(z, i) = i /\ i # z + 1 /\ i \in 1..(l + 1)
          /\ m + i \in 1..MaxNodes /\ m + i \in 1..(m + z)
      BY <1>3, <2>1 DEF Past
    <3>2. q[m + i].key = p[s[i]].key /\ q[m + i].element = p[s[i]].element
      BY <3>1
    <3> HIDE DEF r
    <3> QED BY <2>1, <3>1, <3>2 DEF Nodes
  <2>2. CASE ~(i <= z)
    <3>1. r[i] = s[i + 1] /\ Past(z, i) = i + 1 /\ i + 1 # z + 1 /\ i + 1 \in 1..(l + 1)
          /\ 1..m \subseteq 1..(m + z)
      BY <1>3, <2>2 DEF Past
    <3>2. PICK n : n = s[i + 1] /\ n \in 1..m /\ n \in Nodes
      BY <1>2, <3>1
    <3>3. q[n] = p[n]
      BY <3>2
    <3> HIDE DEF r
    <3> QED BY <2>2, <3>1, <3>2, <3>3
  <2> QED BY <2>1, <2>2
<1>5. r \in Seq(Nodes) /\ r \in Seq(1..(m + z)) /\ Len(r) = l
  <2>1. r \in [1..l -> Nodes] /\ r \in [1..l -> 1..(m + z)] /\ DOMAIN r = 1..l
    BY <1>4
  <2> HIDE DEF r
  <2> QED BY <2>1, SeqDef, LenProperties
<1>6. \A i \in 1..l : PairAt(r, i) = r[i]
  BY <1>5 DEF PairAt
<1>7. PairAt(r, l + 1) = None /\ PairAt(s, l + 2) = None
  <2>1. l + 1 \notin 1..l /\ l + 2 \notin 1..(l + 1)
    OBVIOUS
  <2> HIDE DEF r
  <2> QED BY <1>1, <1>5, <2>1 DEF PairAt
<1>8. \A i \in 1..(l + 1) : PairAt(s, i) = s[i]
  BY <1>1 DEF PairAt
<1> HIDE DEF r
\* The rest of the old list is the rest of the new one.
<1>9. \A i \in (z + 1)..(l + 1) : PairAt(r, i) = PairAt(s, i + 1)
  <2> TAKE i \in (z + 1)..(l + 1)
  <2>1. CASE i = l + 1
    <3>1. i + 1 = l + 2
      BY <2>1
    <3> QED BY <1>7, <2>1, <3>1
  <2>2. CASE i # l + 1
    <3>1. i \in 1..l /\ ~(i <= z) /\ i + 1 \in 1..(l + 1)
      <4>1. z \in Nat /\ z <= l /\ i \in Int /\ z + 1 <= i /\ i <= l + 1 /\ l \in Nat
        BY <1>3
      <4>2. i <= l /\ 1 <= i /\ z < i
        BY <2>2, <4>1
      <4> QED BY <4>1, <4>2
    <3>2. r[i] = s[i + 1]
      BY <1>4, <3>1
    <3> QED BY <1>6, <1>8, <3>1, <3>2
  <2> QED BY <2>1, <2>2
<1>10. p[s[z + 1]].next = PairAt(r, z + 1)
  <2>1. z + 1 \in 1..(l + 1) /\ z + 1 \in (z + 1)..(l + 1) /\ (z + 1) + 1 = z + 2
    BY <1>3
  <2>2. p[s[z + 1]].next = PairAt(s, (z + 1) + 1)
    BY <1>2, <2>1
  <2>3. PairAt(r, z + 1) = PairAt(s, (z + 1) + 1)
    BY <1>9, <2>1
  <2> QED BY <2>2, <2>3
<1>11. h1 = PairAt(r, 1)
  <2>1. CASE z = 0
    <3>1. z + 1 = 1
      BY <2>1
    <3> QED BY <1>10, <2>1, <3>1
  <2>2. CASE z # 0
    <3>1. 1 \in 1..l /\ 1 <= z
      BY <1>3, <2>2
    <3>2. r[1] = m + 1
      BY <1>4, <3>1
    <3> QED BY <1>6, <2>2, <3>1, <3>2
  <2> QED BY <2>1, <2>2
<1>12. ASSUME NEW i \in 1..l
       PROVE  q[r[i]].next = PairAt(r, i + 1)
  <2>1. CASE i < z
    <3>1. i \in 1..z /\ i # z /\ i <= z /\ i + 1 \in 1..l /\ i + 1 <= z
      <4>1. z \in Nat /\ z <= l /\ l \in Nat /\ i \in Int /\ 1 <= i /\ i <= l /\ i < z
        BY <1>3, <2>1
      <4> QED BY <4>1
    <3>2. r[i] = m + i /\ r[i + 1] = m + (i + 1)
      BY <1>4, <3>1
    <3>3. q[m + i].next = m + i + 1
      BY <3>1
    <3>4. m + (i + 1) = m + i + 1
      BY <3>1
    <3> QED BY <1>6, <3>1, <3>2, <3>3, <3>4
  <2>2. CASE i = z
    <3>1. i \in 1..z /\ i <= z
      BY <2>2
    <3>2. r[i] = m + i /\ q[m + i].next = p[s[z + 1]].next
      BY <1>4, <2>2, <3>1
    <3> QED BY <1>10, <2>2, <3>2
  <2>3. CASE i > z
    <3>1. ~(i <= z) /\ i + 1 \in 1..(l + 1) /\ i + 1 \in (z + 1)..(l + 1)
      BY <1>3, <2>3
    <3>2. PICK n : n = s[i + 1] /\ n \in 1..m
      BY <1>2, <3>1
    <3>3. r[i] = n /\ q[n] = p[n]
      BY <1>4, <3>1, <3>2
    <3>4. p[n].next = PairAt(s, (i + 1) + 1)
      BY <1>2, <3>1, <3>2
    <3>5. PairAt(r, i + 1) = PairAt(s, (i + 1) + 1)
      BY <1>9, <3>1
    <3> QED BY <3>3, <3>4, <3>5
  <2> QED BY <1>3, <2>1, <2>2, <2>3
<1>13. \A i, j \in 1..l : Past(z, i) = Past(z, j) => i = j
  BY <1>3 DEF Past
<1>14. ASSUME NEW x \in 1..(l + 1), x # z + 1
       PROVE  \E i \in 1..l : Past(z, i) = x
  <2>1. CASE x <= z
    <3>1. x \in 1..l /\ Past(z, x) = x
      BY <1>3, <2>1 DEF Past
    <3> QED BY <3>1
  <2>2. CASE ~(x <= z)
    <3>1. x - 1 \in 1..l /\ Past(z, x - 1) = x
      BY <1>3, <1>14, <2>2 DEF Past
    <3> QED BY <3>1
  <2> QED BY <2>1, <2>2
<1>15. ListOf(q, h1, r)
  BY <1>5, <1>11, <1>12 DEF ListOf
<1>16. \A i \in 1..l : /\ Past(z, i) \in 1..(l + 1) /\ Past(z, i) # z + 1
                       /\ q[r[i]].key = p[s[Past(z, i)]].key /\ q[r[i]].element = p[s[Past(z, i)]].element
  BY <1>4
<1> QED BY <1>1, <1>5, <1>13, <1>14, <1>15, <1>16 DEF Without

LEMMA Removed ==
  ASSUME NEW p, NEW q, NEW m \in Nat, m <= MaxNodes, NEW k \in Keys,
         NEW t, NEW t1, NEW b, NEW h, NEW c, NEW s, BucketIs(p, m, t, b, h, c, s),
         NEW z \in Nat, z + 1 \in 1..Len(s), p[s[z + 1]].key = k, m + z <= MaxNodes,
         TakenOut(p, q, m, s, z), Turns(t, t1, k, None),
         NEW h1, h1 = IF z = 0 THEN p[s[z + 1]].next ELSE m + 1
  PROVE  \E r : BucketIs(q, m + z, t1, b, h1, c - 1, r)
<1>0. /\ \A n \in 1..m : q[n] = p[n]
      /\ \A j \in Keys : t1[j] = IF j = k THEN None ELSE t[j]
      /\ \A n \in 1..m : p[n].key \in Keys
  BY DEF TakenOut, Turns
<1>00. Fits(p, m, t, b, h, c, s)
  BY ListFacts
<1> USE <1>0
<1>1. PICK l \in Nat : l + 1 = Len(s) /\ l + 1 = c
  <2>1. Len(s) \in Nat /\ c = Len(s)
    BY <1>00 DEF Fits
  <2>2. Len(s) - 1 \in Nat /\ (Len(s) - 1) + 1 = Len(s)
    BY <2>1
  <2> QED BY <2>1, <2>2
<1>2. /\ \A i \in 1..(l + 1) : /\ s[i] \in 1..m /\ s[i] \in Nodes /\ p[s[i]].next = PairAt(s, i + 1)
                         /\ Hash[p[s[i]].key] % InitialBuckets = b
                         /\ t[p[s[i]].key] = p[s[i]].element
      /\ \A i, j \in 1..(l + 1) : p[s[i]].key = p[s[j]].key => i = j
  <2>0. /\ \A i \in 1..Len(s) : /\ s[i] \in 1..m /\ s[i] \in Nodes /\ p[s[i]].next = PairAt(s, i + 1)
                                 /\ Hash[p[s[i]].key] % InitialBuckets = b
                                 /\ t[p[s[i]].key] = p[s[i]].element
        /\ \A i, j \in 1..Len(s) : p[s[i]].key = p[s[j]].key => i = j
    BY <1>00 DEF Fits
  <2>1. PICK g : g = Len(s)
    OBVIOUS
  <2>2. /\ \A i \in 1..g : /\ s[i] \in 1..m /\ s[i] \in Nodes /\ p[s[i]].next = PairAt(s, i + 1)
                         /\ Hash[p[s[i]].key] % InitialBuckets = b
                         /\ t[p[s[i]].key] = p[s[i]].element
        /\ \A i, j \in 1..g : p[s[i]].key = p[s[j]].key => i = j
    BY <2>0, <2>1
  <2>3. g = l + 1
    BY <1>1, <2>1
  <2> QED BY <2>2, <2>3
<1>3. PICK r : Without(p, q, m, s, z, h1, r)
  <2>1. s \in Seq(1..m) /\ ListOf(p, h, s)
    BY DEF BucketIs, Walks
  <2> QED BY <2>1, ListWithout
<1>4. Len(r) = l
  <2>1. Len(r) \in Nat /\ Len(r) + 1 = l + 1
    BY <1>1, <1>3 DEF Without
  <2> QED BY <2>1
<1>5. /\ r \in Seq(1..(m + z)) /\ ListOf(q, h1, r)
      /\ \A i \in 1..l : /\ Past(z, i) \in 1..(l + 1) /\ Past(z, i) # z + 1
                         /\ q[r[i]].key = p[s[Past(z, i)]].key /\ q[r[i]].element = p[s[Past(z, i)]].element
      /\ \A i, j \in 1..l : Past(z, i) = Past(z, j) => i = j
      /\ \A x \in 1..(l + 1) : x # z + 1 => \E i \in 1..l : Past(z, i) = x
  BY <1>1, <1>3, <1>4 DEF Without
<1>6. z + 1 \in 1..(l + 1)
  BY <1>1
<1>14. ASSUME NEW i \in 1..l
       PROVE  /\ q[r[i]].key # k /\ q[r[i]].key \in Keys
              /\ Hash[q[r[i]].key] % InitialBuckets = b /\ t1[q[r[i]].key] = q[r[i]].element
  <2>1. PICK x \in 1..(l + 1) : x = Past(z, i) /\ x # z + 1 /\ q[r[i]].key = p[s[x]].key
                                /\ q[r[i]].element = p[s[x]].element
    BY <1>5
  <2>3. p[s[x]].key # k
    BY <1>2, <1>6, <2>1
  <2>4. /\ p[s[x]].key \in Keys /\ Hash[p[s[x]].key] % InitialBuckets = b
        /\ t[p[s[x]].key] = p[s[x]].element
    BY <1>2
  <2> QED BY <2>1, <2>3, <2>4
<1>15. ASSUME NEW i \in 1..l, NEW j \in 1..l, q[r[i]].key = q[r[j]].key
       PROVE  i = j
  <2>1. p[s[Past(z, i)]].key = p[s[Past(z, j)]].key /\ Past(z, i) \in 1..(l + 1) /\ Past(z, j) \in 1..(l + 1)
    BY <1>5, <1>15
  <2>2. Past(z, i) = Past(z, j)
    BY <1>2, <2>1
  <2> QED BY <1>5, <2>2
<1>16. ASSUME NEW j \in Keys, Hash[j] % InitialBuckets = b, t1[j] # None
       PROVE  \E i \in 1..l : q[r[i]].key = j
  <2>1. j # k /\ t[j] # None
    BY <1>16
  <2>2. PICK x \in 1..(l + 1) : p[s[x]].key = j
    BY <1>1, <1>16, <2>1 DEF BucketIs
  <2>3. x # z + 1
    BY <2>1, <2>2
  <2>4. PICK i \in 1..l : Past(z, i) = x
    BY <1>5, <2>3
  <2> QED BY <1>5, <2>2, <2>4
<1>18. Walks(q, m + z, h1, r)
  BY <1>4, <1>5, <1>15 DEF Walks
<1>19. c - 1 = Len(r)
  BY <1>1, <1>4
<1>20. BucketIs(q, m + z, t1, b, h1, c - 1, r)
  BY <1>4, <1>14, <1>16, <1>18, <1>19 DEF BucketIs
<1> QED BY <1>20

\* Far from wrapping around, the counters count.
LEMMA CountedFar ==
  ASSUME NEW x \in Nat
  PROVE  /\ x + 1 < Word => Plus(x) = x + 1
         /\ (x # 0 /\ x < Word) => Minus(x) = x - 1
<1>1. Word \in Nat \ {0}
  BY CMapAssumption
<1>2. x + 1 < Word => Plus(x) = x + 1
  BY <1>1 DEF Plus
<1>3. ASSUME x # 0, x < Word
      PROVE  Minus(x) = x - 1
  <2>1. PICK y \in 0..(Word - 1) : y = x - 1
    BY <1>1, <1>3
  <2>2. (y + Word) % Word = y /\ x + Word - 1 = y + Word
    BY <1>1, <2>1
  <2> QED BY <2>1, <2>2 DEF Minus
<1> QED BY <1>2, <1>3

\* The code's walk of a bucket's list sees that list.
LEMMA LookupIs ==
  ASSUME TypeInv, NEW b \in Buckets, NEW s, BucketIs(pair, made, truth, b, first[b], size[b], s),
         NEW k \in Keys, Hash[k] % InitialBuckets = b
  PROVE  /\ Chain(first[b]) = s
         /\ InChain(first[b], k) <=> truth[k] # None
         /\ InChain(first[b], k) =>
              /\ Position(first[b], k) \in 1..Len(s)
              /\ pair[s[Position(first[b], k)]].key = k
              /\ pair[s[Position(first[b], k)]].element = truth[k]
<1>1. made \in Nat /\ made <= MaxNodes /\ None \notin Nat /\ \A i \in 1..made : pair[i] \in Filled(made)
  BY ListsOfMade DEF TypeInv, MadeNodes
<1>2. /\ Len(s) \in Nat /\ Len(s) <= MaxNodes /\ s \in Seq(1..made)
      /\ \A i \in 1..Len(s) : s[i] \in 1..made /\ truth[pair[s[i]].key] = pair[s[i]].element
  <2>1. PICK p, m, t, h, c : p = pair /\ m = made /\ t = truth /\ h = first[b] /\ c = size[b]
    OBVIOUS
  <2>2. BucketIs(p, m, t, b, h, c, s) /\ m \in Nat /\ m <= MaxNodes
    BY <1>1, <2>1
  <2>3. /\ Len(s) \in Nat /\ Len(s) <= MaxNodes
        /\ \A i \in 1..Len(s) : s[i] \in 1..m /\ t[p[s[i]].key] = p[s[i]].element
    <3>1. Fits(p, m, t, b, h, c, s)
      BY <2>2, ListFacts
    <3> QED BY <3>1 DEF Fits
  <2>4. s \in Seq(1..m)
    BY <2>2 DEF BucketIs, Walks
  <2> QED BY <2>1, <2>3, <2>4
<1>3. Chain(first[b]) = s
  <2>1. PICK p, n : p = pair /\ n = first[b]
    OBVIOUS
  <2>2. ListOf(p, n, s)
    BY <2>1 DEF BucketIs, Walks
  <2>3. ChainOf(p, n) = s
    BY <1>2, <2>2, ChainOfIs
  <2> QED BY <2>1, <2>3, ChainIs
<1>4. DOMAIN s = 1..Len(s)
  BY <1>2, LenProperties
<1>5. \A i \in 1..Len(s) : pair[s[i]].element # None
  BY <1>1, <1>2 DEF Filled, Elements
<1>6. InChain(first[b], k) <=> \E i \in 1..Len(s) : pair[s[i]].key = k
  BY <1>3, <1>4 DEF InChain
<1>7. InChain(first[b], k) => truth[k] # None
  BY <1>2, <1>5, <1>6
<1>8. truth[k] # None => InChain(first[b], k)
  BY <1>6 DEF BucketIs
<1>9. ASSUME InChain(first[b], k)
      PROVE  /\ Position(first[b], k) \in 1..Len(s)
             /\ pair[s[Position(first[b], k)]].key = k
             /\ pair[s[Position(first[b], k)]].element = truth[k]
  <2>1. PICK n, m : n = first[b] /\ m = made
    OBVIOUS
  <2>2. s = Chain(n) /\ s \in Seq(1..m) /\ InChain(n, k)
    BY <1>2, <1>3, <1>9, <2>1
  <2>3. Position(n, k) \in 1..Len(s) /\ pair[s[Position(n, k)]].key = k
    BY <2>2, PositionIs
  <2> QED BY <1>2, <2>1, <2>3
<1> QED BY <1>3, <1>7, <1>8, <1>9

\* What a Put or Delete starts from.
LEMMA Entering ==
  ASSUME TypeInv, MapInv, lock = Free, bucketsLen' = InitialBuckets, bucketsLen' = bucketsLen, NEW k \in Keys
  PROVE  /\ Loaded /\ CountIs /\ ReadsFit
         /\ BucketOf(k) = Hash[k] % InitialBuckets /\ BucketOf(k) \in FirstBuckets
         /\ FirstBuckets \subseteq Buckets
<1>1. BeforeGrowing
  BY DEF BeforeGrowing, TypeInv, Held
<1>2. BucketOf(k) \in FirstBuckets /\ BucketOf(k) = Hash[k] % InitialBuckets
  BY BucketIn DEF FirstBuckets, BucketOf
<1>3. bucketsLen \in 1..MaxBuckets /\ MaxBuckets \in Nat
  BY CMapAssumption DEF TypeInv, TypeOK
<1>4. FirstBuckets \subseteq Buckets
  BY <1>3 DEF FirstBuckets, Buckets
<1> QED BY <1>1, <1>2, <1>4 DEF MapInv

\* A Put or Delete of key k, that makes bucket b what it should be, makes the
\* map what it should be.
LEMMA MapGoesOn ==
  ASSUME TypeInv, Loaded, NEW k \in Keys, NEW e, Becomes(k, e), made' \in Nat, made <= made',
         Keeps(pair, pair', made, k, e), NEW b, b = Hash[k] % InitialBuckets,
         \A d \in FirstBuckets : d # b => first'[d] = first[d] /\ size'[d] = size[d],
         \E s : BucketIs(pair', made', truth', b, first'[b], size'[b], s)
  PROVE  Loaded'
<1>1. made \in Nat /\ truth \in [Keys -> Elements \cup {None}]
      /\ \A n \in 1..made : pair[n].key \in Keys
  BY ListsOfMade DEF TypeInv, TypeOK, MadeNodes, Filled
<1>2. ASSUME NEW d \in FirstBuckets
      PROVE  \E s : BucketIs(pair', made', truth', d, first'[d], size'[d], s)
  <2>1. CASE d # b
    <3>1. PICK s : BucketIs(pair, made, truth, d, first[d], size[d], s)
      BY DEF Loaded
    <3>2. PICK p, q, m, m1, t, t1, h, c :
            /\ p = pair /\ q = pair' /\ m = made /\ m1 = made' /\ t = truth /\ t1 = truth'
            /\ h = first[d] /\ c = size[d]
      OBVIOUS
    <3>3. /\ m \in Nat /\ m1 \in Nat /\ m <= m1 /\ Keeps(p, q, m, k, e)
          /\ \A n \in 1..m : p[n].key \in Keys
          /\ BucketIs(p, m, t, d, h, c, s)
      BY <1>1, <3>1, <3>2
    <3>4. \A j \in Keys : j # k => t1[j] = t[j]
      BY <1>1, <3>2 DEF Becomes
    <3>5. Hash[k] % InitialBuckets # d
      BY <2>1
    <3>6. BucketIs(q, m1, t1, d, h, c, s)
      BY <3>3, <3>4, <3>5, OtherBucket
    <3>7. first'[d] = h /\ size'[d] = c
      BY <2>1, <3>2
    <3> QED BY <3>2, <3>6, <3>7
  <2>2. CASE d = b
    BY <2>2
  <2> QED BY <2>1, <2>2
<1> QED BY <1>2 DEF Loaded, FirstBuckets

\* One key more, or one less.
LEMMA CountGoesOn ==
  ASSUME TypeInv, CountIs, NEW k \in Keys, NEW e, Becomes(k, e), ops' = ops + 1, ops < MaxOps,
         \/ truth[k] = None /\ e # None /\ pairTotal' = Plus(pairTotal)
         \/ truth[k] # None /\ e = None /\ pairTotal' = Minus(pairTotal)
         \/ truth[k] # None /\ e # None /\ pairTotal' = pairTotal
  PROVE  CountIs'
<1> DEFINE S == Present(truth)
<1>1. IsFiniteSet(S) /\ pairTotal = Cardinality(S) /\ pairTotal \in Nat /\ pairTotal <= ops
      /\ ops \in Nat /\ MaxOps \in Nat /\ Word \in Nat /\ MaxOps < Word
  BY CMapAssumption, CMapBounds DEF CountIs, TypeInv, TypeOK
<1>2. \A j \in Keys : truth'[j] = IF j = k THEN e ELSE truth[j]
  BY DEF Becomes, TypeInv, TypeOK
<1>3. CASE truth[k] = None /\ e # None /\ pairTotal' = Plus(pairTotal)
  <2>1. Present(truth)' = S \cup {k} /\ k \notin S
    BY <1>2, <1>3 DEF Present
  <2> HIDE DEF S
  <2>2. IsFiniteSet(Present(truth)') /\ Cardinality(Present(truth)') = pairTotal + 1
    BY <1>1, <2>1, FS_AddElement
  <2>3. pairTotal' = pairTotal + 1
    BY <1>1, <1>3, CountedFar
  <2> QED BY <1>1, <2>2, <2>3 DEF CountIs
<1>4. CASE truth[k] # None /\ e = None /\ pairTotal' = Minus(pairTotal)
  <2>1. Present(truth)' = S \ {k} /\ k \in S
    BY <1>2, <1>4 DEF Present
  <2> HIDE DEF S
  <2>2. IsFiniteSet(Present(truth)') /\ Cardinality(Present(truth)') = pairTotal - 1
    BY <1>1, <2>1, FS_RemoveElement
  <2>3. Cardinality(Present(truth)') \in Nat
    BY <2>2, FS_CardinalityType
  <2>4. pairTotal # 0 /\ pairTotal < Word
    BY <1>1, <2>2, <2>3
  <2>5. pairTotal' = pairTotal - 1
    BY <1>1, <1>4, <2>4, CountedFar
  <2> QED BY <1>1, <2>2, <2>5 DEF CountIs
<1>5. CASE truth[k] # None /\ e # None /\ pairTotal' = pairTotal
  <2>1. Present(truth)' = S
    BY <1>2, <1>5 DEF Present
  <2> QED BY <1>1, <1>5, <2>1 DEF CountIs
<1> QED BY <1>3, <1>4, <1>5

LEMMA PutNewMaps ==
  ASSUME TypeInv, MapInv, NEW w \in Writers, NEW k \in Keys, PutNew(w, k)
  PROVE  MapInv'
<1> SUFFICES ASSUME BeforeGrowing'
             PROVE  Loaded' /\ CountIs' /\ ReadsFit'
  BY DEF MapInv
<1>0. PICK b : b = BucketOf(k)
  OBVIOUS
<1>1. /\ lock = Free /\ ops < MaxOps /\ ops' = ops + 1
      /\ made < MaxNodes /\ made' = made + 1 /\ ~InChain(first[b], k)
      /\ pair' = [pair EXCEPT ![made + 1] =
                    [key |-> k, element |-> ops + 1, next |-> first[b]]]
      /\ first' = [first EXCEPT ![b] = made + 1]
      /\ size' = [size EXCEPT ![b] = Plus(size[b])]
      /\ pairTotal' = Plus(pairTotal)
      /\ Becomes(k, ops + 1)
      /\ bucketsLen' = bucketsLen /\ reader' = reader
  BY <1>0 DEF PutNew, Enter
<1>2. /\ Loaded /\ CountIs /\ ReadsFit /\ b = Hash[k] % InitialBuckets /\ b \in FirstBuckets
      /\ b \in Buckets /\ FirstBuckets \subseteq Buckets
  BY <1>0, <1>1, Entering DEF BeforeGrowing
<1>3. /\ made \in Nat /\ MaxNodes \in Nat /\ None \notin Nat /\ 1..made \subseteq Nodes
      /\ pair \in [Nodes -> Pair] /\ first \in [Buckets -> Nodes \cup {None}]
      /\ size \in [Buckets -> 0..(Word - 1)] /\ truth \in [Keys -> Elements \cup {None}]
      /\ \A n \in 1..made : pair[n] \in Filled(made)
  BY ListsOfMade DEF TypeInv, TypeOK, MadeNodes
<1>4. made + 1 \in Nodes /\ made + 1 \notin 1..made /\ made + 1 \in Nat /\ made <= made + 1
  BY <1>1, <1>3 DEF Nodes
<1>5. PICK e : e = ops + 1 /\ e # None
  <2>1. ops \in Nat
    BY CMapAssumption DEF TypeInv, TypeOK
  <2>2. ops + 1 # None
    BY <1>3, <2>1
  <2> QED BY <2>2
<1>6. \A n \in 1..made : pair'[n] = pair[n] /\ pair[n].element # None /\ pair[n].key \in Keys
  <2> TAKE n \in 1..made
  <2>1. n \in Nodes /\ n # made + 1
    BY <1>3, <1>4
  <2>2. pair[n].element \in Elements /\ pair[n].key \in Keys
    BY <1>3 DEF Filled
  <2> QED BY <1>1, <1>3, <2>1, <2>2 DEF Elements
<1>7. Keeps(pair, pair', made, k, e)
  <2>1. PICK p, q : p = pair /\ q = pair'
    OBVIOUS
  <2>2. \A n \in 1..made : q[n] = p[n]
    BY <1>6, <2>1
  <2>3. Keeps(p, q, made, k, e)
    BY <2>2 DEF Keeps
  <2> QED BY <2>1, <2>3
<1>8. PICK s : BucketIs(pair, made, truth, b, first[b], size[b], s)
  BY <1>2 DEF Loaded
<1>9. truth[k] = None
  BY <1>1, <1>2, <1>8, LookupIs
<1>10. \E r : BucketIs(pair', made', truth', b, first'[b], size'[b], r)
  <2>1. PICK p, q, m, t, t1, h, c :
          /\ p = pair /\ q = pair' /\ m = made /\ t = truth /\ t1 = truth'
          /\ h = first[b] /\ c = size[b]
    OBVIOUS
  <2>2. /\ m \in Nat /\ m + 1 \in Nodes /\ BucketIs(p, m, t, b, h, c, s) /\ t[k] = None
        /\ \A n \in 1..m : q[n] = p[n] /\ p[n].element # None /\ p[n].key \in Keys
    BY <1>3, <1>4, <1>6, <1>8, <1>9, <2>1
  <2>3. HeadPut(p, q, m, k, e, h)
    <3>1. q[m + 1] = [key |-> k, element |-> e, next |-> h]
      BY <1>1, <1>3, <1>4, <1>5, <2>1
    <3> QED BY <2>2, <3>1 DEF HeadPut
  <2>4. Turns(t, t1, k, e)
    BY <1>1, <1>3, <1>5, <2>1 DEF Becomes, Turns
  <2>5. PICK r : BucketIs(q, m + 1, t1, b, m + 1, c + 1, r)
    <3>1. Hash[k] % InitialBuckets = b /\ e # None
      BY <1>2, <1>5
    <3>2. \E r : BucketIs(q, m + 1, t1, b, m + 1, c + 1, r)
      BY <2>2, <2>3, <2>4, <3>1, NewHead
    <3> QED BY <3>2
  <2>6. PICK h1, c1, m1 : h1 = m + 1 /\ c1 = c + 1 /\ m1 = m + 1
    OBVIOUS
  <2>7. c1 <= MaxNodes /\ c1 = Len(r)
    <3>1. m1 \in Nat /\ m1 <= MaxNodes
      BY <1>1, <1>4, <2>1, <2>6, NodesAre DEF Nodes
    <3>2. BucketIs(q, m1, t1, b, h1, c1, r)
      BY <2>5, <2>6
    <3>3. Fits(q, m1, t1, b, h1, c1, r)
      BY <3>1, <3>2, ListFacts
    <3> QED BY <3>3 DEF Fits
  <2>8. c \in Nat /\ c + 1 < Word
    <3>1. c \in Nat
      BY <1>2, <1>3, <2>1, CMapAssumption
    <3> QED BY <1>3, <2>6, <2>7, <3>1, CMapBounds, CMapAssumption
  <2>9. Plus(c) = c + 1
    BY <2>8, CountedFar
  <2>10. first'[b] = m + 1 /\ size'[b] = c + 1 /\ made' = m + 1
    BY <1>1, <1>2, <1>3, <2>1, <2>9
  <2> QED BY <2>1, <2>5, <2>10
<1>11. \A d \in FirstBuckets : d # b => first'[d] = first[d] /\ size'[d] = size[d]
  BY <1>1, <1>2, <1>3
<1>12. Becomes(k, e) /\ made' \in Nat /\ made <= made'
  BY <1>1, <1>4, <1>5
<1>13. Loaded'
  BY <1>2, <1>7, <1>10, <1>11, <1>12, MapGoesOn
<1>14. CountIs'
  BY <1>1, <1>2, <1>5, <1>9, <1>12, CountGoesOn
<1>15. ReadsFit'
  BY <1>1, <1>2, <1>7, <1>12, ReadsGoOn
<1> QED BY <1>13, <1>14, <1>15

LEMMA PutReplaceMaps ==
  ASSUME TypeInv, MapInv, NEW w \in Writers, NEW k \in Keys, PutReplace(w, k)
  PROVE  MapInv'
<1> SUFFICES ASSUME BeforeGrowing'
             PROVE  Loaded' /\ CountIs' /\ ReadsFit'
  BY DEF MapInv
<1>0. PICK b : b = BucketOf(k)
  OBVIOUS
<1> DEFINE target == Chain(first[b])[Position(first[b], k)]
<1>1. /\ lock = Free /\ ops < MaxOps /\ ops' = ops + 1 /\ InChain(first[b], k)
      /\ pair' = [pair EXCEPT ![target].element = ops + 1]
      /\ Becomes(k, ops + 1)
      /\ UNCHANGED <<made, first, size, bucketsLen, pairTotal, reader>>
  BY <1>0 DEF PutReplace, Enter
<1>2. /\ Loaded /\ CountIs /\ ReadsFit /\ b = Hash[k] % InitialBuckets /\ b \in FirstBuckets
      /\ b \in Buckets /\ FirstBuckets \subseteq Buckets
  BY <1>0, <1>1, Entering DEF BeforeGrowing
<1>3. PICK s : BucketIs(pair, made, truth, b, first[b], size[b], s)
  BY <1>2 DEF Loaded
<1>4. PICK z \in 1..Len(s) : target = s[z] /\ pair[s[z]].key = k /\ truth[k] # None
  <2>1. /\ Chain(first[b]) = s /\ truth[k] # None
        /\ Position(first[b], k) \in 1..Len(s) /\ pair[s[Position(first[b], k)]].key = k
    <3>1. Hash[k] % InitialBuckets = b /\ b \in Buckets
      BY <1>2
    <3>2. /\ Chain(first[b]) = s
          /\ InChain(first[b], k) <=> truth[k] # None
          /\ InChain(first[b], k) =>
               /\ Position(first[b], k) \in 1..Len(s)
               /\ pair[s[Position(first[b], k)]].key = k
               /\ pair[s[Position(first[b], k)]].element = truth[k]
      BY <1>3, <3>1, LookupIs
    <3> QED BY <1>1, <3>2
  <2> QED BY <2>1
<1> HIDE DEF target
<1>5. /\ made \in Nat /\ made <= MaxNodes /\ MaxNodes \in Nat /\ None \notin Nat /\ 1..made \subseteq Nodes
      /\ pair \in [Nodes -> Pair] /\ truth \in [Keys -> Elements \cup {None}]
      /\ \A n \in 1..made : pair[n] \in Filled(made)
  BY ListsOfMade DEF TypeInv, TypeOK, MadeNodes
<1>6. PICK e : e = ops + 1 /\ e # None
  <2>1. ops \in Nat
    BY CMapAssumption DEF TypeInv, TypeOK
  <2>2. ops + 1 # None
    BY <1>5, <2>1
  <2> QED BY <2>2
<1>7. target \in 1..made
  <2>1. s \in Seq(1..made)
    BY <1>3 DEF BucketIs, Walks
  <2> QED BY <1>4, <2>1, ElementOfSeq
<1>8. \A n \in 1..made : pair[n].key \in Keys /\ pair[n] = [key |-> pair[n].key, element |-> pair[n].element, next |-> pair[n].next]
  BY <1>5 DEF Filled
<1>9. /\ \A n \in 1..made : pair'[n].key = pair[n].key /\ pair'[n].next = pair[n].next
      /\ \A n \in 1..made : n # target => pair'[n].element = pair[n].element
      /\ pair'[target].element = e
  <2>1. pair' = [pair EXCEPT ![target] = [pair[target] EXCEPT !.element = e]] /\ target \in Nodes
    BY <1>1, <1>5, <1>6, <1>7
  <2>2. pair'[target] = [pair[target] EXCEPT !.element = e]
    BY <1>5, <2>1
  <2>3. /\ pair'[target].key = pair[target].key /\ pair'[target].next = pair[target].next
        /\ pair'[target].element = e
    BY <1>7, <1>8, <2>2
  <2>4. \A n \in 1..made : n # target => pair'[n] = pair[n]
    BY <1>5, <2>1
  <2> QED BY <2>3, <2>4
<1>10. Keeps(pair, pair', made, k, e)
  <2>1. PICK p, q, n : p = pair /\ q = pair' /\ n = target
    OBVIOUS
  <2>2. /\ \A i \in 1..made : q[i].key = p[i].key /\ q[i].next = p[i].next
        /\ \A i \in 1..made : i # n => q[i].element = p[i].element
        /\ q[n].element = e /\ p[n].key = k
    BY <1>4, <1>9, <2>1
  <2>3. Keeps(p, q, made, k, e)
    BY <2>2 DEF Keeps
  <2> QED BY <2>1, <2>3
<1>11. \E r : BucketIs(pair', made', truth', b, first'[b], size'[b], r)
  <2>1. PICK p, q, m, t, t1, h, c :
          /\ p = pair /\ q = pair' /\ m = made /\ t = truth /\ t1 = truth'
          /\ h = first[b] /\ c = size[b]
    OBVIOUS
  <2>2. m \in Nat /\ m <= MaxNodes /\ BucketIs(p, m, t, b, h, c, s)
    BY <1>3, <1>5, <2>1
  <2>3. ElementPut(p, q, m, s[z], k, e) /\ Turns(t, t1, k, e)
    <3>1. Turns(t, t1, k, e)
      BY <1>1, <1>5, <1>6, <2>1 DEF Becomes, Turns
    <3>2. ElementPut(p, q, m, s[z], k, e)
      BY <1>4, <1>8, <1>9, <2>1 DEF ElementPut
    <3> QED BY <3>1, <3>2
  <2>4. BucketIs(q, m, t1, b, h, c, s)
    BY <2>2, <2>3, NewElement
  <2> QED BY <1>1, <2>1, <2>4
<1>12. \A d \in FirstBuckets : d # b => first'[d] = first[d] /\ size'[d] = size[d]
  BY <1>1
<1>13. Becomes(k, e) /\ made' \in Nat /\ made <= made'
  BY <1>1, <1>5, <1>6
<1>14. Loaded'
  BY <1>2, <1>10, <1>11, <1>12, <1>13, MapGoesOn
<1>15. CountIs'
  BY <1>1, <1>2, <1>4, <1>6, <1>13, CountGoesOn
<1>16. ReadsFit'
  BY <1>1, <1>2, <1>10, <1>13, ReadsGoOn
<1> QED BY <1>14, <1>15, <1>16

LEMMA DeleteMaps ==
  ASSUME TypeInv, MapInv, NEW w \in Writers, NEW k \in Keys, Delete(w, k)
  PROVE  MapInv'
<1> SUFFICES ASSUME BeforeGrowing'
             PROVE  Loaded' /\ CountIs' /\ ReadsFit'
  BY DEF MapInv
<1>0. PICK b : b = BucketOf(k)
  OBVIOUS
<1> DEFINE chain == Chain(first[b])
           z == Position(first[b], k) - 1
           rest == pair[chain[z + 1]].next
           copy(i) == [pair[chain[i]] EXCEPT !.next = IF i = z THEN rest ELSE made + i + 1]
<1>1. /\ lock = Free /\ ops < MaxOps /\ ops' = ops + 1 /\ InChain(first[b], k)
      /\ made + z <= MaxNodes /\ made' = made + z
      /\ pair' = [n \in Nodes |-> IF n \in (made + 1)..(made + z)
                                  THEN copy(n - made) ELSE pair[n]]
      /\ first' = [first EXCEPT ![b] = IF z = 0 THEN rest ELSE made + 1]
      /\ size' = [size EXCEPT ![b] = Minus(size[b])]
      /\ pairTotal' = Minus(pairTotal)
      /\ Becomes(k, None)
      /\ bucketsLen' = bucketsLen /\ reader' = reader
  BY <1>0 DEF Delete, Enter
<1>2. /\ Loaded /\ CountIs /\ ReadsFit /\ b = Hash[k] % InitialBuckets /\ b \in FirstBuckets
      /\ b \in Buckets /\ FirstBuckets \subseteq Buckets
  BY <1>0, <1>1, Entering DEF BeforeGrowing
<1>3. PICK s : BucketIs(pair, made, truth, b, first[b], size[b], s)
  BY <1>2 DEF Loaded
<1>4. /\ chain = s /\ truth[k] # None /\ s \in Seq(1..made) /\ Len(s) \in Nat
      /\ \A i \in 1..Len(s) : s[i] \in 1..made
      /\ z \in Nat /\ z + 1 \in 1..Len(s) /\ pair[s[z + 1]].key = k
  <2>1. /\ Chain(first[b]) = s /\ truth[k] # None
        /\ Position(first[b], k) \in 1..Len(s) /\ pair[s[Position(first[b], k)]].key = k
    <3>1. Hash[k] % InitialBuckets = b /\ b \in Buckets
      BY <1>2
    <3>2. /\ Chain(first[b]) = s
          /\ InChain(first[b], k) <=> truth[k] # None
          /\ InChain(first[b], k) =>
               /\ Position(first[b], k) \in 1..Len(s)
               /\ pair[s[Position(first[b], k)]].key = k
               /\ pair[s[Position(first[b], k)]].element = truth[k]
      BY <1>3, <3>1, LookupIs
    <3> QED BY <1>1, <3>2
  <2>2. s \in Seq(1..made)
    BY <1>3 DEF BucketIs, Walks
  <2>3. Len(s) \in Nat /\ \A i \in 1..Len(s) : s[i] \in 1..made
    BY <2>2, LenProperties, ElementOfSeq
  <2>4. PICK y \in 1..Len(s) : y = Position(first[b], k)
    BY <2>1
  <2>5. y - 1 \in Nat /\ (y - 1) + 1 = y
    BY <2>3
  <2> QED BY <2>1, <2>2, <2>3, <2>4, <2>5
<1> HIDE DEF z, chain
<1>5. /\ made \in Nat /\ made <= MaxNodes /\ MaxNodes \in Nat /\ None \notin Nat /\ 1..made \subseteq Nodes
      /\ pair \in [Nodes -> Pair] /\ first \in [Buckets -> Nodes \cup {None}]
      /\ size \in [Buckets -> 0..(Word - 1)] /\ truth \in [Keys -> Elements \cup {None}]
      /\ \A n \in 1..made : pair[n] \in Filled(made)
  BY ListsOfMade DEF TypeInv, TypeOK, MadeNodes
<1>6. \A n \in 1..made : pair'[n] = pair[n] /\ pair[n].key \in Keys
  <2> TAKE n \in 1..made
  <2>1. n \in Nodes /\ n \notin (made + 1)..(made + z)
    BY <1>5
  <2>2. pair[n].key \in Keys
    BY <1>5 DEF Filled
  <2> HIDE DEF copy
  <2> QED BY <1>1, <2>1, <2>2
<1>7. \A i \in 1..z : /\ pair'[made + i].key = pair[s[i]].key
                      /\ pair'[made + i].element = pair[s[i]].element
                      /\ pair'[made + i].next = IF i = z THEN pair[s[z + 1]].next ELSE made + i + 1
  <2> TAKE i \in 1..z
  <2>1. /\ made + i \in (made + 1)..(made + z) /\ made + i \in Nodes /\ (made + i) - made = i
        /\ i \in 1..Len(s)
    BY <1>1, <1>4, <1>5 DEF Nodes
  <2>2. pair'[made + i] = copy(i)
    <3> HIDE DEF copy
    <3> QED BY <1>1, <2>1
  <2>3. pair[s[i]] \in Filled(made)
    BY <1>4, <1>5, <2>1
  <2>4. copy(i) = [pair[s[i]] EXCEPT !.next = IF i = z THEN pair[s[z + 1]].next ELSE made + i + 1]
    BY <1>4
  <2> HIDE DEF copy
  <2>5. PICK x : x = IF i = z THEN pair[s[z + 1]].next ELSE made + i + 1
    OBVIOUS
  <2>6. pair'[made + i] = [pair[s[i]] EXCEPT !.next = x]
    BY <2>2, <2>4, <2>5
  <2>7. /\ pair'[made + i].key = pair[s[i]].key /\ pair'[made + i].element = pair[s[i]].element
        /\ pair'[made + i].next = x
    BY <2>3, <2>6 DEF Filled
  <2> QED BY <2>5, <2>7
<1>8. Keeps(pair, pair', made, k, None)
  <2>1. PICK p, q : p = pair /\ q = pair'
    OBVIOUS
  <2>2. \A n \in 1..made : q[n] = p[n]
    BY <1>6, <2>1
  <2>3. Keeps(p, q, made, k, None)
    BY <2>2 DEF Keeps
  <2> QED BY <2>1, <2>3
<1>9. \E r : BucketIs(pair', made', truth', b, first'[b], size'[b], r)
  <2>1. PICK p, q, m, t, t1, h, c :
          /\ p = pair /\ q = pair' /\ m = made /\ t = truth /\ t1 = truth'
          /\ h = first[b] /\ c = size[b]
    OBVIOUS
  <2>2. /\ m \in Nat /\ m <= MaxNodes /\ BucketIs(p, m, t, b, h, c, s) /\ m + z <= MaxNodes
        /\ p[s[z + 1]].key = k
    BY <1>1, <1>3, <1>4, <1>5, <2>1
  <2>3. TakenOut(p, q, m, s, z) /\ Turns(t, t1, k, None)
    <3>1. Turns(t, t1, k, None)
      BY <1>1, <1>5, <2>1 DEF Becomes, Turns
    <3>2. TakenOut(p, q, m, s, z)
      BY <1>6, <1>7, <2>1 DEF TakenOut
    <3> QED BY <3>1, <3>2
  <2>0. PICK h1 : h1 = IF z = 0 THEN p[s[z + 1]].next ELSE m + 1
    OBVIOUS
  <2>4. PICK r : BucketIs(q, m + z, t1, b, h1, c - 1, r)
    <3>1. z \in Nat /\ z + 1 \in 1..Len(s)
      BY <1>4
    <3>2. \E r : BucketIs(q, m + z, t1, b, h1, c - 1, r)
      BY <2>0, <2>2, <2>3, <3>1, Removed
    <3> QED BY <3>2
  <2>5. c = Len(s)
    BY <2>2 DEF BucketIs
  <2>6. c \in Nat /\ c # 0 /\ c < Word
    <3>1. c \in 0..(Word - 1) /\ Word \in Nat
      BY <1>2, <1>5, <2>1, CMapAssumption
    <3> QED BY <1>4, <2>5, <3>1
  <2>7. Minus(c) = c - 1
    BY <2>6, CountedFar
  <2>8. size'[b] = c - 1 /\ made' = m + z
    BY <1>1, <1>2, <1>5, <2>1, <2>7
  <2>9. first'[b] = h1
    BY <1>1, <1>2, <1>4, <1>5, <2>0, <2>1
  <2> QED BY <2>1, <2>4, <2>8, <2>9
<1>10. \A d \in FirstBuckets : d # b => first'[d] = first[d] /\ size'[d] = size[d]
  BY <1>1, <1>2, <1>5
<1>11. made' \in Nat /\ made <= made'
  BY <1>1, <1>4, <1>5
<1>12. Loaded'
  BY <1>1, <1>2, <1>8, <1>9, <1>10, <1>11, MapGoesOn
<1>13. CountIs'
  BY <1>1, <1>2, <1>4, CountGoesOn
<1>14. ReadsFit'
  BY <1>1, <1>2, <1>8, <1>11, ReadsGoOn
<1> QED BY <1>12, <1>13, <1>14

\* A walk is at an end, or at the first pair of its list,
LEMMA WalkStands ==
  ASSUME NEW p, NEW m \in Nat, NEW h, NEW s, Walks(p, m, h, s)
  PROVE  /\ Len(s) \in Nat /\ \A i \in 1..Len(s) : s[i] \in 1..m
         /\ h = None <=> Len(s) = 0
         /\ h # None => 1 \in 1..Len(s) /\ s[1] = h
<1>1. s \in Seq(1..m) /\ h = PairAt(s, 1)
  BY DEF Walks, ListOf
<1>2. Len(s) \in Nat /\ (\A i \in 1..Len(s) : s[i] \in 1..m) /\ None \notin Nat
  BY <1>1, LenProperties, ElementOfSeq, CMapAssumption
<1>3. 1 \in 1..Len(s) => s[1] # None
  BY <1>2
<1>4. 1 \in 1..Len(s) <=> Len(s) # 0
  BY <1>2
<1> QED BY <1>1, <1>2, <1>3, <1>4 DEF PairAt

\* and goes on with the rest of it.
LEMMA WalkGoesOn ==
  ASSUME NEW p, NEW m \in Nat, NEW h, h # None, NEW s, Walks(p, m, h, s)
  PROVE  \E r : Walks(p, m, p[h].next, r) /\ Len(r) = Len(s) - 1
                /\ \A i \in 1..Len(r) : r[i] = s[i + 1]
<1>1. PICK l \in Nat : l + 1 = Len(s)
  <2>1. Len(s) \in Nat /\ Len(s) # 0
    BY WalkStands
  <2>2. Len(s) - 1 \in Nat /\ (Len(s) - 1) + 1 = Len(s)
    BY <2>1
  <2> QED BY <2>2
<1>2. /\ s[1] = h /\ s \in Seq(Nodes) /\ s \in Seq(1..m)
      /\ \A i \in 1..(l + 1) : p[s[i]].next = PairAt(s, i + 1)
      /\ \A i, j \in 1..(l + 1) : p[s[i]].key = p[s[j]].key => i = j
  BY <1>1, WalkStands DEF Walks, ListOf
<1>3. \A i \in 1..(l + 1) : s[i] \in Nodes /\ s[i] \in 1..m
  BY <1>1, <1>2, ElementOfSeq
<1> DEFINE r == [i \in 1..l |-> s[i + 1]]
<1>4. \A i \in 1..l : r[i] = s[i + 1] /\ i + 1 \in 1..(l + 1)
  OBVIOUS
<1>5. r \in Seq(Nodes) /\ r \in Seq(1..m) /\ Len(r) = l
  <2>1. r \in [1..l -> Nodes] /\ r \in [1..l -> 1..m] /\ DOMAIN r = 1..l
    BY <1>3, <1>4
  <2> HIDE DEF r
  <2> QED BY <2>1, SeqDef, LenProperties
<1> HIDE DEF r
<1>6. \A i \in 1..(l + 1) : PairAt(r, i) = PairAt(s, i + 1)
  <2> TAKE i \in 1..(l + 1)
  <2>1. i \in 1..l <=> i + 1 \in 1..(l + 1)
    OBVIOUS
  <2> QED BY <1>1, <1>4, <1>5, <2>1 DEF PairAt
<1>7. p[h].next = PairAt(r, 1)
  <2>1. 1 \in 1..(l + 1)
    OBVIOUS
  <2>2. p[s[1]].next = PairAt(s, 1 + 1) /\ PairAt(r, 1) = PairAt(s, 1 + 1)
    BY <1>2, <1>6, <2>1
  <2> QED BY <1>2, <2>2
<1>8. ASSUME NEW i \in 1..l
      PROVE  p[r[i]].next = PairAt(r, i + 1)
  <2>1. i + 1 \in 1..(l + 1)
    OBVIOUS
  <2>2. p[s[i + 1]].next = PairAt(s, (i + 1) + 1) /\ PairAt(r, i + 1) = PairAt(s, (i + 1) + 1)
    BY <1>2, <1>6, <2>1
  <2> QED BY <1>4, <2>2
<1>9. ASSUME NEW i \in 1..l, NEW j \in 1..l, p[r[i]].key = p[r[j]].key
      PROVE  i = j
  <2>1. i + 1 \in 1..(l + 1) /\ j + 1 \in 1..(l + 1) /\ p[s[i + 1]].key = p[s[j + 1]].key
    BY <1>4, <1>9
  <2>2. i + 1 = j + 1
    BY <1>2, <2>1
  <2> QED BY <2>2
<1>10. Walks(p, m, p[h].next, r)
  <2>1. ListOf(p, p[h].next, r)
    BY <1>5, <1>7, <1>8 DEF ListOf
  <2> QED BY <1>5, <1>9, <2>1 DEF Walks
<1>11. Len(r) = Len(s) - 1
  BY <1>1, <1>5
<1> QED BY <1>4, <1>5, <1>10, <1>11

\* A reader that has stepped may return what it may.
LEMMA Stepped ==
  ASSUME TypeInv, ReadsFit, NEW r \in Readers, NEW x, NEW a,
         reader' = [reader EXCEPT ![r] = x], allowed' = [allowed EXCEPT ![r] = a],
         UNCHANGED writerVars, ReaderSees(pair, made, truth, x, a)
  PROVE  ReadsFit'
<1>1. DOMAIN reader = Readers /\ DOMAIN allowed = Readers
  BY DEF TypeInv, TypeOK
<1>2. pair' = pair /\ made' = made /\ truth' = truth
  BY DEF writerVars
<1>3. ASSUME NEW o \in Readers
      PROVE  ReaderSees(pair, made, truth, reader'[o], allowed'[o])
  <2>1. CASE o = r
    BY <1>1, <2>1
  <2>2. CASE o # r
    <3>1. reader'[o] = reader[o] /\ allowed'[o] = allowed[o]
      BY <1>1, <2>2
    <3> QED BY <3>1 DEF ReadsFit
  <2> QED BY <2>1, <2>2
<1>4. PICK p, m, t : p = pair /\ m = made /\ t = truth
  OBVIOUS
<1>5. \A o \in Readers : ReaderSees(p, m, t, reader'[o], allowed'[o])
  BY <1>3, <1>4
<1>6. p = pair' /\ m = made' /\ t = truth'
  BY <1>2, <1>4
<1>7. \A o \in Readers : ReaderSees(pair', made', truth', reader'[o], allowed'[o])
  BY <1>5, <1>6
<1> QED BY <1>7 DEF ReadsFit

\* Arriving at n, from where the walk may return what is allowed.
LEMMA Arrives ==
  ASSUME TypeInv, Loaded, ReadsFit, NEW r \in Readers, reader[r].at \in {"first", "walk"}, NEW n, Arrive(r, n),
         UNCHANGED <<writerVars, allowed>>, NEW s, Walks(pair, made, n, s),
         \A i \in 1..Len(s) : pair[s[i]].key = reader[r].key => pair[s[i]].element \in allowed[r],
         (\A i \in 1..Len(s) : pair[s[i]].key # reader[r].key) => None \in allowed[r]
  PROVE  ReadsFit'
<1>1. reader[r] \in ReaderOf(made) /\ DOMAIN reader = Readers /\ allowed \in [Readers -> SUBSET (Elements \cup {None})]
      /\ made \in Nat
  BY ListsOfMade DEF TypeInv, TypeOK, MadeNodes
<1> DEFINE x == [reader[r] EXCEPT !.node = n, !.at = IF n = None THEN "done" ELSE "walk"]
<1>2. reader' = [reader EXCEPT ![r] = x] /\ allowed' = [allowed EXCEPT ![r] = allowed[r]]
  BY <1>1 DEF Arrive
<1>3. x.key = reader[r].key /\ x.node = n /\ x.result = None /\ x.at = (IF n = None THEN "done" ELSE "walk")
  BY <1>1 DEF ReaderOf
<1>4. reader[r].key \in Keys /\ truth[reader[r].key] \in allowed[r]
  BY DEF ReadsFit, ReaderSees
<1> HIDE DEF x
<1>5. n = None => None \in allowed[r]
  <2> SUFFICES ASSUME n = None
               PROVE  None \in allowed[r]
    OBVIOUS
  <2>1. Len(s) = 0
    BY <1>1, WalkStands
  <2>2. \A i \in 1..Len(s) : FALSE
    BY <2>1
  <2> QED BY <2>2
<1>6. Expects(pair, made, reader[r].key, n, allowed[r])
  BY DEF Expects
<1>7. ReaderSees(pair, made, truth, x, allowed[r])
  BY <1>3, <1>4, <1>5, <1>6 DEF ReaderSees
<1>8. UNCHANGED writerVars
  OBVIOUS
<1>9. PICK y, a : y = x /\ a = allowed[r]
  OBVIOUS
<1>10. reader' = [reader EXCEPT ![r] = y] /\ allowed' = [allowed EXCEPT ![r] = a]
       /\ ReaderSees(pair, made, truth, y, a)
  BY <1>2, <1>7, <1>9
<1> QED BY <1>8, <1>10, Stepped

\* While nothing is redistributed a reader's bucket is what its key has.
LEMMA GetFirstFits ==
  ASSUME TypeInv, Loaded, ReadsFit, NEW r \in Readers, GetFirst(r), bucketsLen = InitialBuckets
  PROVE  ReadsFit'
<1>1. PICK b, k, n : b = reader[r].bucket /\ k = reader[r].key /\ n = first[reader[r].bucket]
  OBVIOUS
<1>2. reader[r].at = "first" /\ Arrive(r, n) /\ UNCHANGED <<writerVars, allowed>>
  BY <1>1 DEF GetFirst
<1>3. k \in Keys /\ b = Hash[k] % InitialBuckets /\ truth[k] \in allowed[r]
  BY <1>1, <1>2 DEF ReadsFit, ReaderSees
<1>4. b \in FirstBuckets
  <2>1. BucketOf(k) = b /\ BucketOf(k) \in 0..(bucketsLen - 1)
    BY <1>3, BucketIn DEF BucketOf
  <2> QED BY <2>1 DEF FirstBuckets
<1>5. PICK s : BucketIs(pair, made, truth, b, first[b], size[b], s)
  BY <1>4 DEF Loaded
<1>6. Walks(pair, made, n, s)
  BY <1>1, <1>5 DEF BucketIs
<1>7. \A i \in 1..Len(s) : pair[s[i]].key = k => pair[s[i]].element \in allowed[r]
  <2>1. \A i \in 1..Len(s) : truth[pair[s[i]].key] = pair[s[i]].element
    BY <1>5 DEF BucketIs
  <2> QED BY <1>3, <2>1
<1>8. (\A i \in 1..Len(s) : pair[s[i]].key # k) => None \in allowed[r]
  <2>1. truth[k] # None => \E i \in 1..Len(s) : pair[s[i]].key = k
    BY <1>3, <1>5 DEF BucketIs
  <2> QED BY <1>3, <2>1
<1>9. reader[r].at \in {"first", "walk"}
  BY <1>2
<1> QED BY <1>1, <1>2, <1>6, <1>7, <1>8, <1>9, Arrives

LEMMA GetWalkFits ==
  ASSUME TypeInv, Loaded, ReadsFit, NEW r \in Readers, GetWalk(r)
  PROVE  ReadsFit'
<1>1. PICK n, k, a : n = reader[r].node /\ k = reader[r].key /\ a = allowed[r]
  OBVIOUS
<1>2. reader[r].at = "walk" /\ UNCHANGED <<writerVars, allowed>>
  BY DEF GetWalk
<1>3. reader[r] \in ReaderOf(made) /\ DOMAIN reader = Readers /\ made \in Nat /\ None \notin Nat
      /\ allowed \in [Readers -> SUBSET (Elements \cup {None})]
  BY ListsOfMade DEF TypeInv, TypeOK, MadeNodes
<1>4. k \in Keys /\ truth[k] \in a /\ Expects(pair, made, k, n, a) /\ n # None
  BY <1>1, <1>2, <1>3 DEF ReadsFit, ReaderSees, ReaderOf
<1>5. PICK s : /\ Walks(pair, made, n, s)
               /\ \A i \in 1..Len(s) : pair[s[i]].key = k => pair[s[i]].element \in a
               /\ (\A i \in 1..Len(s) : pair[s[i]].key # k) => None \in a
  BY <1>4 DEF Expects
<1>6. Len(s) \in Nat /\ 1 \in 1..Len(s) /\ s[1] = n
  BY <1>3, <1>4, <1>5, WalkStands
<1>7. CASE pair[n].key = k
  <2> DEFINE x == [reader[r] EXCEPT !.at = "element"]
  <2>1. reader' = [reader EXCEPT ![r] = x] /\ allowed' = [allowed EXCEPT ![r] = allowed[r]]
    BY <1>1, <1>3, <1>7 DEF GetWalk
  <2>2. x.key = k /\ x.node = n /\ x.at = "element"
    BY <1>1, <1>3 DEF ReaderOf
  <2> HIDE DEF x
  <2>3. ReaderSees(pair, made, truth, x, a)
    <3>1. pair[n].element \in a
      BY <1>5, <1>6, <1>7
    <3> QED BY <1>4, <1>7, <2>2, <3>1 DEF ReaderSees
  <2>4. PICK y : y = x
    OBVIOUS
  <2>5. reader' = [reader EXCEPT ![r] = y] /\ allowed' = [allowed EXCEPT ![r] = a]
        /\ ReaderSees(pair, made, truth, y, a) /\ UNCHANGED writerVars
    BY <1>1, <1>2, <2>1, <2>3, <2>4
  <2> QED BY <2>5, Stepped
<1>8. CASE pair[n].key # k
  <2>1. PICK c : c = pair[n].next
    OBVIOUS
  <2>2. Arrive(r, c)
    BY <1>1, <1>8, <2>1 DEF GetWalk
  <2>3. PICK t : Walks(pair, made, c, t) /\ Len(t) = Len(s) - 1 /\ \A i \in 1..Len(t) : t[i] = s[i + 1]
    <3>1. PICK p, m : p = pair /\ m = made
      OBVIOUS
    <3>2. Walks(p, m, n, s) /\ m \in Nat
      BY <1>3, <1>5, <3>1
    <3>3. \E t : Walks(p, m, p[n].next, t) /\ Len(t) = Len(s) - 1
                 /\ \A i \in 1..Len(t) : t[i] = s[i + 1]
      BY <1>4, <3>2, WalkGoesOn
    <3> QED BY <2>1, <3>1, <3>3
  <2>4. \A i \in 1..Len(t) : t[i] = s[i + 1] /\ i + 1 \in 1..Len(s)
    BY <1>6, <2>3
  <2>5. \A i \in 1..Len(t) : pair[t[i]].key = k => pair[t[i]].element \in a
    BY <1>5, <2>4
  <2>6. ASSUME \A i \in 1..Len(t) : pair[t[i]].key # k
        PROVE  None \in a
    <3>1. \A j \in 1..Len(s) : pair[s[j]].key # k
      <4> TAKE j \in 1..Len(s)
      <4>1. CASE j = 1
        BY <1>6, <1>8, <4>1
      <4>2. CASE j # 1
        <5>1. j - 1 \in 1..Len(t) /\ (j - 1) + 1 = j
          BY <1>6, <2>3, <4>2
        <5>2. t[j - 1] = s[j]
          BY <2>4, <5>1
        <5> QED BY <2>6, <5>1, <5>2
      <4> QED BY <4>1, <4>2
    <3> QED BY <1>5, <3>1
  <2>7. reader[r].at \in {"first", "walk"}
    BY <1>2
  <2> QED BY <1>1, <1>2, <2>2, <2>3, <2>5, <2>6, <2>7, Arrives
<1> QED BY <1>7, <1>8

LEMMA ReadMaps ==
  ASSUME TypeInv, MapInv, NEW r \in Readers, ReadStep(r) \/ \E k \in Keys : GetBegin(r, k)
  PROVE  MapInv'
<1>1. UNCHANGED writerVars
  BY DEF ReadStep, GetFirst, GetWalk, GetElement, GetEnd, GetBegin
<1> SUFFICES ASSUME BeforeGrowing'
             PROVE  Loaded' /\ CountIs' /\ ReadsFit'
  BY DEF MapInv
<1>2. Loaded /\ CountIs /\ ReadsFit /\ bucketsLen = InitialBuckets
  BY <1>1 DEF writerVars, BeforeGrowing, MapInv
<1>3. Loaded' /\ CountIs'
  BY <1>1, <1>2 DEF writerVars, Loaded, CountIs
<1>4. reader[r] \in ReaderOf(made) /\ DOMAIN reader = Readers
      /\ allowed \in [Readers -> SUBSET (Elements \cup {None})]
  BY DEF TypeInv, TypeOK, MadeNodes
<1>5. CASE GetFirst(r)
  BY <1>2, <1>3, <1>5, GetFirstFits
<1>6. CASE GetWalk(r)
  BY <1>2, <1>3, <1>6, GetWalkFits
<1>7. CASE GetElement(r)
  <2> DEFINE x == [reader[r] EXCEPT !.result = pair[reader[r].node].element, !.at = "done"]
  <2>1. reader[r].at = "element" /\ reader' = [reader EXCEPT ![r] = x]
        /\ allowed' = [allowed EXCEPT ![r] = allowed[r]]
    BY <1>4, <1>7 DEF GetElement
  <2>2. x.key = reader[r].key /\ x.at = "done" /\ x.result = pair[reader[r].node].element
    BY <1>4 DEF ReaderOf
  <2> HIDE DEF x
  <2>3. ReaderSees(pair, made, truth, x, allowed[r])
    BY <1>2, <2>1, <2>2 DEF ReadsFit, ReaderSees
  <2>4. PICK y, a : y = x /\ a = allowed[r]
    OBVIOUS
  <2>5. reader' = [reader EXCEPT ![r] = y] /\ allowed' = [allowed EXCEPT ![r] = a]
        /\ ReaderSees(pair, made, truth, y, a)
    BY <2>1, <2>3, <2>4
  <2> QED BY <1>1, <1>2, <1>3, <2>5, Stepped
<1>8. CASE GetEnd(r)
  <2>1. reader' = [reader EXCEPT ![r] = IdleReader] /\ allowed' = [allowed EXCEPT ![r] = {}]
    BY <1>8 DEF GetEnd
  <2>2. ReaderSees(pair, made, truth, IdleReader, {})
    BY DEF ReaderSees, IdleReader
  <2> QED BY <1>1, <1>2, <1>3, <2>1, <2>2, Stepped
<1>9. ASSUME NEW k \in Keys, GetBegin(r, k)
      PROVE  ReadsFit'
  <2> DEFINE x == [IdleReader EXCEPT !.at = "first", !.key = k, !.bucket = BucketOf(k)]
  <2>1. reader' = [reader EXCEPT ![r] = x] /\ allowed' = [allowed EXCEPT ![r] = {truth[k]}]
    BY <1>9 DEF GetBegin
  <2>2. x.key = k /\ x.at = "first" /\ x.bucket = Hash[k] % InitialBuckets
    BY <1>2 DEF IdleReader, BucketOf
  <2> HIDE DEF x
  <2>3. ReaderSees(pair, made, truth, x, {truth[k]})
    BY <2>2 DEF ReaderSees
  <2>4. PICK y, a : y = x /\ a = {truth[k]}
    OBVIOUS
  <2>5. reader' = [reader EXCEPT ![r] = y] /\ allowed' = [allowed EXCEPT ![r] = a]
        /\ ReaderSees(pair, made, truth, y, a)
    BY <2>1, <2>3, <2>4
  <2> QED BY <1>1, <1>2, <2>5, Stepped
<1> QED BY <1>3, <1>5, <1>6, <1>7, <1>8, <1>9 DEF ReadStep

LEMMA RedistributeMaps ==
  ASSUME TypeInv, MapInv, Redistribute
  PROVE  MapInv'
<1> SUFFICES ASSUME BeforeGrowing'
             PROVE  Loaded' /\ CountIs' /\ ReadsFit'
  BY DEF MapInv
<1>1. CASE Check
  <2>1. BeforeGrowing
    BY <1>1 DEF Check, BeforeGrowing
  <2>2. UNCHANGED <<pair, made, first, size, pairTotal, ops, truth, reader, allowed>>
    BY <1>1 DEF Check
  <2> QED BY <2>1, <2>2 DEF MapInv, Loaded, CountIs, ReadsFit
<1>2. CASE Clear \/ MoveToEmpty \/ MoveToFound \/ MoveLink \/ MoveStore
  <2>1. step' \in {"clear", "put", "store"}
    BY <1>2 DEF Clear, MoveToEmpty, MoveToFound, MoveLink, MoveStore
  <2> QED BY <2>1 DEF BeforeGrowing
<1>3. CASE MoveDone
  <2>1. bucketsLen' = 2 * bucketsLen
    BY <1>3 DEF MoveDone
  <2>2. bucketsLen \in Nat \ {0} /\ bucketsLen >= InitialBuckets /\ InitialBuckets \in Nat
    BY CMapAssumption DEF TypeInv, TypeOK, Held
  <2>3. bucketsLen' # InitialBuckets
    BY <2>1, <2>2
  <2> QED BY <2>3 DEF BeforeGrowing
<1> QED BY <1>1, <1>2, <1>3 DEF Redistribute

LEMMA InitMaps == Init => MapInv
<1> SUFFICES ASSUME Init
             PROVE  Loaded /\ CountIs /\ ReadsFit
  BY DEF MapInv
<1>1. /\ pair = [n \in Nodes |-> NoPair] /\ made = 0 /\ ops = 0
      /\ first = [b \in Buckets |-> None] /\ size = [b \in Buckets |-> 0]
      /\ pairTotal = 0 /\ truth = [k \in Keys |-> None]
      /\ reader = [r \in Readers |-> IdleReader]
  BY DEF Init
<1>2. Loaded
  <2>1. \A b \in FirstBuckets : b \in Buckets
    BY CMapBounds, CMapAssumption DEF FirstBuckets, Buckets
  <2>2. ASSUME NEW b \in FirstBuckets
        PROVE  BucketIs(pair, made, truth, b, first[b], size[b], << >>)
    <3>1. first[b] = None /\ size[b] = 0 /\ Len(<< >>) = 0 /\ \A i \in 1..0 : FALSE
      BY <1>1, <2>1
    <3>2. << >> \in Seq(Nodes) /\ << >> \in Seq(1..made) /\ PairAt(<< >>, 1) = None
      BY <3>1 DEF PairAt
    <3>3. Walks(pair, made, None, << >>)
      BY <3>1, <3>2 DEF Walks, ListOf
    <3>4. \A k \in Keys : truth[k] = None
      BY <1>1
    <3> QED BY <3>1, <3>3, <3>4 DEF BucketIs
  <2> QED BY <2>2 DEF Loaded
<1>3. CountIs
  <2>1. Present(truth) = {}
    BY <1>1 DEF Present
  <2> QED BY <1>1, <2>1, FS_EmptySet DEF CountIs
<1>4. ReadsFit
  BY <1>1 DEF ReadsFit, ReaderSees, IdleReader
<1> QED BY <1>2, <1>3, <1>4

LEMMA NextMaps == TypeInv /\ MapInv /\ [Next]_vars => MapInv'
<1> SUFFICES ASSUME TypeInv, MapInv, [Next]_vars
             PROVE  MapInv'
  OBVIOUS
<1>1. ASSUME UNCHANGED <<pair, made, first, size, bucketsLen, step, pairTotal, ops, truth, reader, allowed>>
      PROVE  MapInv'
  BY <1>1 DEF MapInv, BeforeGrowing, Loaded, CountIs, ReadsFit
<1>2. ASSUME NEW w \in Writers, NEW k \in Keys, PutNew(w, k) \/ PutReplace(w, k) \/ Delete(w, k)
      PROVE  MapInv'
  BY <1>2, PutNewMaps, PutReplaceMaps, DeleteMaps
<1>3. ASSUME NEW w \in Writers, UpdateTotal(w)
      PROVE  MapInv'
  BY <1>1, <1>3 DEF UpdateTotal
<1>4. CASE Redistribute
  BY <1>4, RedistributeMaps
<1>5. ASSUME NEW r \in Readers, ReadStep(r) \/ \E k \in Keys : GetBegin(r, k)
      PROVE  MapInv'
  BY <1>5, ReadMaps
<1>6. CASE UNCHANGED vars
  BY <1>1, <1>6 DEF vars, writerVars
<1> QED BY <1>2, <1>3, <1>4, <1>5, <1>6 DEF Next

\* As long as nothing was redistributed every bucket holds exactly its present
\* keys, each once and with its element, the counts are right, and every Get
\* under way stands where it can only return what its key had during the call
\* (bucket.go, segment.go).
THEOREM MapInvariance == Spec => [](TypeInv /\ MapInv)
<1>1. Init => TypeInv /\ MapInv
  BY InitTyped, InitMaps
<1>2. TypeInv /\ MapInv /\ [Next]_vars => (TypeInv /\ MapInv)'
  BY NextTyped, NextMaps
<1> QED BY <1>1, <1>2, PTL DEF Spec

\* Until a segment redistributes for the first time it is a map, whatever Puts
\* and Deletes of however many goroutines came before: between operations a
\* lookup finds the last Put of its key, or nothing after a Delete, and the
\* counts of the buckets and of the segment are right (bucket.go:49-158,
\* segment.go:62-96).
THEOREM MapCountsUntilItGrows == Spec => [](BeforeGrowing => CountedMap)
<1>1. TypeInv /\ MapInv => (BeforeGrowing => CountedMap)
  <2> SUFFICES ASSUME TypeInv, MapInv, BeforeGrowing
               PROVE  CountedMap
    OBVIOUS
  <2>1. Loaded /\ CountIs /\ bucketsLen = InitialBuckets
    BY DEF MapInv, BeforeGrowing
  <2>2. ASSUME NEW b \in FirstBuckets
        PROVE  b \in Buckets
    <3>1. bucketsLen \in 1..MaxBuckets /\ MaxBuckets \in Nat
      BY CMapAssumption DEF TypeInv, TypeOK
    <3> QED BY <2>1, <3>1 DEF FirstBuckets, Buckets
  <2>3. ASSUME NEW k \in Keys
        PROVE  Lookup(k) = truth[k]
    <3>1. PICK b : b = BucketOf(k) /\ b = Hash[k] % InitialBuckets /\ b \in FirstBuckets
      BY <2>1, BucketIn DEF BucketOf, FirstBuckets
    <3>2. PICK s : BucketIs(pair, made, truth, b, first[b], size[b], s)
      BY <2>1, <3>1 DEF Loaded
    <3>3. Hash[k] % InitialBuckets = b /\ b \in Buckets
      BY <2>2, <3>1
    <3>4. /\ Chain(first[b]) = s
          /\ InChain(first[b], k) <=> truth[k] # None
          /\ InChain(first[b], k) =>
               /\ Position(first[b], k) \in 1..Len(s)
               /\ pair[s[Position(first[b], k)]].key = k
               /\ pair[s[Position(first[b], k)]].element = truth[k]
      BY <3>2, <3>3, LookupIs
    <3>5. Lookup(k) = IF InChain(first[b], k) THEN pair[Chain(first[b])[Position(first[b], k)]].element
                      ELSE None
      BY <3>1 DEF Lookup
    <3> QED BY <3>4, <3>5
  <2>4. ASSUME NEW b \in FirstBuckets
        PROVE  size[b] = Len(Chain(first[b]))
    <3>1. PICK s : BucketIs(pair, made, truth, b, first[b], size[b], s)
      BY <2>1 DEF Loaded
    <3>2. size[b] = Len(s)
      BY <3>1 DEF BucketIs
    <3>3. Chain(first[b]) = s
      <4>1. PICK p, n : p = pair /\ n = first[b]
        OBVIOUS
      <4>2. ListOf(p, n, s) /\ s \in Seq(Nodes) /\ \A i, j \in 1..Len(s) : s[i] = s[j] => i = j
        BY <3>1, <4>1 DEF BucketIs, Walks, ListOf
      <4>3. Len(s) <= MaxNodes
        BY <4>2, ListFits
      <4>4. ChainOf(p, n) = s
        BY <4>2, <4>3, ChainOfIs
      <4> QED BY <4>1, <4>4, ChainIs
    <3> QED BY <3>2, <3>3
  <2>5. pairTotal = Cardinality({k \in Keys : truth[k] # None})
    BY <2>1 DEF CountIs, Present
  <2>6. CountsAreRight
    BY <2>1, <2>4, <2>5 DEF CountsAreRight, FirstBuckets
  <2>7. MapsKeys
    BY <2>3 DEF MapsKeys
  <2> QED BY <2>6, <2>7 DEF CountedMap, TypeInv
<1> QED BY <1>1, MapInvariance, PTL

\* Until then a Get, that walks the list with no lock while Puts and Deletes
\* change it, returns an element its key had at some moment of the call, and nil
\* only if there was a moment without the key (bucket.go:86-99, 138-154).
THEOREM GetSeesUntilItGrows == Spec => [](BeforeGrowing => GetSeesTheMap)
<1>1. TypeInv /\ MapInv => (BeforeGrowing => GetSeesTheMap)
  BY DEF MapInv, ReadsFit, ReaderSees, GetSeesTheMap
<1> QED BY <1>1, MapInvariance, PTL

-----------------------------------------------------------------------------
(* No list ever runs into itself.                                          *)

\* s has no pair twice.
Once(s) == \A i, j \in 1..Len(s) : s[i] = s[j] => i = j

\* Of the m pairs p, the list from n on is s, and it ends.
Ends(p, m, n, s) == ListOf(p, n, s) /\ s \in Seq(1..m) /\ Once(s)

\* The inductive invariant.
ListsEnd == \A n \in 1..made : \E s : Ends(pair, made, n, s)

LEMMA EndsFacts ==
  ASSUME NEW p, NEW m \in Nat, m <= MaxNodes, NEW n, NEW s, Ends(p, m, n, s)
  PROVE  /\ Len(s) \in Nat /\ Len(s) <= m /\ s \in Seq(1..m) /\ s \in Seq(Nodes) /\ n = PairAt(s, 1)
         /\ \A i \in 1..Len(s) : s[i] \in 1..m /\ s[i] # None /\ p[s[i]].next = PairAt(s, i + 1)
         /\ ChainOf(p, n) = s
<1>1. s \in Seq(1..m) /\ s \in Seq(Nodes) /\ ListOf(p, n, s) /\ Once(s)
  BY DEF Ends, ListOf
<1>2. Len(s) \in Nat /\ (\A i \in 1..Len(s) : s[i] \in 1..m) /\ DOMAIN s = 1..Len(s)
  BY <1>1, LenProperties, ElementOfSeq
<1>3. \A i \in 1..Len(s) : s[i] # None
  BY <1>2, CMapAssumption
<1>4. Len(s) <= m
  <2> DEFINE S == {s[i] : i \in 1..Len(s)}
  <2>1. s \in Bijection(1..Len(s), S)
    <3>1. s \in [1..Len(s) -> S]
      BY <1>1, <1>2
    <3> QED BY <1>1, <3>1 DEF Once, Bijection, Injection, Surjection, IsInjective
  <2>2. IsFiniteSet(1..m) /\ Cardinality(1..m) = m
    BY FS_Interval
  <2>3. S \subseteq 1..m
    BY <1>2
  <2> HIDE DEF S
  <2>4. Cardinality(S) = Len(s)
    BY <1>2, <2>1, FS_CountingElements DEF ExistsBijection
  <2> QED BY <2>2, <2>3, <2>4, FS_Subset
<1>5. ChainOf(p, n) = s
  <2>1. Len(s) <= MaxNodes
    BY <1>2, <1>4, NodesAre
  <2> QED BY <1>1, <2>1, ChainOfIs
<1> QED BY <1>1, <1>2, <1>3, <1>4, <1>5 DEF ListOf

LEMMA EndsLinks ==
  ASSUME NEW p, NEW m \in Nat, m <= MaxNodes, NEW h, NEW s, Ends(p, m, h, s), NEW k, k = Len(s)
  PROVE  k \in Nat /\ h = PairAt(s, 1)
         /\ \A j \in 1..k : s[j] \in 1..m /\ s[j] # None /\ p[s[j]].next = PairAt(s, j + 1)
<1>1. /\ Len(s) \in Nat /\ Len(s) <= m /\ s \in Seq(1..m) /\ s \in Seq(Nodes) /\ h = PairAt(s, 1)
      /\ \A i \in 1..Len(s) : s[i] \in 1..m /\ s[i] # None /\ p[s[i]].next = PairAt(s, i + 1)
      /\ ChainOf(p, h) = s
  BY EndsFacts
<1> QED BY <1>1

Linked(p, m, h, s) ==
  /\ Len(s) \in Nat /\ h = PairAt(s, 1)
  /\ \A j \in 1..Len(s) : s[j] \in 1..m /\ s[j] # None /\ p[s[j]].next = PairAt(s, j + 1)

LEMMA EndsLinked ==
  ASSUME NEW p, NEW m \in Nat, m <= MaxNodes, NEW h, NEW s, Ends(p, m, h, s)
  PROVE  Linked(p, m, h, s)
<1>1. PICK k : k = Len(s)
  OBVIOUS
<1>2. k \in Nat /\ h = PairAt(s, 1)
      /\ \A j \in 1..k : s[j] \in 1..m /\ s[j] # None /\ p[s[j]].next = PairAt(s, j + 1)
  BY <1>1, EndsLinks
<1> QED BY <1>1, <1>2 DEF Linked

\* c has e.
Has(c, e) == \E y \in 1..Len(c) : c[y] = e

\* Two lists that meet are the same from there on.
LEMMA ListsMeet ==
  ASSUME NEW p, NEW n, NEW s, ListOf(p, n, s), NEW f, NEW c, ListOf(p, f, c),
         NEW a \in 1..Len(s), NEW b \in 1..Len(c), s[a] = c[b],
         NEW x \in 1..Len(s), a <= x
  PROVE  Has(c, s[x])
<1>1. PICK k, l \in Nat : k = Len(s) /\ l = Len(c)
  BY LenProperties DEF ListOf
<1>2. /\ \A i \in 1..k : s[i] \in Nodes /\ s[i] # None /\ p[s[i]].next = PairAt(s, i + 1)
      /\ \A i \in 1..l : c[i] \in Nodes /\ c[i] # None /\ p[c[i]].next = PairAt(c, i + 1)
      /\ a \in 1..k /\ b \in 1..l /\ x \in 1..k
  BY <1>1, ElementOfSeq, NodesAre DEF ListOf
<1>3. PICK N \in Nat : a + N = x
  <2>1. a \in Nat /\ x \in Nat /\ a <= x
    BY <1>2
  <2>2. x - a \in Nat /\ a + (x - a) = x
    BY <2>1
  <2> QED BY <2>2
<1> DEFINE w == [d \in 0..N |-> IF b + d \in 1..l /\ c[b + d] = s[a + d] THEN TRUE ELSE FALSE]
<1>4. w[0] \in {TRUE}
  BY <1>2, <1>3
<1>5. ASSUME NEW d \in 1..N, w[d - 1] \in {TRUE}
      PROVE  w[d] \in {TRUE}
  <2>1. /\ d - 1 \in 0..N /\ d \in 0..N /\ a + (d - 1) \in 1..k /\ a + d \in 1..k
        /\ (a + (d - 1)) + 1 = a + d /\ (b + (d - 1)) + 1 = b + d
    <3> HIDE DEF w
    <3>1. a \in Nat /\ b \in Nat /\ x \in Nat /\ 1 <= a /\ x <= k /\ k \in Nat
      BY <1>2
    <3> QED BY <1>3, <3>1
  <2>2. b + (d - 1) \in 1..l /\ c[b + (d - 1)] = s[a + (d - 1)]
    BY <1>5, <2>1
  <2>3. /\ p[s[a + (d - 1)]].next = PairAt(s, (a + (d - 1)) + 1)
        /\ p[c[b + (d - 1)]].next = PairAt(c, (b + (d - 1)) + 1)
    BY <1>2, <2>1, <2>2
  <2>4. PairAt(s, a + d) = PairAt(c, b + d)
    BY <2>1, <2>2, <2>3
  <2>5. PairAt(s, a + d) = s[a + d] /\ s[a + d] # None
    BY <1>1, <1>2, <2>1 DEF PairAt
  <2>6. b + d \in 1..l /\ c[b + d] = s[a + d]
    BY <1>1, <2>4, <2>5 DEF PairAt
  <2> QED BY <2>1, <2>6
<1>6. \A d \in 0..N : w[d] \in {TRUE}
  <2> HIDE DEF w
  <2> QED BY <1>3, <1>4, <1>5, Throughout
<1>7. N \in 0..N /\ w[N] = TRUE
  <2>1. N \in 0..N
    BY <1>3
  <2> HIDE DEF w
  <2> QED BY <1>6, <2>1
<1>8. b + N \in 1..l /\ c[b + N] = s[a + N]
  BY <1>7
<1> QED BY <1>1, <1>3, <1>8 DEF Has

\* A run of pairs u, each linked to the next, and the last to a list that ends
\* and has none of them.
Joins(p, m, u, t) ==
  /\ u \in Seq(1..m) /\ Len(u) # 0 /\ Once(u)
  /\ \A i \in 1..Len(u) : p[u[i]].next = IF i = Len(u) THEN PairAt(t, 1) ELSE u[i + 1]
  /\ \A i \in 1..Len(u), j \in 1..Len(t) : u[i] # t[j]
  /\ Ends(p, m, PairAt(t, 1), t)

LEMMA Joined ==
  ASSUME NEW p, NEW m \in Nat, m <= MaxNodes, NEW u, NEW t, Joins(p, m, u, t)
  PROVE  \E s : Ends(p, m, u[1], s)
<1>1. PICK k, l \in Nat : k = Len(u) /\ l = Len(t) /\ k # 0
  BY EndsFacts, LenProperties DEF Joins
<1>2. /\ u \in Seq(1..m) /\ t \in Seq(1..m) /\ 1..m \subseteq Nodes
      /\ \A i \in 1..k : u[i] \in 1..m /\ p[u[i]].next = IF i = k THEN PairAt(t, 1) ELSE u[i + 1]
      /\ \A i \in 1..l : t[i] \in 1..m /\ p[t[i]].next = PairAt(t, i + 1)
      /\ \A i, j \in 1..k : u[i] = u[j] => i = j
      /\ \A i, j \in 1..l : t[i] = t[j] => i = j
      /\ \A i \in 1..k, j \in 1..l : u[i] # t[j]
  <2>1. 1..m \subseteq Nodes
    BY NodesAre DEF Nodes
  <2>2. u \in Seq(1..m) /\ t \in Seq(1..m)
    BY DEF Joins, Ends
  <2>3. /\ \A i \in 1..k : u[i] \in 1..m /\ p[u[i]].next = IF i = k THEN PairAt(t, 1) ELSE u[i + 1]
        /\ \A i, j \in 1..k : u[i] = u[j] => i = j
        /\ \A i \in 1..k, j \in 1..l : u[i] # t[j]
    BY <1>1, <2>2, ElementOfSeq DEF Joins, Once
  <2>4. /\ \A i \in 1..l : t[i] \in 1..m /\ p[t[i]].next = PairAt(t, i + 1)
        /\ \A i, j \in 1..l : t[i] = t[j] => i = j
    BY <1>1, <2>2, ElementOfSeq DEF Joins, Ends, ListOf, Once
  <2> QED BY <2>1, <2>2, <2>3, <2>4
<1> DEFINE s == u \o t
<1>3. /\ s \in Seq(1..m) /\ Len(s) = k + l
      /\ \A i \in 1..(k + l) : s[i] = IF i <= k THEN u[i] ELSE t[i - k]
  <2>1. s \in Seq(1..m) /\ Len(s) = Len(u) + Len(t)
        /\ \A i \in 1..(Len(u) + Len(t)) : s[i] = IF i <= Len(u) THEN u[i] ELSE t[i - Len(u)]
    BY <1>2, ConcatProperties
  <2> HIDE DEF s
  <2> QED BY <1>1, <2>1
<1> HIDE DEF s
<1>4. PairAt(s, 1) = u[1]
  <2>1. 1 \in 1..(k + l) /\ 1 <= k
    BY <1>1
  <2> QED BY <1>3, <2>1 DEF PairAt
<1>5. \A j \in 1..(l + 1) : PairAt(s, k + j) = PairAt(t, j)
  <2> TAKE j \in 1..(l + 1)
  <2>1. /\ k + j \in 1..(k + l) <=> j \in 1..l
        /\ ~(k + j <= k) /\ (k + j) - k = j
    OBVIOUS
  <2> QED BY <1>1, <1>3, <2>1 DEF PairAt
<1>6. ASSUME NEW i \in 1..(k + l)
      PROVE  p[s[i]].next = PairAt(s, i + 1)
  <2>1. CASE i < k
    <3>1. i \in 1..k /\ i + 1 \in 1..(k + l) /\ i <= k /\ i + 1 <= k /\ i # k
      BY <2>1
    <3>2. s[i] = u[i] /\ s[i + 1] = u[i + 1] /\ PairAt(s, i + 1) = s[i + 1]
      BY <1>3, <3>1 DEF PairAt
    <3> QED BY <1>2, <3>1, <3>2
  <2>2. CASE i = k
    <3>1. i \in 1..k /\ i <= k /\ 1 \in 1..(l + 1)
      BY <1>1, <2>2
    <3>2. s[i] = u[i]
      BY <1>3, <3>1
    <3>3. PairAt(s, k + 1) = PairAt(t, 1)
      BY <1>5, <3>1
    <3> QED BY <1>2, <2>2, <3>1, <3>2, <3>3
  <2>3. CASE i > k
    <3>1. PICK j \in 1..l : j = i - k
      BY <2>3
    <3>2. ~(i <= k) /\ i = k + j /\ j + 1 \in 1..(l + 1) /\ i + 1 = k + (j + 1)
      BY <2>3, <3>1
    <3>3. s[i] = t[j]
      BY <1>3, <3>1, <3>2
    <3>4. PairAt(s, k + (j + 1)) = PairAt(t, j + 1)
      BY <1>5, <3>2
    <3> QED BY <1>2, <3>2, <3>3, <3>4
  <2> QED BY <2>1, <2>2, <2>3
<1>7. ASSUME NEW i \in 1..(k + l), NEW j \in 1..(k + l), s[i] = s[j]
      PROVE  i = j
  <2>1. \A x \in 1..(k + l) : IF x <= k THEN s[x] = u[x] /\ x \in 1..k
                              ELSE s[x] = t[x - k] /\ x - k \in 1..l
    BY <1>3
  <2>2. CASE i <= k /\ j <= k
    BY <1>2, <1>7, <2>1, <2>2
  <2>3. CASE ~(i <= k) /\ ~(j <= k)
    <3>1. t[i - k] = t[j - k] /\ i - k \in 1..l /\ j - k \in 1..l
      BY <1>7, <2>1, <2>3
    <3>2. i - k = j - k
      BY <1>2, <3>1
    <3> QED BY <3>2
  <2>4. CASE i <= k /\ ~(j <= k)
    BY <1>2, <1>7, <2>1, <2>4
  <2>5. CASE ~(i <= k) /\ j <= k
    BY <1>2, <1>7, <2>1, <2>5
  <2> QED BY <2>2, <2>3, <2>4, <2>5
<1>8. s \in Seq(Nodes)
  <2>1. PICK S : S = 1..m
    OBVIOUS
  <2>2. S \subseteq Nodes /\ s \in Seq(S)
    BY <1>2, <1>3, <2>1
  <2> QED BY <2>2
<1>9. Ends(p, m, u[1], s)
  BY <1>3, <1>4, <1>6, <1>7, <1>8 DEF Ends, ListOf, Once
<1> QED BY <1>9

\* The lists from all of m pairs end.
AllEnd(p, m) == \A n \in 1..m : \E s : Ends(p, m, n, s)

LEMMA ListsEndIs == ListsEnd <=> AllEnd(pair, made)
BY DEF ListsEnd, AllEnd

\* A list goes on to be one while its pairs keep their next ones.
LEMMA StillEnds ==
  ASSUME NEW p, NEW m \in Nat, NEW q, NEW k \in Nat, m <= k, NEW n, NEW s, Ends(p, m, n, s),
         \A i \in 1..Len(s) : q[s[i]].next = p[s[i]].next
  PROVE  Ends(q, k, n, s)
<1>1. s \in Seq(1..k)
  <2>1. PICK S, T : S = 1..m /\ T = 1..k
    OBVIOUS
  <2>2. S \subseteq T /\ s \in Seq(S)
    BY <2>1 DEF Ends
  <2>3. s \in Seq(T)
    BY <2>2
  <2> QED BY <2>1, <2>3
<1> QED BY <1>1 DEF Ends, ListOf

\* From nowhere, or from a pair whose list ends.
LEMMA ListFrom ==
  ASSUME NEW p, NEW m \in Nat, AllEnd(p, m), NEW n \in OfMade(m)
  PROVE  \E s : Ends(p, m, n, s)
<1>1. CASE n = None
  <2>1. Ends(p, m, None, << >>)
    BY DEF Ends, ListOf, Once, PairAt
  <2> QED BY <1>1, <2>1
<1>2. CASE n # None
  BY <1>2 DEF AllEnd, OfMade
<1> QED BY <1>1, <1>2

\* z new pairs are linked one to the next, and the last to a list.
LEMMA LinkedBefore ==
  ASSUME NEW p, NEW m \in Nat, AllEnd(p, m), NEW z \in Nat, m + z <= MaxNodes, NEW q,
         NEW rest \in OfMade(m),
         \A i \in 1..m : q[i].next = p[i].next,
         \A i \in 1..z : q[m + i].next = IF i = z THEN rest ELSE m + i + 1
  PROVE  AllEnd(q, m + z)
<1>1. m <= m + z /\ m + z \in Nat /\ MaxNodes \in Nat
  BY NodesAre
<1>2. ASSUME NEW n, NEW s, Ends(p, m, n, s)
      PROVE  Ends(q, m + z, n, s) /\ \A i \in 1..Len(s) : s[i] \in 1..m
  <2>1. \A i \in 1..Len(s) : s[i] \in 1..m
    BY <1>2, ElementOfSeq DEF Ends
  <2>2. \A i \in 1..Len(s) : q[s[i]].next = p[s[i]].next
    BY <2>1
  <2>3. Ends(q, m + z, n, s)
    BY <1>1, <1>2, <2>2, StillEnds
  <2> QED BY <2>1, <2>3
<1>3. PICK t : Ends(p, m, rest, t)
  BY ListFrom
<1>4. Ends(q, m + z, rest, t) /\ rest = PairAt(t, 1) /\ \A i \in 1..Len(t) : t[i] \in 1..m
  BY <1>2, <1>3 DEF Ends, ListOf
<1>5. ASSUME NEW n \in 1..m
      PROVE  \E s : Ends(q, m + z, n, s)
  BY <1>2 DEF AllEnd
<1>6. ASSUME NEW j \in 1..z
      PROVE  \E s : Ends(q, m + z, m + j, s)
  <2>1. PICK l \in Nat : l = z - j + 1 /\ l # 0
    <3>1. z - j + 1 \in Nat /\ z - j + 1 # 0
      OBVIOUS
    <3> QED BY <3>1
  <2> DEFINE u == [i \in 1..l |-> m + j + i - 1]
  <2>2. \A i \in 1..l : /\ m + j + i - 1 \in 1..(m + z) /\ m + j + i - 1 \notin 1..m
                        /\ j + i - 1 \in 1..z /\ m + (j + i - 1) = m + j + i - 1
                        /\ (i = l <=> j + i - 1 = z)
                        /\ m + (j + i - 1) + 1 = m + j + (i + 1) - 1
                        /\ (i # l => i + 1 \in 1..l)
    BY <2>1
  <2>3. u \in Seq(1..(m + z)) /\ Len(u) = l /\ 1 \in 1..l
    BY <2>1, <2>2
  <2>4. \A i \in 1..l : u[i] = m + j + i - 1
    OBVIOUS
  <2> HIDE DEF u
  <2>5. Once(u)
    <3>1. \A x, y \in 1..l : m + j + x - 1 = m + j + y - 1 => x = y
      BY <2>1
    <3> QED BY <2>3, <2>4, <3>1 DEF Once
  <2>6. \A i \in 1..l : q[u[i]].next = IF i = l THEN rest ELSE u[i + 1]
    <3> TAKE i \in 1..l
    <3>1. u[i] = m + (j + i - 1) /\ j + i - 1 \in 1..z
      BY <2>2, <2>4
    <3>2. q[u[i]].next = IF j + i - 1 = z THEN rest ELSE m + (j + i - 1) + 1
      BY <3>1
    <3>3. i # l => u[i + 1] = m + (j + i - 1) + 1
      BY <2>2, <2>4
    <3> QED BY <2>2, <3>2, <3>3
  <2>7. \A i \in 1..l, y \in 1..Len(t) : u[i] # t[y]
    BY <1>4, <2>2, <2>4
  <2>8. Joins(q, m + z, u, t)
    BY <1>4, <2>1, <2>3, <2>5, <2>6, <2>7 DEF Joins
  <2>9. \E s : Ends(q, m + z, u[1], s)
    BY <1>1, <2>8, Joined
  <2>10. u[1] = m + j
    BY <2>3, <2>4
  <2> QED BY <2>9, <2>10
<1>7. ASSUME NEW n \in 1..(m + z)
      PROVE  \E s : Ends(q, m + z, n, s)
  <2>1. CASE n <= m
    BY <1>5, <2>1
  <2>2. CASE ~(n <= m)
    <3>1. n - m \in 1..z /\ m + (n - m) = n
      BY <2>2
    <3> QED BY <1>6, <3>1
  <2> QED BY <2>1, <2>2
<1> QED BY <1>7 DEF AllEnd

\* A pair is linked to a list it is not in.
LEMMA LinkedTo ==
  ASSUME NEW p, NEW m \in Nat, m <= MaxNodes, AllEnd(p, m), NEW q, NEW h \in 1..m,
         NEW f, NEW c, Ends(p, m, f, c), \A y \in 1..Len(c) : c[y] # h,
         q[h].next = f, \A i \in 1..m : i # h => q[i].next = p[i].next
  PROVE  AllEnd(q, m)
<1>1. ASSUME NEW n, NEW s, Ends(p, m, n, s), \A i \in 1..Len(s) : s[i] # h
      PROVE  Ends(q, m, n, s)
  <2>1. \A i \in 1..Len(s) : q[s[i]].next = p[s[i]].next
    BY <1>1, EndsFacts
  <2> QED BY <1>1, <2>1, StillEnds
<1>2. Ends(q, m, f, c) /\ f = PairAt(c, 1)
  BY <1>1 DEF Ends, ListOf
<1>3. ASSUME NEW n, NEW s, Ends(p, m, n, s), NEW x \in 1..Len(s), s[x] = h
      PROVE  \E v : Ends(q, m, n, v)
  <2>1. /\ s \in Seq(1..m) /\ n = PairAt(s, 1) /\ Len(s) \in Nat
        /\ \A i \in 1..Len(s) : s[i] \in 1..m /\ p[s[i]].next = PairAt(s, i + 1)
    BY <1>3, EndsFacts
  <2>2. PICK l \in Nat : l = Len(s)
    BY <2>1
  <2> DEFINE u == SubSeq(s, 1, x)
  <2>3. u \in Seq(1..m) /\ Len(u) = x /\ (\A i \in 1..x : u[i] = s[i])
    <3>1. x \in Int /\ 1 \in Int /\ \A i \in 1..x : s[i] \in 1..m
      BY <1>3, <2>1
    <3>2. /\ u \in Seq(1..m)
          /\ Len(u) = IF 1 <= x THEN x - 1 + 1 ELSE 0
          /\ \A i \in 1..x - 1 + 1 : u[i] = s[1 + i - 1]
      BY <3>1, SubSeqProperties
    <3>3. x \in Nat /\ 1 <= x /\ x - 1 + 1 = x /\ \A i \in 1..x : 1 + i - 1 = i
      BY <1>3
    <3> QED BY <3>2, <3>3
  <2> HIDE DEF u
  <2>4. x \in 1..l /\ \A i \in 1..x : i \in 1..l /\ (i # x => i + 1 \in 1..l /\ i + 1 \in 1..x)
    BY <1>3, <2>2
  <2>5. Once(u)
    <3>1. \A i, j \in 1..l : s[i] = s[j] => i = j
      BY <1>3, <2>2 DEF Ends, Once
    <3> QED BY <2>3, <2>4, <3>1 DEF Once
  <2>6. \A i \in 1..x : q[u[i]].next = IF i = x THEN PairAt(c, 1) ELSE u[i + 1]
    <3> TAKE i \in 1..x
    <3>1. CASE i = x
      BY <1>2, <1>3, <2>3, <3>1
    <3>2. CASE i # x
      <4>1. s[i] # h
        BY <1>3, <2>2, <2>4, <3>2 DEF Ends, Once
      <4>2. q[s[i]].next = p[s[i]].next /\ p[s[i]].next = PairAt(s, i + 1)
        BY <2>1, <2>2, <2>4, <4>1
      <4>3. PairAt(s, i + 1) = s[i + 1] /\ u[i + 1] = s[i + 1]
        BY <2>2, <2>3, <2>4, <3>2 DEF PairAt
      <4> QED BY <2>3, <3>2, <4>2, <4>3
    <3> QED BY <3>1, <3>2
  <2>7. ASSUME NEW i \in 1..x, NEW j \in 1..Len(c), u[i] = c[j]
        PROVE  FALSE
    <3>1. i \in 1..Len(s) /\ i <= x /\ s[i] = c[j]
      BY <2>2, <2>3, <2>4, <2>7
    <3>2. Has(c, s[x])
      <4>1. ListOf(p, n, s) /\ ListOf(p, f, c)
        BY <1>3 DEF Ends
      <4>2. PICK a, b : a = i /\ b = j
        OBVIOUS
      <4>3. a \in 1..Len(s) /\ b \in 1..Len(c) /\ s[a] = c[b] /\ a <= x
        BY <3>1, <4>2
      <4> QED BY <1>3, <4>1, <4>3, ListsMeet
    <3> QED BY <1>3, <3>2 DEF Has
  <2>8. Len(u) # 0 /\ u[1] = n
    <3>1. 1 \in 1..x /\ 1 \in 1..l /\ x # 0
      BY <2>2, <2>4
    <3> QED BY <2>1, <2>2, <2>3, <3>1 DEF PairAt
  <2>9. Joins(q, m, u, c)
    BY <1>2, <2>3, <2>5, <2>6, <2>7, <2>8 DEF Joins
  <2>10. \E v : Ends(q, m, u[1], v)
    BY <2>9, Joined
  <2> QED BY <2>8, <2>10
<1>4. ASSUME NEW n \in 1..m
      PROVE  \E v : Ends(q, m, n, v)
  <2>1. PICK s : Ends(p, m, n, s)
    BY DEF AllEnd
  <2>2. CASE \A i \in 1..Len(s) : s[i] # h
    BY <1>1, <2>1, <2>2
  <2>3. CASE \E i \in 1..Len(s) : s[i] = h
    BY <1>3, <2>1, <2>3
  <2> QED BY <2>2, <2>3
<1> QED BY <1>4 DEF AllEnd

LEMMA ListsEndThen == ASSUME NEW q, NEW m, AllEnd(q, m), pair' = q, made' = m PROVE ListsEnd'
BY DEF AllEnd, ListsEnd

\* The pairs go on with the same next ones.
LEMMA NextStays ==
  ASSUME TypeInv, ListsEnd, made' = made, \A i \in 1..made : pair'[i].next = pair[i].next
  PROVE  ListsEnd'
<1>1. PICK p, q, m : p = pair /\ q = pair' /\ m = made
  OBVIOUS
<1>2. m \in Nat /\ m <= m /\ AllEnd(p, m) /\ \A i \in 1..m : q[i].next = p[i].next
  BY <1>1, ListsOfMade, ListsEndIs
<1>3. ASSUME NEW n \in 1..m
      PROVE  \E s : Ends(q, m, n, s)
  <2>1. PICK s : Ends(p, m, n, s)
    BY <1>2 DEF AllEnd
  <2>2. \A i \in 1..Len(s) : q[s[i]].next = p[s[i]].next
    BY <1>2, <2>1, ElementOfSeq DEF Ends
  <2>3. Ends(q, m, n, s)
    BY <1>2, <2>1, <2>2, StillEnds
  <2> QED BY <2>3
<1>4. AllEnd(q, m)
  BY <1>3 DEF AllEnd
<1> QED BY <1>1, <1>4 DEF AllEnd, ListsEnd

\* New pairs are linked in front of a list.
LEMMA NewOnesLinked ==
  ASSUME TypeInv, ListsEnd, NEW z \in Nat, made' = made + z, made + z <= MaxNodes,
         NEW rest \in OfMade(made),
         \A i \in 1..made : pair'[i].next = pair[i].next,
         \A i \in 1..z : pair'[made + i].next = IF i = z THEN rest ELSE made + i + 1
  PROVE  ListsEnd'
<1>1. PICK p, q, m : p = pair /\ q = pair' /\ m = made
  OBVIOUS
<1>2. /\ m \in Nat /\ AllEnd(p, m) /\ m + z <= MaxNodes /\ rest \in OfMade(m)
      /\ \A i \in 1..m : q[i].next = p[i].next
      /\ \A i \in 1..z : q[m + i].next = IF i = z THEN rest ELSE m + i + 1
  BY <1>1, ListsOfMade, ListsEndIs
<1>3. AllEnd(q, m + z)
  BY <1>2, LinkedBefore
<1> QED BY <1>1, <1>3 DEF AllEnd, ListsEnd

LEMMA PutNewEnds ==
  ASSUME TypeInv, ListsEnd, NEW w \in Writers, NEW k \in Keys, PutNew(w, k)
  PROVE  ListsEnd'
<1>1. PICK e, f, m : e = ops + 1 /\ f = first[BucketOf(k)] /\ m = made
  OBVIOUS
<1>2. /\ made' = m + 1 /\ m \in Nat /\ m < MaxNodes /\ MaxNodes \in Nat
      /\ pair' = [pair EXCEPT ![m + 1] = [key |-> k, element |-> e, next |-> f]]
  BY <1>1, ListsOfMade DEF PutNew
<1>3. f \in OfMade(m)
  BY <1>1, BucketIn DEF TypeInv, MadeNodes
<1>4. m + 1 <= MaxNodes /\ m + 1 \in Nodes /\ 1 \in Nat /\ \A i \in 1..m : i \in Nodes /\ i # m + 1
  BY <1>2 DEF Nodes
<1>5. pair \in [Nodes -> Pair]
  BY DEF TypeInv, TypeOK
<1>6. (\A i \in 1..m : pair'[i].next = pair[i].next) /\ pair'[m + 1].next = f
  BY <1>2, <1>4, <1>5
<1>7. \A i \in 1..1 : pair'[m + i].next = IF i = 1 THEN f ELSE m + i + 1
  <2>1. \A i \in 1..1 : i = 1
    OBVIOUS
  <2> QED BY <1>6, <2>1
<1> QED BY <1>1, <1>2, <1>3, <1>4, <1>6, <1>7, NewOnesLinked

LEMMA DeleteEnds ==
  ASSUME TypeInv, ListsEnd, NEW w \in Writers, NEW k \in Keys, Delete(w, k)
  PROVE  ListsEnd'
<1> DEFINE f == first[BucketOf(k)]
           c == Chain(f)
           x == Position(f, k)
<1>1. PICK m, z, rest : m = made /\ z = x - 1 /\ rest = pair[c[x - 1 + 1]].next
  OBVIOUS
<1>2. /\ InChain(f, k) /\ made' = m + z /\ m + z <= MaxNodes
      /\ pair' = [n \in Nodes |-> IF n \in (m + 1)..(m + z)
                   THEN [pair[c[n - m]] EXCEPT !.next = IF n - m = z THEN rest ELSE m + (n - m) + 1]
                   ELSE pair[n]]
  BY <1>1 DEF Delete
<1>3. f \in OfMade(m) /\ c \in Seq(1..m) /\ m \in Nat /\ MaxNodes \in Nat /\ 1..m \subseteq Nodes
  <2>1. f \in OfMade(made)
    BY BucketIn DEF TypeInv, MadeNodes
  <2> QED BY <1>1, <2>1, ListsOfMade
<1>4. x \in 1..Len(c) /\ Len(c) \in Nat /\ c[x] \in 1..m
  <2>1. PICK n, s : n = f /\ s = c
    OBVIOUS
  <2>2. s = Chain(n) /\ s \in Seq(1..m) /\ InChain(n, k)
    BY <1>2, <1>3, <2>1
  <2>3. Position(n, k) \in 1..Len(s) /\ Len(s) \in Nat /\ s[Position(n, k)] \in 1..m
    BY <2>2, PositionIs
  <2> QED BY <2>1, <2>3
<1>5. z \in Nat /\ x - 1 + 1 = x /\ \A i \in 1..z : i \in 1..Len(c)
  BY <1>1, <1>4
<1>6. \A i \in 1..m : pair[i] \in Filled(m)
  BY <1>1 DEF TypeInv, MadeNodes
<1>7. rest \in OfMade(m)
  BY <1>1, <1>4, <1>5, <1>6 DEF Filled
<1>8. \A i \in 1..z : c[i] \in 1..m
  BY <1>3, <1>5, ElementOfSeq
<1> HIDE DEF f, c, x
<1>9. \A i \in 1..m : i \in Nodes /\ i \notin (m + 1)..(m + z)
  BY <1>3, <1>5
<1>10. \A i \in 1..z : m + i \in Nodes /\ m + i \in (m + 1)..(m + z) /\ (m + i) - m = i
  BY <1>2, <1>3, <1>5 DEF Nodes
<1>11. \A i \in 1..m : pair'[i].next = pair[i].next
  BY <1>2, <1>9
<1>12. ASSUME NEW i \in 1..z
       PROVE  pair'[m + i].next = IF i = z THEN rest ELSE m + i + 1
  <2>1. pair'[m + i] = [pair[c[i]] EXCEPT !.next = IF i = z THEN rest ELSE m + i + 1]
    BY <1>2, <1>10
  <2>2. pair[c[i]] \in Filled(m)
    BY <1>6, <1>8
  <2> QED BY <2>1, <2>2 DEF Filled
<1>13. /\ z \in Nat /\ made' = made + z /\ made + z <= MaxNodes /\ rest \in OfMade(made)
       /\ \A i \in 1..made : pair'[i].next = pair[i].next
  BY <1>1, <1>2, <1>5, <1>7, <1>11
<1>14. \A i \in 1..z : pair'[made + i].next = IF i = z THEN rest ELSE made + i + 1
  BY <1>1, <1>12
<1> QED BY <1>13, <1>14, NewOnesLinked

LEMMA MoveLinkEnds ==
  ASSUME TypeInv, ListsEnd, MoveLink
  PROVE  ListsEnd'
<1>1. PICK p, q, m, h, f : p = pair /\ q = pair' /\ m = made /\ h = Head(moving) /\ f = first[Target]
  OBVIOUS
<1>2. /\ step = "put" /\ moving # << >> /\ made' = m
      /\ ~InChain(f, p[h].key) /\ q = [p EXCEPT ![h].next = f]
  BY <1>1 DEF MoveLink
<1>3. f \in OfMade(m) /\ h \in 1..m
  BY <1>1, <1>2, Moving
<1>4. m \in Nat /\ m <= MaxNodes /\ 1..m \subseteq Nodes /\ p \in [Nodes -> Pair] /\ AllEnd(p, m)
  BY <1>1, ListsOfMade, ListsEndIs DEF TypeInv, TypeOK
<1>5. PICK c : Ends(p, m, f, c)
  BY <1>3, <1>4, ListFrom
<1>6. Chain(f) = c /\ c \in Seq(1..m)
  <2>1. ChainOf(p, f) = c /\ c \in Seq(1..m)
    BY <1>4, <1>5, EndsFacts
  <2> QED BY <1>1, <2>1, ChainIs
<1>7. \A y \in 1..Len(c) : c[y] # h
  <2>1. DOMAIN c = 1..Len(c)
    BY <1>6
  <2>2. \A y \in DOMAIN c : p[c[y]].key # p[h].key
    BY <1>1, <1>2, <1>6 DEF InChain
  <2> QED BY <2>1, <2>2
<1>8. q[h].next = f /\ \A i \in 1..m : i # h => q[i].next = p[i].next
  <2>1. p[h] \in Filled(m)
    BY <1>1, <1>3 DEF TypeInv, MadeNodes
  <2>2. q[h] = [p[h] EXCEPT !.next = f]
    BY <1>2, <1>3, <1>4
  <2> QED BY <1>2, <1>3, <1>4, <2>1, <2>2 DEF Filled
<1>9. AllEnd(q, m)
  BY <1>3, <1>4, <1>5, <1>7, <1>8, LinkedTo
<1>10. pair' = q /\ made' = m
  BY <1>1, <1>2
<1> QED BY <1>9, <1>10, ListsEndThen

\* Only an element is replaced.
LEMMA ReplacedEnds ==
  ASSUME TypeInv, ListsEnd, NEW n, NEW e, made' = made, pair' = [pair EXCEPT ![n].element = e]
  PROVE  ListsEnd'
<1>1. pair \in [Nodes -> Pair] /\ \A i \in 1..made : i \in Nodes /\ pair[i] \in Filled(made)
  BY ListsOfMade DEF TypeInv, TypeOK, MadeNodes
<1>2. \A i \in 1..made : pair'[i].next = pair[i].next
  BY <1>1 DEF Filled
<1> QED BY <1>2, NextStays

LEMMA InitEnds == Init => ListsEnd
<1>1. \A n \in 1..0 : FALSE
  OBVIOUS
<1> QED BY <1>1 DEF Init, ListsEnd

LEMMA NextEnds == TypeInv /\ ListsEnd /\ [Next]_vars => ListsEnd'
<1> SUFFICES ASSUME TypeInv, ListsEnd, [Next]_vars
             PROVE  ListsEnd'
  OBVIOUS
<1>1. ASSUME pair' = pair, made' = made
      PROVE  ListsEnd'
  BY <1>1, NextStays
<1>2. ASSUME NEW w \in Writers, NEW k \in Keys, PutNew(w, k)
      PROVE  ListsEnd'
  BY <1>2, PutNewEnds
<1>3. ASSUME NEW w \in Writers, NEW k \in Keys, PutReplace(w, k)
      PROVE  ListsEnd'
  <2>1. PICK n, e : made' = made /\ pair' = [pair EXCEPT ![n].element = e]
    BY <1>3 DEF PutReplace
  <2> QED BY <2>1, ReplacedEnds
<1>4. ASSUME NEW w \in Writers, NEW k \in Keys, Delete(w, k)
      PROVE  ListsEnd'
  BY <1>4, DeleteEnds
<1>5. ASSUME NEW w \in Writers, UpdateTotal(w)
      PROVE  ListsEnd'
  BY <1>1, <1>5 DEF UpdateTotal
<1>6. CASE Redistribute
  <2>1. CASE Check \/ Clear \/ MoveToEmpty \/ MoveStore \/ MoveDone
    <3>1. pair' = pair /\ made' = made
      BY <2>1 DEF Check, Clear, MoveToEmpty, MoveStore, MoveDone
    <3> QED BY <1>1, <3>1
  <2>2. CASE MoveToFound
    <3>1. PICK n, e : made' = made /\ pair' = [pair EXCEPT ![n].element = e]
      BY <2>2 DEF MoveToFound
    <3> QED BY <3>1, ReplacedEnds
  <2>3. CASE MoveLink
    BY <2>3, MoveLinkEnds
  <2> QED BY <1>6, <2>1, <2>2, <2>3 DEF Redistribute
<1>7. ASSUME NEW r \in Readers, ReadStep(r) \/ \E k \in Keys : GetBegin(r, k)
      PROVE  ListsEnd'
  <2>1. UNCHANGED writerVars
    BY <1>7 DEF ReadStep, GetFirst, GetWalk, GetElement, GetEnd, GetBegin
  <2> QED BY <1>1, <2>1 DEF writerVars
<1>8. CASE UNCHANGED vars
  BY <1>1, <1>8 DEF vars, writerVars
<1> QED BY <1>2, <1>3, <1>4, <1>5, <1>6, <1>7, <1>8 DEF Next

LEMMA EndsNoCycles == TypeInv /\ ListsEnd => NoCycles
<1> SUFFICES ASSUME TypeInv, ListsEnd, NEW n \in 1..made
             PROVE  Len(Chain(n)) <= made
  BY DEF NoCycles
<1>1. PICK p, m : p = pair /\ m = made
  OBVIOUS
<1>2. m \in Nat /\ m <= MaxNodes
  BY <1>1, ListsOfMade
<1>3. PICK s : Ends(p, m, n, s)
  BY <1>1 DEF ListsEnd
<1>4. Len(s) <= m /\ ChainOf(p, n) = s
  BY <1>2, <1>3, EndsFacts
<1> QED BY <1>1, <1>4, ChainIs

\* No list runs into itself, for any number of keys, buckets and redistributions:
\* when Redistribe links a pair to the head of another bucket while readers stand
\* on it, the pair is not in that list, so every walk of a Get still comes to the
\* nil that ends one (redistributor.go:138-169, bucket.go:86-99, 119-158).
THEOREM ListsNeverCycle == Spec => []NoCycles
<1>1. Init => TypeInv /\ ListsEnd
  BY InitTyped, InitEnds
<1>2. TypeInv /\ ListsEnd /\ [Next]_vars => (TypeInv /\ ListsEnd)'
  BY NextTyped, NextEnds
<1>3. TypeInv /\ ListsEnd => NoCycles
  BY EndsNoCycles
<1> QED BY <1>1, <1>2, <1>3, PTL DEF Spec

\* One list from a pair on, and its tail.
LEMMA EndsOnce ==
  ASSUME NEW p, NEW m \in Nat, m <= MaxNodes, NEW n, NEW s, Ends(p, m, n, s), NEW r, Ends(p, m, n, r)
  PROVE  s = r
<1>1. ChainOf(p, n) = s /\ ChainOf(p, n) = r
  BY EndsFacts
<1> QED BY <1>1

\* r is what follows the first of s.
Follow(s, r) == Len(r) + 1 = Len(s) /\ \A i \in 1..Len(r) : r[i] = s[i + 1]

LEMMA EndsTail ==
  ASSUME NEW p, NEW m \in Nat, m <= MaxNodes, NEW n, n # None, NEW s, Ends(p, m, n, s)
  PROVE  /\ 1 \in 1..Len(s) /\ s[1] = n /\ n \in 1..m
         /\ \E r : Ends(p, m, p[n].next, r) /\ Follow(s, r)
<1>1. /\ Len(s) \in Nat /\ s \in Seq(1..m) /\ s \in Seq(Nodes) /\ n = PairAt(s, 1)
      /\ \A i \in 1..Len(s) : s[i] \in 1..m /\ p[s[i]].next = PairAt(s, i + 1)
  BY EndsFacts
<1>2. 1 \in 1..Len(s) /\ s[1] = n
  BY <1>1 DEF PairAt
<1>3. PICK l \in Nat : l + 1 = Len(s)
  <2>1. Len(s) - 1 \in Nat /\ (Len(s) - 1) + 1 = Len(s)
    BY <1>1, <1>2
  <2> QED BY <2>1
<1> DEFINE r == [i \in 1..l |-> s[i + 1]]
<1>4. \A i \in 1..l : i + 1 \in 1..(l + 1) /\ r[i] = s[i + 1]
  OBVIOUS
<1>5. DOMAIN r = 1..l /\ \A i \in 1..l : r[i] \in 1..m /\ r[i] \in Nodes
  <2>1. \A i \in 1..(l + 1) : s[i] \in 1..m /\ s[i] \in Nodes
    BY <1>1, <1>3, ElementOfSeq
  <2> QED BY <1>4, <2>1
<1>6. r \in Seq(1..m) /\ r \in Seq(Nodes) /\ Len(r) = l
  <2>1. r \in [1..l -> 1..m] /\ r \in [1..l -> Nodes]
    BY <1>5
  <2> HIDE DEF r
  <2> QED BY <1>5, <2>1, SeqDef, LenProperties
<1> HIDE DEF r
<1>7. \A i \in 1..(l + 1) : PairAt(r, i) = PairAt(s, i + 1)
  <2> TAKE i \in 1..(l + 1)
  <2>1. i + 1 \in 1..(l + 1) <=> i \in 1..l
    OBVIOUS
  <2> QED BY <1>3, <1>4, <1>6, <2>1 DEF PairAt
<1>8. p[n].next = PairAt(r, 1)
  <2>1. 1 \in 1..(l + 1) /\ 1 + 1 = 2
    OBVIOUS
  <2> QED BY <1>1, <1>2, <1>7, <2>1
<1>9. \A i \in 1..l : p[r[i]].next = PairAt(r, i + 1)
  <2> TAKE i \in 1..l
  <2>1. i + 1 \in 1..(l + 1)
    OBVIOUS
  <2>2. p[s[i + 1]].next = PairAt(s, (i + 1) + 1) /\ PairAt(r, i + 1) = PairAt(s, (i + 1) + 1)
    BY <1>1, <1>3, <1>7, <2>1
  <2> QED BY <1>4, <2>2
<1>10. \A i, j \in 1..l : r[i] = r[j] => i = j
  <2>1. \A i, j \in 1..(l + 1) : s[i] = s[j] => i = j
    BY <1>3 DEF Ends, Once
  <2> TAKE i, j \in 1..l
  <2> SUFFICES ASSUME r[i] = r[j]
               PROVE  i = j
    OBVIOUS
  <2>2. s[i + 1] = s[j + 1] /\ i + 1 \in 1..(l + 1) /\ j + 1 \in 1..(l + 1)
    BY <1>4
  <2>3. i + 1 = j + 1
    BY <2>1, <2>2
  <2> QED BY <2>3
<1>11. Ends(p, m, p[n].next, r)
  BY <1>6, <1>8, <1>9, <1>10 DEF Ends, ListOf, Once
<1>12. Follow(s, r)
  BY <1>3, <1>4, <1>6 DEF Follow
<1>13. n \in 1..m
  BY <1>1, <1>2
<1> QED BY <1>2, <1>11, <1>12, <1>13

\* Lists agree as long as the pairs on the way have the same next ones.
SameUpto(s, r, i) == i \in 1..Len(r) /\ \A j \in 1..i : r[j] = s[j]
SameNext(p, q, s, i) == \A j \in 1..Len(s) : j < i => q[s[j]].next = p[s[j]].next

LEMMA ListsAgree ==
  ASSUME NEW p, NEW q, NEW m \in Nat, m <= MaxNodes, NEW h, NEW s, Ends(p, m, h, s), NEW r, Ends(q, m, h, r),
         NEW i \in 1..Len(s), SameNext(p, q, s, i)
  PROVE  SameUpto(s, r, i)
<1>1. PICK k, l \in Nat : k = Len(s) /\ l = Len(r)
  BY EndsFacts
<1>2. /\ h = PairAt(s, 1) /\ h = PairAt(r, 1)
      /\ \A j \in 1..k : s[j] # None /\ p[s[j]].next = PairAt(s, j + 1)
      /\ \A j \in 1..l : r[j] # None /\ q[r[j]].next = PairAt(r, j + 1)
  <2>1. h = PairAt(s, 1) /\ \A j \in 1..k : s[j] # None /\ p[s[j]].next = PairAt(s, j + 1)
    <3>1. Linked(p, m, h, s)
      BY EndsLinked
    <3> QED BY <1>1, <3>1 DEF Linked
  <2>2. h = PairAt(r, 1) /\ \A j \in 1..l : r[j] # None /\ q[r[j]].next = PairAt(r, j + 1)
    <3>1. Linked(q, m, h, r)
      BY EndsLinked
    <3> QED BY <1>1, <3>1 DEF Linked
  <2> QED BY <2>1, <2>2
<1>3. PICK N \in Nat : N + 1 = i /\ N + 1 <= k
  <2>1. i \in 1..k
    BY <1>1
  <2>2. i - 1 \in Nat /\ (i - 1) + 1 = i /\ i <= k
    BY <2>1
  <2> QED BY <2>2
<1> DEFINE w == [d \in 0..N |-> IF d + 1 \in 1..l /\ r[d + 1] = s[d + 1] THEN TRUE ELSE FALSE]
<1>4. w[0] \in {TRUE}
  <2>1. 0 \in 0..N /\ 0 + 1 = 1 /\ 1 \in 1..k
    BY <1>3
  <2>2. h = s[1] /\ h # None
    BY <1>1, <1>2, <2>1 DEF PairAt
  <2>3. 1 \in 1..l /\ r[1] = h
    BY <1>1, <1>2, <2>2 DEF PairAt
  <2> QED BY <2>1, <2>2, <2>3
<1>5. ASSUME NEW d \in 1..N, w[d - 1] \in {TRUE}
      PROVE  w[d] \in {TRUE}
  <2>1. d - 1 \in 0..N /\ (d - 1) + 1 = d /\ d \in 0..N /\ d \in 1..k /\ d + 1 \in 1..k /\ d < N + 1
    <3> HIDE DEF w
    <3> QED BY <1>3
  <2>2. d \in 1..l /\ r[d] = s[d]
    BY <1>5, <2>1
  <2>3. q[s[d]].next = p[s[d]].next
    BY <1>1, <1>3, <2>1 DEF SameNext
  <2>4. PairAt(r, d + 1) = PairAt(s, d + 1)
    BY <1>2, <2>1, <2>2, <2>3
  <2>5. PairAt(s, d + 1) = s[d + 1] /\ s[d + 1] # None
    BY <1>1, <1>2, <2>1 DEF PairAt
  <2>6. d + 1 \in 1..l /\ r[d + 1] = s[d + 1]
    BY <1>1, <2>4, <2>5 DEF PairAt
  <2> QED BY <2>1, <2>6
<1>6. \A d \in 0..N : w[d] \in {TRUE}
  <2> HIDE DEF w
  <2> QED BY <1>4, <1>5, Throughout
<1>7. \A d \in 0..N : d + 1 \in 1..l /\ r[d + 1] = s[d + 1]
  BY <1>6
<1>8. \A j \in 1..i : j - 1 \in 0..N /\ (j - 1) + 1 = j
  BY <1>3
<1>9. i \in 1..i
  BY <1>3
<1> HIDE DEF w
<1> QED BY <1>1, <1>7, <1>8, <1>9 DEF SameUpto

StaysIn(s, A, x, i) == (\A j \in 1..Len(s) : j < i => s[j] \in A) /\ s[i] \in A \cup {x}
Avoids(s, x, i) == \A j \in 1..Len(s) : j < i => s[j] # x

\* A list stays within a set that the next ones of its pairs do not leave,
\* except for one, x.
LEMMA ListStays ==
  ASSUME NEW p, NEW m \in Nat, m <= MaxNodes, NEW h, NEW s, Ends(p, m, h, s), NEW A, h \in A \cup {None},
         NEW x, \A n \in A : p[n].next \in A \cup {None, x},
         NEW i \in 1..Len(s), Avoids(s, x, i)
  PROVE  StaysIn(s, A, x, i)
<1>1. PICK k \in Nat : k = Len(s)
  BY EndsFacts
<1>2. h = PairAt(s, 1) /\ \A j \in 1..k : s[j] # None /\ p[s[j]].next = PairAt(s, j + 1)
  BY <1>1, EndsLinks
<1>3. PICK N \in Nat : N + 1 = i /\ N + 1 <= k
  <2>1. i \in 1..k
    BY <1>1
  <2>2. i - 1 \in Nat /\ (i - 1) + 1 = i /\ i <= k
    BY <2>1
  <2> QED BY <2>2
<1> DEFINE w == [d \in 0..N |-> IF s[d + 1] \in A \cup {x} THEN TRUE ELSE FALSE]
<1>4. w[0] \in {TRUE}
  <2>1. 0 \in 0..N /\ 0 + 1 = 1 /\ 1 \in 1..k
    BY <1>3
  <2>2. h = s[1] /\ h # None
    BY <1>1, <1>2, <2>1 DEF PairAt
  <2> QED BY <2>1, <2>2
<1>5. ASSUME NEW d \in 1..N, w[d - 1] \in {TRUE}
      PROVE  w[d] \in {TRUE}
  <2>1. d - 1 \in 0..N /\ (d - 1) + 1 = d /\ d \in 0..N /\ d \in 1..k /\ d + 1 \in 1..k /\ d < N + 1
    <3> HIDE DEF w
    <3> QED BY <1>3
  <2>2. s[d] \in A
    <3>1. s[d] \in A \cup {x}
      BY <1>5, <2>1
    <3>2. s[d] # x
      BY <1>1, <1>3, <2>1 DEF Avoids
    <3> QED BY <3>1, <3>2
  <2>3. PairAt(s, d + 1) \in A \cup {None, x}
    BY <1>2, <2>1, <2>2
  <2>4. PairAt(s, d + 1) = s[d + 1] /\ s[d + 1] # None
    BY <1>1, <1>2, <2>1 DEF PairAt
  <2> QED BY <2>1, <2>3, <2>4
<1>6. \A d \in 0..N : w[d] \in {TRUE}
  <2> HIDE DEF w
  <2> QED BY <1>4, <1>5, Throughout
<1>7. \A d \in 0..N : s[d + 1] \in A \cup {x}
  BY <1>6
<1>8. \A j \in 1..i : j - 1 \in 0..N /\ (j - 1) + 1 = j
  BY <1>3
<1>9. i \in 1..i /\ \A j \in 1..k : j < i => j \in 1..i
  BY <1>3
<1> HIDE DEF w
<1>10. \A j \in 1..i : s[j] \in A \cup {x}
  BY <1>7, <1>8
<1> QED BY <1>1, <1>9, <1>10 DEF StaysIn, Avoids

LEMMA ListWithin ==
  ASSUME NEW p, NEW m \in Nat, m <= MaxNodes, NEW h, NEW s, Ends(p, m, h, s), NEW A, h \in A \cup {None},
         \A n \in A : p[n].next \in A \cup {None}
  PROVE  \A i \in 1..Len(s) : s[i] \in A
<1> TAKE i \in 1..Len(s)
<1>1. None \in {None} /\ (\A n \in A : p[n].next \in A \cup {None, None})
  OBVIOUS
<1>2. \A j \in 1..Len(s) : s[j] # None
  BY EndsLinks
<1>3. s[i] \in A \cup {None}
  <2>1. Avoids(s, None, i)
    BY <1>2 DEF Avoids
  <2>2. StaysIn(s, A, None, i)
    BY <1>1, <2>1, ListStays
  <2> QED BY <2>2 DEF StaysIn
<1> QED BY <1>2, <1>3

-----------------------------------------------------------------------------
(* The map while it grows.                                                 *)

\* The pairs p in A have the elements t of their keys, each key at most once;
Faithful(p, A, t) ==
  /\ \A n \in A : t[p[n].key] = p[n].element
  /\ \A n, x \in A : p[n].key = p[x].key => n = x

\* and every key that is present is among them.
Complete(p, A, t) == \A k \in Keys : t[k] # None => \E n \in A : p[n].key = k

\* The bucket, of d, that pair n belongs to.
Index(k, d) == Hash[k] % d
Home(p, d, n) == Index(p[n].key, d)
Homes(p, d, A) == \A n \in A : Home(p, d, n) \in Buckets

\* Bucket b gets the head x.
Headed(g, h, b, x) == \A c \in Buckets : g[c] = IF c = b THEN x ELSE h[c]

Pairs(q) == {q[i] : i \in 1..Len(q)}

\* What is in q, but not in M, is still linked to the next in q, or to nothing.
Ordered(p, q, M) == \A i \in 1..Len(q) : q[i] \in M \/ p[q[i]].next \in {None, PairAt(q, i + 1)}

\* Of d buckets with heads h, the one of pair n has n in its list, and before n
\* only pairs of M.
Reached(p, m, g, n, M) == \E s : /\ Ends(p, m, g, s)
                                 /\ \E i \in 1..Len(s) : s[i] = n /\ \A j \in 1..Len(s) : j <= i => s[j] \in M

\* The pairs in M have been put into the d buckets with the heads h, those in q are
\* still to be.
Put(p, m, t, h, d, q, M) ==
  /\ M \subseteq 1..m /\ q \in Seq(1..m)
  /\ Faithful(p, M \cup Pairs(q), t) /\ Complete(p, M \cup Pairs(q), t)
  /\ \A b \in Buckets : h[b] \in M \cup {None}
  /\ \A n \in M : p[n].next \in M \cup {None, PairAt(q, 1)}
  /\ \A n \in M : Reached(p, m, h[Home(p, d, n)], n, M)

\* q is x and then r.
Queue(m, q, x, r) ==
  /\ x \in 1..m /\ x = PairAt(q, 1) /\ x = q[1]
  /\ r \in Seq(1..m) /\ Len(r) + 1 = Len(q) /\ Len(r) \in Nat
  /\ \A i \in 1..Len(r) : r[i] = q[i + 1]
  /\ \A i \in 1..Len(q) : PairAt(r, i) = PairAt(q, i + 1)
  /\ Pairs(q) = {x} \cup Pairs(r)

LEMMA QueueFacts ==
  ASSUME NEW m \in Nat, NEW q \in Seq(1..m), q # << >>, NEW x, x = Head(q), NEW r, r = Tail(q)
  PROVE  Queue(m, q, x, r)
<1>1. PICK l \in Nat : l + 1 = Len(q)
  <2>1. Len(q) \in Nat /\ Len(q) # 0
    BY LenProperties, EmptySeq
  <2>2. Len(q) - 1 \in Nat /\ (Len(q) - 1) + 1 = Len(q)
    BY <2>1
  <2> QED BY <2>2
<1>2. x \in 1..m /\ x = q[1] /\ r \in Seq(1..m) /\ Len(r) = l /\ \A i \in 1..l : r[i] = q[i + 1]
  <2>1. Head(q) \in 1..m /\ Tail(q) \in Seq(1..m) /\ Len(Tail(q)) = Len(q) - 1
        /\ \A i \in 1..Len(Tail(q)) : Tail(q)[i] = q[i + 1]
    BY HeadTailProperties
  <2>2. Head(q) = q[1]
    OBVIOUS
  <2>3. Len(q) - 1 = l
    BY <1>1
  <2> QED BY <2>1, <2>2, <2>3
<1>3. 1 \in 1..(l + 1) /\ \A i \in 1..l : i + 1 \in 1..(l + 1)
  OBVIOUS
<1>4. \A i \in 1..(l + 1) : i = 1 \/ \E j \in 1..l : i = j + 1
  <2> TAKE i \in 1..(l + 1)
  <2>1. i # 1 => i - 1 \in 1..l /\ i = (i - 1) + 1
    OBVIOUS
  <2> QED BY <2>1
<1>5. Pairs(q) = {x} \cup Pairs(r)
  <2>1. ASSUME NEW y \in Pairs(q)
        PROVE  y \in {x} \cup Pairs(r)
    <3>1. PICK i \in 1..(l + 1) : y = q[i]
      BY <1>1, <2>1 DEF Pairs
    <3>2. CASE i = 1
      BY <1>2, <3>1, <3>2
    <3>3. CASE i # 1
      <4>1. PICK j \in 1..l : i = j + 1
        BY <1>4, <3>3
      <4>2. y = r[j]
        BY <1>2, <3>1, <4>1
      <4> QED BY <1>2, <4>2 DEF Pairs
    <3> QED BY <3>2, <3>3
  <2>2. ASSUME NEW y \in Pairs(r)
        PROVE  y \in Pairs(q)
    <3>1. PICK j \in 1..l : y = r[j]
      BY <1>2, <2>2 DEF Pairs
    <3>2. y = q[j + 1] /\ j + 1 \in 1..(l + 1)
      BY <1>2, <1>3, <3>1
    <3> QED BY <1>1, <3>2 DEF Pairs
  <2>3. x \in Pairs(q)
    BY <1>1, <1>2, <1>3 DEF Pairs
  <2> QED BY <2>1, <2>2, <2>3
<1>6. \A i \in 1..(l + 1) : PairAt(r, i) = PairAt(q, i + 1)
  <2> TAKE i \in 1..(l + 1)
  <2>1. i \in 1..l <=> i + 1 \in 1..(l + 1)
    OBVIOUS
  <2> QED BY <1>1, <1>2, <2>1 DEF PairAt
<1>7. x = PairAt(q, 1)
  BY <1>1, <1>2, <1>3 DEF PairAt
<1> QED BY <1>1, <1>2, <1>5, <1>6, <1>7 DEF Queue

\* After the first has been put, the others are in order.
LEMMA OrderedOn ==
  ASSUME NEW m \in Nat, NEW q \in Seq(1..m), q # << >>, NEW x, x = Head(q), NEW r, r = Tail(q),
         NEW p, NEW M, Ordered(p, q, M)
  PROVE  Ordered(p, r, M \cup {x}) /\ (x \in M \/ p[x].next \in {None, PairAt(r, 1)})
<1>0. Queue(m, q, x, r)
  BY QueueFacts
<1>1. PICK l \in Nat : l = Len(r) /\ l + 1 = Len(q)
  BY <1>0 DEF Queue
<1>2. x = q[1] /\ (\A i \in 1..l : r[i] = q[i + 1]) /\ \A i \in 1..(l + 1) : PairAt(r, i) = PairAt(q, i + 1)
  <2>1. \A i \in 1..Len(q) : PairAt(r, i) = PairAt(q, i + 1)
    BY <1>0 DEF Queue
  <2>2. (\A i \in 1..Len(r) : r[i] = q[i + 1]) /\ x = q[1]
    BY <1>0 DEF Queue
  <2> QED BY <1>1, <2>1, <2>2
<1>3. \A i \in 1..(l + 1) : q[i] \in M \/ p[q[i]].next \in {None, PairAt(q, i + 1)}
  BY <1>1 DEF Ordered
<1>4. 1 \in 1..(l + 1) /\ \A i \in 1..l : i + 1 \in 1..(l + 1)
  OBVIOUS
<1>5. x \in M \/ p[x].next \in {None, PairAt(r, 1)}
  BY <1>2, <1>3, <1>4
<1>6. \A i \in 1..l : r[i] \in M \/ p[r[i]].next \in {None, PairAt(r, i + 1)}
  BY <1>2, <1>3, <1>4
<1> QED BY <1>1, <1>5, <1>6 DEF Ordered

\* The list of a pair begins with it.
LEMMA ReachedAtHead ==
  ASSUME NEW p, NEW m \in Nat, m <= MaxNodes, AllEnd(p, m), NEW n \in 1..m, NEW M, n \in M
  PROVE  Reached(p, m, n, n, M)
<1>1. PICK s : Ends(p, m, n, s)
  BY DEF AllEnd
<1>2. n # None
  BY CMapAssumption
<1>3. 1 \in 1..Len(s) /\ s[1] = n /\ Len(s) \in Nat
  <2>1. 1 \in 1..Len(s) /\ s[1] = n
    BY <1>1, <1>2, EndsTail
  <2>2. Len(s) \in Nat
    BY <1>1, EndsFacts
  <2> QED BY <2>1, <2>2
<1>4. \A j \in 1..Len(s) : j <= 1 => s[j] \in M
  <2>1. \A j \in 1..Len(s) : j <= 1 => j = 1
    BY <1>3
  <2> QED BY <1>3, <2>1
<1> QED BY <1>1, <1>3, <1>4 DEF Reached

\* The first, x, of the pairs is put into its bucket, which is empty.
LEMMA PutIntoEmpty ==
  ASSUME NEW p, NEW m \in Nat, m <= MaxNodes, AllEnd(p, m), NEW t, NEW h, NEW d, NEW q, q # << >>, NEW M,
         Put(p, m, t, h, d, q, M), Ordered(p, q, M), NEW x, x = Head(q), NEW r, r = Tail(q),
         NEW b, b = Home(p, d, x), h[b] = None,
         NEW g, Headed(g, h, b, x),
         Homes(p, d, M \cup {x})
  PROVE  Put(p, m, t, g, d, r, M \cup {x}) /\ Ordered(p, r, M \cup {x})
<1>0. /\ \A n \in M \cup {x} : Home(p, d, n) \in Buckets
      /\ \A c \in Buckets : g[c] = IF c = b THEN x ELSE h[c]
  BY DEF Homes, Headed
<1>1. /\ x \in 1..m /\ x = PairAt(q, 1) /\ r \in Seq(1..m) /\ Pairs(q) = {x} \cup Pairs(r) /\ q \in Seq(1..m)
  <2>1. q \in Seq(1..m)
    BY DEF Put
  <2>2. Queue(m, q, x, r)
    BY <2>1, QueueFacts
  <2> QED BY <2>1, <2>2 DEF Queue
<1>2. Ordered(p, r, M \cup {x}) /\ (x \in M \/ p[x].next \in {None, PairAt(r, 1)})
  BY <1>1, OrderedOn
<1>3. M \cup Pairs(q) = (M \cup {x}) \cup Pairs(r)
  BY <1>1
<1>4. \A n \in M : Home(p, d, n) # b
  <2> SUFFICES ASSUME NEW n \in M, Home(p, d, n) = b
               PROVE  FALSE
    OBVIOUS
  <2>1. Reached(p, m, None, n, M)
    BY DEF Put
  <2>2. PICK s : Ends(p, m, None, s) /\ \E i \in 1..Len(s) : s[i] = n
    BY <2>1 DEF Reached
  <2>3. Ends(p, m, None, << >>)
    BY DEF Ends, ListOf, Once, PairAt
  <2>4. s = << >>
    BY <2>2, <2>3, EndsOnce
  <2> QED BY <2>2, <2>4
<1>5. x \notin M
  BY <1>4
<1>6. ASSUME NEW n \in M
      PROVE  Reached(p, m, g[Home(p, d, n)], n, M \cup {x})
  <2>1. Reached(p, m, h[Home(p, d, n)], n, M)
    BY DEF Put
  <2>2. g[Home(p, d, n)] = h[Home(p, d, n)]
    BY <1>0, <1>4
  <2> QED BY <2>1, <2>2 DEF Reached
<1>7. Reached(p, m, g[Home(p, d, x)], x, M \cup {x})
  <2>1. g[Home(p, d, x)] = x
    BY <1>0
  <2>2. PICK A : A = M \cup {x} /\ x \in A
    OBVIOUS
  <2>3. Reached(p, m, x, x, A)
    BY <1>1, <2>2, ReachedAtHead
  <2> QED BY <2>1, <2>2, <2>3
<1>8. \A n \in M \cup {x} : p[n].next \in (M \cup {x}) \cup {None, PairAt(r, 1)}
  <2>1. \A n \in M : p[n].next \in M \cup {None, x}
    BY <1>1 DEF Put
  <2> QED BY <1>2, <1>5, <2>1
<1>9. \A c \in Buckets : g[c] \in (M \cup {x}) \cup {None}
  BY <1>0 DEF Put
<1>10. M \cup {x} \subseteq 1..m /\ Faithful(p, (M \cup {x}) \cup Pairs(r), t)
       /\ Complete(p, (M \cup {x}) \cup Pairs(r), t)
  BY <1>1, <1>3 DEF Put
<1>11. \A n \in M \cup {x} : Reached(p, m, g[Home(p, d, n)], n, M \cup {x})
  BY <1>6, <1>7
<1>12. Put(p, m, t, g, d, r, M \cup {x})
  BY <1>1, <1>8, <1>9, <1>10, <1>11 DEF Put
<1> QED BY <1>2, <1>12

LEMMA ReachedMore ==
  ASSUME NEW p, NEW m, NEW g, NEW n, NEW M, NEW A, M \subseteq A, Reached(p, m, g, n, M)
  PROVE  Reached(p, m, g, n, A)
BY DEF Reached

\* The lists of the buckets have only pairs that were put or are still to be.
LEMMA ListsWithin ==
  ASSUME NEW p, NEW m \in Nat, m <= MaxNodes, NEW t, NEW h, NEW d, NEW q, NEW M,
         Put(p, m, t, h, d, q, M), Ordered(p, q, M), NEW b \in Buckets,
         NEW c, Ends(p, m, h[b], c)
  PROVE  \A i \in 1..Len(c) : c[i] \in M \cup Pairs(q)
<1> DEFINE A == M \cup Pairs(q)
<1>1. \A i : PairAt(q, i) \in A \cup {None}
  BY DEF PairAt, Pairs
<1>2. \A n \in M : p[n].next \in A \cup {None}
  <2>1. \A n \in M : p[n].next \in M \cup {None, PairAt(q, 1)}
    BY DEF Put
  <2> QED BY <1>1, <2>1
<1>3. \A n \in Pairs(q) : p[n].next \in A \cup {None}
  BY <1>1, <1>2 DEF Pairs, Ordered
<1>4. h[b] \in A \cup {None}
  BY DEF Put
<1>5. \A n \in A : p[n].next \in A \cup {None}
  BY <1>2, <1>3
<1> HIDE DEF A
<1>6. \A i \in 1..Len(c) : c[i] \in A
  <2>1. PICK f : f = h[b]
    OBVIOUS
  <2>2. Ends(p, m, f, c) /\ f \in A \cup {None}
    BY <1>4, <2>1
  <2> QED BY <1>5, <2>2, ListWithin
<1> QED BY <1>6 DEF A

Alone(p, c, x) == \A i \in 1..Len(c) : p[c[i]].key = p[x].key => c[i] = x

\* What has the key of the first of q is that pair itself.
LEMMA FoundIsTheSame ==
  ASSUME NEW p, NEW m \in Nat, m <= MaxNodes, NEW t, NEW h, NEW d, NEW q, q # << >>, NEW M,
         Put(p, m, t, h, d, q, M), Ordered(p, q, M), NEW x, x = Head(q), NEW b \in Buckets,
         NEW c, Ends(p, m, h[b], c)
  PROVE  Alone(p, c, x)
<1>1. \A i \in 1..Len(c) : c[i] \in M \cup Pairs(q)
  BY ListsWithin
<1>2. q \in Seq(1..m) /\ Faithful(p, M \cup Pairs(q), t)
  BY DEF Put
<1>3. x \in Pairs(q)
  <2>1. PICK r : r = Tail(q)
    OBVIOUS
  <2>2. Queue(m, q, x, r)
    BY <1>2, <2>1, QueueFacts
  <2> QED BY <2>2 DEF Queue
<1> QED BY <1>1, <1>2, <1>3 DEF Faithful, Alone

\* The first, x, of the pairs is in the list of its bucket already.
LEMMA PutIntoList ==
  ASSUME NEW p, NEW m \in Nat, m <= MaxNodes, NEW t, NEW h, NEW d, NEW q, q # << >>, NEW M,
         Put(p, m, t, h, d, q, M), Ordered(p, q, M), NEW x, x = Head(q), NEW r, r = Tail(q),
         NEW b \in Buckets, b = Home(p, d, x),
         NEW c, Ends(p, m, h[b], c), NEW i \in 1..Len(c), p[c[i]].key = p[x].key
  PROVE  Put(p, m, t, h, d, r, M \cup {x}) /\ Ordered(p, r, M \cup {x})
<1>1. /\ x \in 1..m /\ x = PairAt(q, 1) /\ r \in Seq(1..m) /\ Pairs(q) = {x} \cup Pairs(r) /\ q \in Seq(1..m)
  <2>1. q \in Seq(1..m)
    BY DEF Put
  <2>2. Queue(m, q, x, r)
    BY <2>1, QueueFacts
  <2> QED BY <2>1, <2>2 DEF Queue
<1>2. Ordered(p, r, M \cup {x}) /\ (x \in M \/ p[x].next \in {None, PairAt(r, 1)})
  BY <1>1, OrderedOn
<1>3. M \cup Pairs(q) = (M \cup {x}) \cup Pairs(r)
  BY <1>1
<1>4. c[i] = x
  <2>1. Alone(p, c, x)
    BY FoundIsTheSame
  <2> QED BY <2>1 DEF Alone
<1>5. \A n \in M : p[n].next \in M \cup {None, x}
  BY <1>1 DEF Put
<1>6. \A n \in M \cup {x} : p[n].next \in (M \cup {x}) \cup {None, PairAt(r, 1)}
  BY <1>2, <1>5
<1>7. Reached(p, m, h[b], x, M \cup {x})
  <2>1. CASE x \in M
    <3>1. Reached(p, m, h[b], x, M) /\ M \subseteq M \cup {x}
      BY <2>1 DEF Put
    <3> QED BY <3>1, ReachedMore
  <2>2. CASE x \notin M
    <3>1. \A j \in 1..Len(c) : j < i => c[j] # x
      <4>1. Once(c) /\ Len(c) \in Nat
        <5>1. Len(c) \in Nat
          BY EndsFacts
        <5> QED BY <5>1 DEF Ends
      <4> QED BY <1>4, <4>1 DEF Once
    <3>2. h[b] \in M \cup {None}
      BY DEF Put
    <3>3. PICK f : f = h[b]
      OBVIOUS
    <3>4. \A j \in 1..Len(c) : j < i => c[j] \in M
      <4>1. Ends(p, m, f, c) /\ f \in M \cup {None}
        BY <3>2, <3>3
      <4>2. Avoids(c, x, i)
        BY <3>1 DEF Avoids
      <4>3. StaysIn(c, M, x, i)
        BY <1>5, <4>1, <4>2, ListStays
      <4> QED BY <4>3 DEF StaysIn
    <3>5. \A j \in 1..Len(c) : j <= i => c[j] \in M \cup {x}
      <4>1. Len(c) \in Nat
        BY EndsFacts
      <4>2. \A j \in 1..Len(c) : j <= i => j = i \/ j < i
        BY <4>1
      <4> QED BY <1>4, <3>4, <4>2
    <3> QED BY <1>4, <3>5 DEF Reached
  <2> QED BY <2>1, <2>2
<1>8. \A n \in M \cup {x} : Reached(p, m, h[Home(p, d, n)], n, M \cup {x})
  <2>1. ASSUME NEW n \in M
        PROVE  Reached(p, m, h[Home(p, d, n)], n, M \cup {x})
    <3>1. PICK g : g = h[Home(p, d, n)]
      OBVIOUS
    <3>2. Reached(p, m, g, n, M) /\ M \subseteq M \cup {x}
      BY <3>1 DEF Put
    <3> QED BY <3>1, <3>2, ReachedMore
  <2> QED BY <1>7, <2>1
<1>9. \A e \in Buckets : h[e] \in (M \cup {x}) \cup {None}
  BY DEF Put
<1>10. M \cup {x} \subseteq 1..m /\ Faithful(p, (M \cup {x}) \cup Pairs(r), t)
       /\ Complete(p, (M \cup {x}) \cup Pairs(r), t)
  BY <1>1, <1>3 DEF Put
<1>11. Put(p, m, t, h, d, r, M \cup {x})
  BY <1>1, <1>6, <1>8, <1>9, <1>10 DEF Put
<1> QED BY <1>2, <1>11

Lacks(c, x) == \A i \in 1..Len(c) : c[i] # x

\* The pairs q are p, but that x is linked to f.
Links(p, q, m, x, f) ==
  \A n \in 1..m : /\ q[n].key = p[n].key /\ q[n].element = p[n].element
                  /\ q[n].next = IF n = x THEN f ELSE p[n].next

\* The first, x, of the pairs is linked to the list of its bucket, not having
\* been in it.
LEMMA PutLinked ==
  ASSUME NEW p, NEW m \in Nat, m <= MaxNodes, NEW t, NEW h, NEW d, NEW q, q # << >>, NEW M,
         Put(p, m, t, h, d, q, M), Ordered(p, q, M), NEW x, x = Head(q), NEW r, r = Tail(q),
         NEW b \in Buckets, b = Home(p, d, x),
         NEW c, Ends(p, m, h[b], c), Lacks(c, x),
         NEW v, Links(p, v, m, x, h[b]), AllEnd(v, m)
  PROVE  /\ x \notin M /\ Put(v, m, t, h, d, q, M) /\ Ordered(v, r, M \cup {x})
<1>0. M \subseteq 1..m /\ q \in Seq(1..m)
  BY DEF Put
<1>1. x \in 1..m /\ x = PairAt(q, 1) /\ r \in Seq(1..m) /\ Pairs(q) = {x} \cup Pairs(r)
  <2>2. Queue(m, q, x, r)
    BY <1>0, QueueFacts
  <2> QED BY <2>2 DEF Queue
<1>2. Ordered(p, r, M \cup {x})
  BY <1>0, OrderedOn
<1>3. x \notin M
  <2> SUFFICES ASSUME x \in M
               PROVE  FALSE
    OBVIOUS
  <2>1. Reached(p, m, h[b], x, M)
    BY DEF Put
  <2>2. PICK s : Ends(p, m, h[b], s) /\ \E i \in 1..Len(s) : s[i] = x
    BY <2>1 DEF Reached
  <2>3. PICK f : f = h[b]
    OBVIOUS
  <2>4. Ends(p, m, f, s) /\ Ends(p, m, f, c)
    BY <2>2, <2>3
  <2>5. s = c
    BY <2>4, EndsOnce
  <2> QED BY <2>2, <2>5 DEF Lacks
<1>4. \A i \in 1..Len(r) : r[i] \in 1..m
  BY <1>1, ElementOfSeq
<1>5. Ordered(v, r, M \cup {x})
  BY <1>2, <1>4 DEF Ordered, Links
<1>6. M \cup Pairs(q) \subseteq 1..m
  BY <1>0, <1>1, <1>4 DEF Pairs
<1>7. Faithful(v, M \cup Pairs(q), t) /\ Complete(v, M \cup Pairs(q), t)
  <2>1. \A n \in M \cup Pairs(q) : v[n].key = p[n].key /\ v[n].element = p[n].element
    BY <1>6 DEF Links
  <2>2. PICK A : A = M \cup Pairs(q)
    OBVIOUS
  <2>3. Faithful(p, A, t) /\ Complete(p, A, t) /\ \A n \in A : v[n].key = p[n].key /\ v[n].element = p[n].element
    BY <2>1, <2>2 DEF Put
  <2>4. Faithful(v, A, t)
    BY <2>3 DEF Faithful
  <2>5. Complete(v, A, t)
    BY <2>3 DEF Complete
  <2> QED BY <2>2, <2>4, <2>5
<1>8. \A n \in M : v[n].key = p[n].key /\ v[n].next = p[n].next
  BY <1>0, <1>3 DEF Links
<1>9. \A n \in M : v[n].next \in M \cup {None, PairAt(q, 1)}
  BY <1>8 DEF Put
<1>10. ASSUME NEW n \in M
       PROVE  Reached(v, m, h[Home(v, d, n)], n, M)
  <2>1. PICK g : g = h[Home(p, d, n)]
    OBVIOUS
  <2>2. Reached(p, m, g, n, M)
    BY <2>1 DEF Put
  <2>3. PICK s : /\ Ends(p, m, g, s)
                 /\ \E i \in 1..Len(s) : s[i] = n /\ \A j \in 1..Len(s) : j <= i => s[j] \in M
    BY <2>2 DEF Reached
  <2>4. PICK i \in 1..Len(s) : s[i] = n /\ \A j \in 1..Len(s) : j <= i => s[j] \in M
    BY <2>3
  <2>5. Len(s) \in Nat /\ g = PairAt(s, 1) /\ \A j \in 1..Len(s) : s[j] \in 1..m
    <3>1. Linked(p, m, g, s)
      BY <2>3, EndsLinked
    <3> QED BY <3>1 DEF Linked
  <2>6. g \in 1..m
    <3>1. 1 \in 1..Len(s)
      BY <2>5
    <3> QED BY <2>5, <3>1 DEF PairAt
  <2>7. PICK u : Ends(v, m, g, u)
    BY <2>6 DEF AllEnd
  <2>8. SameUpto(s, u, i)
    <3>1. SameNext(p, v, s, i)
      <4>1. \A j \in 1..Len(s) : j < i => j <= i
        BY <2>5
      <4> QED BY <1>8, <2>4, <4>1 DEF SameNext
    <3>2. Ends(p, m, g, s)
      BY <2>3
    <3> QED BY <2>4, <2>7, <3>1, <3>2, ListsAgree
  <2>9. i \in 1..Len(u) /\ \A j \in 1..i : u[j] = s[j]
    BY <2>8 DEF SameUpto
  <2>10. u[i] = n /\ \A j \in 1..Len(u) : j <= i => u[j] \in M
    <3>1. i \in 1..i /\ \A j \in 1..Len(u) : j <= i => j \in 1..i /\ j \in 1..Len(s)
      <4>1. Len(u) \in Nat
        BY <2>7, EndsFacts
      <4> QED BY <2>5, <4>1
    <3> QED BY <2>4, <2>9, <3>1
  <2>11. Reached(v, m, g, n, M)
    BY <2>7, <2>9, <2>10 DEF Reached
  <2>12. Home(v, d, n) = Home(p, d, n)
    BY <1>8, Zenon DEF Home
  <2> QED BY <2>1, <2>11, <2>12
<1>11. Put(v, m, t, h, d, q, M)
  BY <1>0, <1>7, <1>9, <1>10 DEF Put
<1> QED BY <1>3, <1>5, <1>11

\* The first, x, of the pairs becomes the head of its bucket, being linked to
\* what was.
LEMMA PutAtHead ==
  ASSUME NEW p, NEW m \in Nat, m <= MaxNodes, AllEnd(p, m), NEW t, NEW h, NEW d, NEW q, q # << >>, NEW M,
         Put(p, m, t, h, d, q, M), NEW x, x = Head(q), x \notin M, NEW r, r = Tail(q),
         NEW b \in Buckets, b = Home(p, d, x), h[b] # None, p[x].next = h[b],
         NEW g, Headed(g, h, b, x),
         Homes(p, d, M \cup {x})
  PROVE  Put(p, m, t, g, d, r, M \cup {x})
<1>0. M \subseteq 1..m /\ q \in Seq(1..m)
  BY DEF Put
<1>14. /\ \A n \in M \cup {x} : Home(p, d, n) \in Buckets
      /\ \A c \in Buckets : g[c] = IF c = b THEN x ELSE h[c]
  BY DEF Homes, Headed
<1>1. x \in 1..m /\ x = PairAt(q, 1) /\ r \in Seq(1..m) /\ Pairs(q) = {x} \cup Pairs(r)
  <2>2. Queue(m, q, x, r)
    BY <1>0, QueueFacts
  <2> QED BY <2>2 DEF Queue
<1>2. M \cup Pairs(q) = (M \cup {x}) \cup Pairs(r)
  BY <1>1
<1>3. PICK u : Ends(p, m, x, u)
  BY <1>1 DEF AllEnd
<1>4. PICK s : /\ 1 \in 1..Len(u) /\ u[1] = x
               /\ Ends(p, m, h[b], s) /\ Follow(u, s)
  <2>1. x # None
    BY <1>1, CMapAssumption
  <2>2. /\ 1 \in 1..Len(u) /\ u[1] = x /\ x \in 1..m
        /\ \E y : Ends(p, m, p[x].next, y) /\ Follow(u, y)
    BY <1>3, <2>1, EndsTail
  <2> QED BY <2>2
<1>5. PICK l \in Nat : l = Len(s) /\ l + 1 = Len(u)
  <2>1. PICK f : f = h[b]
    OBVIOUS
  <2>2. Ends(p, m, f, s)
    BY <1>4, <2>1
  <2>3. Len(s) \in Nat
    BY <2>2, EndsFacts
  <2> QED BY <1>4, <2>3 DEF Follow
<1>6. \A i \in 1..l : u[i + 1] = s[i]
  BY <1>4, <1>5 DEF Follow
<1>7. ASSUME NEW n \in M, Home(p, d, n) = b
      PROVE  Reached(p, m, x, n, M \cup {x})
  <2>1. Reached(p, m, h[b], n, M)
    BY <1>7 DEF Put
  <2>2. PICK y : /\ Ends(p, m, h[b], y)
                 /\ \E i \in 1..Len(y) : y[i] = n /\ \A j \in 1..Len(y) : j <= i => y[j] \in M
    BY <2>1 DEF Reached
  <2>3. y = s
    <3>1. PICK f : f = h[b]
      OBVIOUS
    <3>2. Ends(p, m, f, y) /\ Ends(p, m, f, s)
      BY <1>4, <2>2, <3>1
    <3> QED BY <3>2, EndsOnce
  <2>4. PICK i \in 1..l : s[i] = n /\ \A j \in 1..l : j <= i => s[j] \in M
    BY <1>5, <2>2, <2>3
  <2>5. i + 1 \in 1..(l + 1) /\ u[i + 1] = n
    BY <1>6, <2>4
  <2>6. ASSUME NEW j \in 1..(l + 1), j <= i + 1
        PROVE  u[j] \in M \cup {x}
    <3>1. CASE j = 1
      BY <1>4, <3>1
    <3>2. CASE j # 1
      <4>1. j - 1 \in 1..l /\ j - 1 <= i /\ (j - 1) + 1 = j
        BY <2>6, <3>2
      <4>2. u[j] = s[j - 1]
        BY <1>6, <4>1
      <4> QED BY <2>4, <4>1, <4>2
    <3> QED BY <3>1, <3>2
  <2>7. PICK z : z = i + 1
    OBVIOUS
  <2>8. z \in 1..Len(u) /\ u[z] = n /\ \A j \in 1..Len(u) : j <= z => u[j] \in M \cup {x}
    BY <1>5, <2>5, <2>6, <2>7
  <2> QED BY <1>3, <2>8 DEF Reached
<1>8. ASSUME NEW n \in M
      PROVE  Reached(p, m, g[Home(p, d, n)], n, M \cup {x})
  <2>1. CASE Home(p, d, n) = b
    <3>1. g[b] = x
      BY <1>14
    <3> QED BY <1>7, <2>1, <3>1
  <2>2. CASE Home(p, d, n) # b
    <3>1. PICK f : f = h[Home(p, d, n)]
      OBVIOUS
    <3>2. Reached(p, m, f, n, M) /\ M \subseteq M \cup {x}
      BY <3>1 DEF Put
    <3>3. g[Home(p, d, n)] = f
      BY <1>14, <2>2, <3>1
    <3> QED BY <3>2, <3>3, ReachedMore
  <2> QED BY <2>1, <2>2
<1>9. Reached(p, m, g[Home(p, d, x)], x, M \cup {x})
  <2>1. g[Home(p, d, x)] = x
    BY <1>14
  <2>2. PICK A : A = M \cup {x} /\ x \in A
    OBVIOUS
  <2>3. Reached(p, m, x, x, A)
    BY <1>1, <2>2, ReachedAtHead
  <2> QED BY <2>1, <2>2, <2>3
<1>10. \A n \in M \cup {x} : p[n].next \in (M \cup {x}) \cup {None, PairAt(r, 1)}
  <2>1. \A n \in M : p[n].next \in M \cup {None, x}
    BY <1>1 DEF Put
  <2>2. h[b] \in M
    BY DEF Put
  <2> QED BY <2>1, <2>2
<1>11. \A c \in Buckets : g[c] \in (M \cup {x}) \cup {None}
  BY <1>14 DEF Put
<1>12. M \cup {x} \subseteq 1..m /\ Faithful(p, (M \cup {x}) \cup Pairs(r), t)
       /\ Complete(p, (M \cup {x}) \cup Pairs(r), t)
  BY <1>1, <1>2 DEF Put
<1>13. \A n \in M \cup {x} : Reached(p, m, g[Home(p, d, n)], n, M \cup {x})
  BY <1>8, <1>9
<1> QED BY <1>1, <1>10, <1>11, <1>12, <1>13 DEF Put

-----------------------------------------------------------------------------
(* Collecting the pairs of all buckets.                                    *)

\* q is s and then r.
Concats(p, m, s, r, q) == q \in Seq(1..m) /\ Ordered(p, q, {}) /\ Pairs(q) = Pairs(s) \cup Pairs(r)

LEMMA OrderedJoin ==
  ASSUME NEW p, NEW m \in Nat, NEW s \in Seq(1..m), NEW r \in Seq(1..m),
         Ordered(p, s, {}), Ordered(p, r, {}), NEW q, q = s \o r
  PROVE  Concats(p, m, s, r, q)
<1>1. PICK k, l \in Nat : k = Len(s) /\ l = Len(r)
  BY LenProperties
<1>2. /\ q \in Seq(1..m) /\ Len(q) = k + l
      /\ \A i \in 1..(k + l) : q[i] = IF i <= k THEN s[i] ELSE r[i - k]
  BY <1>1, ConcatProperties
<1>3. (\A i \in 1..k : i \in 1..(k + l) /\ i <= k) /\ (\A i \in 1..l : k + i \in 1..(k + l) /\ ~(k + i <= k) /\ (k + i) - k = i)
      /\ \A i \in 1..(k + l) : i \in 1..k \/ \E j \in 1..l : i = k + j
  <2>1. \A i \in 1..(k + l) : i \in 1..k \/ (i - k \in 1..l /\ i = k + (i - k))
    OBVIOUS
  <2>2. (\A i \in 1..k : i \in 1..(k + l) /\ i <= k) /\ (\A i \in 1..l : k + i \in 1..(k + l) /\ ~(k + i <= k) /\ (k + i) - k = i)
    OBVIOUS
  <2> QED BY <2>1, <2>2
<1>4. (\A i \in 1..k : q[i] = s[i]) /\ \A i \in 1..l : q[k + i] = r[i]
  <2>1. \A i \in 1..k : q[i] = s[i]
    BY <1>2, <1>3
  <2>2. ASSUME NEW i \in 1..l
        PROVE  q[k + i] = r[i]
    <3>1. k + i \in 1..(k + l) /\ ~(k + i <= k) /\ (k + i) - k = i
      BY <1>3
    <3> QED BY <1>2, <3>1
  <2> QED BY <2>1, <2>2
<1>5. Pairs(q) = Pairs(s) \cup Pairs(r)
  <2>0. /\ Pairs(s) = {s[i] : i \in 1..k} /\ Pairs(r) = {r[i] : i \in 1..l}
        /\ Pairs(q) = {q[i] : i \in 1..(k + l)}
    BY <1>1, <1>2 DEF Pairs
  <2>1. ASSUME NEW i \in 1..(k + l)
        PROVE  q[i] \in Pairs(s) \cup Pairs(r)
    <3>1. CASE i \in 1..k
      BY <1>4, <2>0, <3>1
    <3>2. CASE i \notin 1..k
      <4>1. PICK j \in 1..l : i = k + j
        BY <1>3, <3>2
      <4> QED BY <1>4, <2>0, <4>1
    <3> QED BY <3>1, <3>2
  <2>6. \A j \in 1..(k + l) : q[j] \in Pairs(q)
    BY <2>0
  <2>2. ASSUME NEW i \in 1..k
        PROVE  s[i] \in Pairs(q)
    <3>1. q[i] = s[i] /\ i \in 1..(k + l)
      BY <1>3, <1>4
    <3> QED BY <2>6, <3>1
  <2>3. ASSUME NEW i \in 1..l
        PROVE  r[i] \in Pairs(q)
    <3>1. q[k + i] = r[i] /\ k + i \in 1..(k + l)
      BY <1>3, <1>4
    <3> QED BY <2>6, <3>1
  <2>4. Pairs(q) \subseteq Pairs(s) \cup Pairs(r)
    BY <2>0, <2>1
  <2>5. Pairs(s) \subseteq Pairs(q) /\ Pairs(r) \subseteq Pairs(q)
    BY <2>0, <2>2, <2>3
  <2> QED BY <2>4, <2>5
<1>6. ASSUME NEW i \in 1..k
      PROVE  p[s[i]].next \in {None, PairAt(q, i + 1)}
  <2>1. p[s[i]].next \in {None, PairAt(s, i + 1)}
    BY <1>1 DEF Ordered
  <2>2. CASE i + 1 \in 1..k
    BY <1>1, <1>2, <1>3, <1>4, <2>1, <2>2 DEF PairAt
  <2>3. CASE i + 1 \notin 1..k
    BY <1>1, <2>1, <2>3 DEF PairAt
  <2> QED BY <2>2, <2>3
<1>7. ASSUME NEW i \in 1..l
      PROVE  p[r[i]].next \in {None, PairAt(q, (k + i) + 1)}
  <2>1. p[r[i]].next \in {None, PairAt(r, i + 1)}
    BY <1>1 DEF Ordered
  <2>2. CASE i + 1 \in 1..l
    <3>1. k + (i + 1) = (k + i) + 1
      OBVIOUS
    <3>2. q[(k + i) + 1] = r[i + 1] /\ (k + i) + 1 \in 1..(k + l)
      BY <1>3, <1>4, <2>2, <3>1
    <3> QED BY <1>1, <1>2, <2>1, <2>2, <3>2 DEF PairAt
  <2>3. CASE i + 1 \notin 1..l
    BY <1>1, <2>1, <2>3 DEF PairAt
  <2> QED BY <2>2, <2>3
<1>8. ASSUME NEW i \in 1..(k + l)
      PROVE  p[q[i]].next \in {None, PairAt(q, i + 1)}
  <2>1. CASE i \in 1..k
    BY <1>4, <1>6, <2>1
  <2>2. CASE i \notin 1..k
    <3>1. PICK j \in 1..l : i = k + j
      BY <1>3, <2>2
    <3> QED BY <1>4, <1>7, <3>1
  <2> QED BY <2>1, <2>2
<1>9. Ordered(p, q, {})
  BY <1>2, <1>8 DEF Ordered
<1> QED BY <1>2, <1>5, <1>9 DEF Concats

\* n is in the list of one of N buckets.
InSome(p, m, h, N, n) == \E b \in 0..N - 1 : \E s : Ends(p, m, h[b], s) /\ n \in Pairs(s)

AllListed(p, m, h, N) == \A b \in 0..N - 1 : \E s : Ends(p, m, h[b], s)

LEMMA AllOfIs ==
  ASSUME NEW p, NEW h, NEW m \in Nat, m <= MaxNodes, NEW N \in Nat,
         \A b \in 0..N - 1 : h[b] \in (1..m) \cup {None},
         \A i \in 1..m : p[i].next \in (1..m) \cup {None},
         AllListed(p, m, h, N), NEW q, q = AllOf(p, h, N)
  PROVE  /\ q \in Seq(1..m) /\ Ordered(p, q, {})
         /\ \A n : n \in Pairs(q) <=> InSome(p, m, h, N, n)
<1>1. PICK w : Collects(p, h, m, N, w)
  BY AllFollows
<1>2. /\ w[0] = << >> /\ q = w[N]
      /\ \A i \in 1..N : w[i] = w[i - 1] \o ChainOf(p, h[i - 1])
  BY <1>1 DEF Collects
<1>3. ASSUME NEW i \in 1..N
      PROVE  \E s : /\ Ends(p, m, h[i - 1], s) /\ ChainOf(p, h[i - 1]) = s /\ s \in Seq(1..m)
                    /\ Ordered(p, s, {}) /\ i - 1 \in 0..N - 1
  <2>1. i - 1 \in 0..N - 1
    OBVIOUS
  <2>2. PICK s : Ends(p, m, h[i - 1], s)
    BY <2>1 DEF AllListed
  <2>3. PICK f : f = h[i - 1]
    OBVIOUS
  <2>4. Ends(p, m, f, s)
    BY <2>2, <2>3
  <2>5. ChainOf(p, f) = s /\ s \in Seq(1..m)
    BY <2>4, EndsFacts
  <2>6. Linked(p, m, f, s)
    BY <2>4, EndsLinked
  <2>7. Ordered(p, s, {})
    BY <2>6 DEF Linked, Ordered
  <2> QED BY <2>1, <2>2, <2>3, <2>5, <2>7
<1> DEFINE D == {x \in Seq(1..m) : Ordered(p, x, {}) /\ \A n \in Pairs(x) : InSome(p, m, h, N, n)}
<1>4. w[0] \in D
  <2>1. << >> \in Seq(1..m) /\ Pairs(<< >>) = {} /\ Ordered(p, << >>, {})
    BY DEF Pairs, Ordered
  <2> QED BY <1>2, <2>1
<1>5. ASSUME NEW i \in 1..N, w[i - 1] \in D
      PROVE  w[i] \in D
  <2>1. PICK s : /\ Ends(p, m, h[i - 1], s) /\ ChainOf(p, h[i - 1]) = s /\ s \in Seq(1..m)
                 /\ Ordered(p, s, {}) /\ i - 1 \in 0..N - 1
    BY <1>3
  <2>2. PICK x, y : x = w[i - 1] /\ y = w[i]
    OBVIOUS
  <2>3. x \in Seq(1..m) /\ Ordered(p, x, {}) /\ y = x \o s
    BY <1>2, <1>5, <2>1, <2>2
  <2>4. y \in Seq(1..m) /\ Ordered(p, y, {}) /\ Pairs(y) = Pairs(x) \cup Pairs(s)
    <3>1. Concats(p, m, x, s, y)
      BY <2>1, <2>3, OrderedJoin
    <3> QED BY <3>1 DEF Concats
  <2>5. \A n \in Pairs(s) : InSome(p, m, h, N, n)
    BY <2>1 DEF InSome
  <2>6. \A n \in Pairs(y) : InSome(p, m, h, N, n)
    BY <1>5, <2>2, <2>4, <2>5
  <2> QED BY <2>2, <2>4, <2>6
<1>6. \A i \in 0..N : w[i] \in D
  <2> HIDE DEF D
  <2> QED BY <1>4, <1>5, Throughout
<1>7. N \in 0..N
  OBVIOUS
<1>8. q \in Seq(1..m) /\ Ordered(p, q, {}) /\ \A n \in Pairs(q) : InSome(p, m, h, N, n)
  BY <1>2, <1>6, <1>7
<1>9. ASSUME NEW n, InSome(p, m, h, N, n)
      PROVE  n \in Pairs(q)
  <2>1. PICK b \in 0..N - 1 : \E s : Ends(p, m, h[b], s) /\ n \in Pairs(s)
    BY <1>9 DEF InSome
  <2>2. PICK s : Ends(p, m, h[b], s) /\ n \in Pairs(s)
    BY <2>1
  <2> DEFINE v == [i \in 0..N |-> IF i > b => n \in Pairs(w[i]) THEN TRUE ELSE FALSE]
  <2>3. v[0] \in {TRUE}
    BY <2>1
  <2>4. ASSUME NEW i \in 1..N, v[i - 1] \in {TRUE}
        PROVE  v[i] \in {TRUE}
    <3>1. i \in 0..N /\ i - 1 \in 0..N /\ (i > b => i - 1 = b \/ i - 1 > b)
      OBVIOUS
    <3>2. PICK x, y, f, c : x = w[i - 1] /\ y = w[i] /\ f = h[i - 1] /\ c = ChainOf(p, f)
      OBVIOUS
    <3>3. Ends(p, m, f, c) /\ c \in Seq(1..m) /\ Ordered(p, c, {})
      BY <1>3, <3>2
    <3>4. x \in Seq(1..m) /\ Ordered(p, x, {}) /\ y = x \o c
      BY <1>2, <1>6, <3>1, <3>2
    <3>5. Pairs(y) = Pairs(x) \cup Pairs(c)
      <4>1. Concats(p, m, x, c, y)
        BY <3>3, <3>4, OrderedJoin
      <4> QED BY <4>1 DEF Concats
    <3>6. i - 1 = b => n \in Pairs(c)
      <4>1. SUFFICES ASSUME i - 1 = b
                     PROVE  n \in Pairs(c)
        OBVIOUS
      <4>2. Ends(p, m, f, s)
        BY <2>2, <3>2, <4>1
      <4>3. s = c
        BY <3>3, <4>2, EndsOnce
      <4> QED BY <2>2, <4>3
    <3>7. i - 1 > b => n \in Pairs(x)
      BY <2>4, <3>1, <3>2
    <3>8. i > b => n \in Pairs(y)
      BY <3>1, <3>5, <3>6, <3>7
    <3> QED BY <3>1, <3>2, <3>8
  <2>5. \A i \in 0..N : v[i] \in {TRUE}
    <3> HIDE DEF v
    <3> QED BY <2>3, <2>4, Throughout
  <2>6. N > b
    BY <2>1
  <2>7. n \in Pairs(w[N])
    BY <1>7, <2>5, <2>6
  <2> QED BY <1>2, <2>7
<1> QED BY <1>8, <1>9

-----------------------------------------------------------------------------
(* Buckets that have what is theirs, among what may be left of others.     *)

\* The list s has key k once, with the element e, or not at all if that is None.
Holds(p, s, k, e) ==
  /\ \A i \in 1..Len(s) : p[s[i]].key = k => p[s[i]].element = e
  /\ \A i, j \in 1..Len(s) : (p[s[i]].key = k /\ p[s[j]].key = k) => i = j
  /\ e # None => \E i \in 1..Len(s) : p[s[i]].key = k

\* The list s of bucket b, of d, holds the keys of the bucket;
Own(p, m, t, d, b, h, s) ==
  Ends(p, m, h, s) /\ \A k \in Keys : Index(k, d) = b => Holds(p, s, k, t[k])

\* the lists of all d do.
Owns(p, m, t, d, g) == \A b \in 0..(d - 1) : \E s : Own(p, m, t, d, b, g[b], s)

\* The lists have only pairs of their buckets.
AtHome(p, m, d, g) ==
  \A b \in 0..(d - 1) : \E s : Ends(p, m, g[b], s) /\ \A n \in Pairs(s) : Home(p, d, n) = b

Keyed(p, m) == \A n \in 1..m : p[n].key \in Keys

LEMMA OwnsListed ==
  ASSUME NEW p, NEW m, NEW t, NEW d, NEW g, Owns(p, m, t, d, g)
  PROVE  AllListed(p, m, g, d)
BY DEF Owns, Own, AllListed

LEMMA InList ==
  ASSUME NEW s, NEW n
  PROVE  n \in Pairs(s) <=> \E i \in 1..Len(s) : s[i] = n
BY DEF Pairs

\* What is collected from them has every present key once, with its element.
LEMMA Collecting ==
  ASSUME NEW p, NEW m \in Nat, m <= MaxNodes, NEW t, NEW h, NEW N \in Nat, Owns(p, m, t, N, h),
         NEW q, \A n : n \in Pairs(q) <=> InSome(p, m, h, N, n), Keyed(p, m),
         \A k \in Keys : Index(k, N) \in 0..(N - 1),
         Faithful(p, 1..m, t) \/ AtHome(p, m, N, h)
  PROVE  Faithful(p, Pairs(q), t) /\ Complete(p, Pairs(q), t)
<1>1. ASSUME NEW n \in Pairs(q)
      PROVE  n \in 1..m
  <2>1. PICK b \in 0..N - 1 : \E s : Ends(p, m, h[b], s) /\ n \in Pairs(s)
    BY <1>1 DEF InSome
  <2>2. PICK s, f : f = h[b] /\ Ends(p, m, f, s) /\ n \in Pairs(s)
    BY <2>1
  <2>3. Linked(p, m, f, s)
    BY <2>2, EndsLinked
  <2> QED BY <2>2, <2>3, InList DEF Linked
<1>2. Complete(p, Pairs(q), t)
  <2> SUFFICES ASSUME NEW k \in Keys, t[k] # None
               PROVE  \E n \in Pairs(q) : p[n].key = k
    BY DEF Complete
  <2>1. PICK b \in 0..(N - 1) : b = Index(k, N)
    OBVIOUS
  <2>2. PICK s : Own(p, m, t, N, b, h[b], s)
    BY DEF Owns
  <2>3. Holds(p, s, k, t[k]) /\ Ends(p, m, h[b], s)
    BY <2>1, <2>2 DEF Own
  <2>4. PICK i \in 1..Len(s) : p[s[i]].key = k
    BY <2>3 DEF Holds
  <2>5. s[i] \in Pairs(s)
    BY <2>4, InList
  <2>6. InSome(p, m, h, N, s[i])
    BY <2>3, <2>5 DEF InSome
  <2> QED BY <2>4, <2>6
<1>3. CASE Faithful(p, 1..m, t)
  BY <1>1, <1>2, <1>3 DEF Faithful
<1>4. CASE AtHome(p, m, N, h)
  <2>1. ASSUME NEW n \in Pairs(q)
        PROVE  \E s : /\ Own(p, m, t, N, Home(p, N, n), h[Home(p, N, n)], s) /\ n \in Pairs(s)
                      /\ Holds(p, s, p[n].key, t[p[n].key])
    <3>1. PICK b \in 0..N - 1 : \E s : Ends(p, m, h[b], s) /\ n \in Pairs(s)
      BY <2>1 DEF InSome
    <3>2. PICK s, f : f = h[b] /\ Ends(p, m, f, s) /\ n \in Pairs(s)
      BY <3>1
    <3>3. PICK r : Ends(p, m, h[b], r) /\ \A x \in Pairs(r) : Home(p, N, x) = b
      BY <1>4 DEF AtHome
    <3>4. r = s
      BY <3>2, <3>3, EndsOnce
    <3>5. Home(p, N, n) = b
      BY <3>2, <3>3, <3>4
    <3>6. PICK y : Own(p, m, t, N, b, h[b], y)
      BY DEF Owns
    <3>7. Ends(p, m, f, y)
      BY <3>2, <3>6 DEF Own
    <3>8. y = s
      BY <3>2, <3>7, EndsOnce
    <3>9. p[n].key \in Keys
      BY <1>1, <2>1 DEF Keyed
    <3>10. Index(p[n].key, N) = b
      BY <3>5 DEF Home
    <3>11. Holds(p, s, p[n].key, t[p[n].key])
      BY <3>6, <3>8, <3>9, <3>10 DEF Own
    <3> QED BY <3>2, <3>5, <3>6, <3>8, <3>11
  <2>2. ASSUME NEW n \in Pairs(q)
        PROVE  t[p[n].key] = p[n].element
    <3>1. PICK s : n \in Pairs(s) /\ Holds(p, s, p[n].key, t[p[n].key])
      BY <2>1, <2>2
    <3>2. PICK i \in 1..Len(s) : s[i] = n
      BY <3>1, InList
    <3> QED BY <3>1, <3>2 DEF Holds
  <2>3. ASSUME NEW n \in Pairs(q), NEW x \in Pairs(q), p[n].key = p[x].key
        PROVE  n = x
    <3>1. PICK s : /\ Own(p, m, t, N, Home(p, N, n), h[Home(p, N, n)], s) /\ n \in Pairs(s)
                   /\ Holds(p, s, p[n].key, t[p[n].key])
      BY <2>1, <2>3
    <3>2. PICK r : Own(p, m, t, N, Home(p, N, x), h[Home(p, N, x)], r) /\ x \in Pairs(r)
      BY <2>1, <2>3
    <3>3. Home(p, N, x) = Home(p, N, n)
      BY <2>3 DEF Home
    <3>4. PICK f : f = h[Home(p, N, n)]
      OBVIOUS
    <3>5. Ends(p, m, f, s) /\ Ends(p, m, f, r)
      BY <3>1, <3>2, <3>3, <3>4 DEF Own
    <3>6. s = r
      BY <3>5, EndsOnce
    <3>7. PICK i, j \in 1..Len(s) : s[i] = n /\ s[j] = x
      BY <3>1, <3>2, <3>6, InList
    <3>8. i = j
      BY <2>3, <3>1, <3>7 DEF Holds
    <3> QED BY <3>7, <3>8
  <2>4. Faithful(p, Pairs(q), t)
    BY <2>2, <2>3 DEF Faithful
  <2> QED BY <1>2, <2>4
<1> QED BY <1>3, <1>4

\* After the last has been put the new buckets have what is theirs.
LEMMA PutBack ==
  ASSUME NEW p, NEW m \in Nat, m <= MaxNodes, AllEnd(p, m), NEW t, NEW h, NEW d \in Nat, d <= MaxBuckets,
         NEW M, Put(p, m, t, h, d, << >>, M)
  PROVE  Owns(p, m, t, d, h)
<1> SUFFICES ASSUME NEW b \in 0..(d - 1)
             PROVE  \E s : Own(p, m, t, d, b, h[b], s)
  BY DEF Owns
<1>1. b \in Buckets
  BY CMapAssumption DEF Buckets
<1>2. PICK f : f = h[b]
  OBVIOUS
<1>3. /\ M \subseteq 1..m /\ Pairs(<< >>) = {} /\ h[b] \in M \cup {None}
      /\ Faithful(p, M, t) /\ Complete(p, M, t)
      /\ \A n \in M : Reached(p, m, h[Home(p, d, n)], n, M)
  <2>1. Pairs(<< >>) = {}
    BY DEF Pairs
  <2> QED BY <1>1, <2>1 DEF Put
<1>4. f \in OfMade(m)
  BY <1>2, <1>3 DEF OfMade
<1>5. PICK s : Ends(p, m, f, s)
  BY <1>4, ListFrom
<1>6. Ordered(p, << >>, M)
  BY DEF Ordered
<1>7. \A i \in 1..Len(s) : s[i] \in M
  <2>1. Ends(p, m, h[b], s)
    BY <1>2, <1>5
  <2>2. \A i \in 1..Len(s) : s[i] \in M \cup Pairs(<< >>)
    BY <1>1, <1>6, <2>1, ListsWithin
  <2> QED BY <1>3, <2>2
<1>8. ASSUME NEW k \in Keys, Index(k, d) = b
      PROVE  Holds(p, s, k, t[k])
  <2>1. \A i \in 1..Len(s) : p[s[i]].key = k => p[s[i]].element = t[k]
    BY <1>3, <1>7 DEF Faithful
  <2>2. ASSUME NEW i \in 1..Len(s), NEW j \in 1..Len(s), p[s[i]].key = k, p[s[j]].key = k
        PROVE  i = j
    <3>1. s[i] = s[j]
      BY <1>3, <1>7, <2>2 DEF Faithful
    <3> QED BY <1>5, <3>1 DEF Ends, Once
  <2>3. ASSUME t[k] # None
        PROVE  \E i \in 1..Len(s) : p[s[i]].key = k
    <3>1. PICK n \in M : p[n].key = k
      BY <1>3, <2>3 DEF Complete
    <3>2. Home(p, d, n) = b
      BY <1>8, <3>1 DEF Home
    <3>3. Reached(p, m, f, n, M)
      BY <1>2, <1>3, <3>2
    <3>4. PICK r : Ends(p, m, f, r) /\ \E i \in 1..Len(r) : r[i] = n
      BY <3>3 DEF Reached
    <3>5. r = s
      BY <1>5, <3>4, EndsOnce
    <3> QED BY <3>1, <3>4, <3>5
  <2> QED BY <2>1, <2>2, <2>3 DEF Holds
<1> QED BY <1>2, <1>5, <1>8 DEF Own

-----------------------------------------------------------------------------
(* Put and Delete keep what the buckets hold.                              *)

\* A bucket that key k is not of.
LEMMA OwnStays ==
  ASSUME NEW p, NEW q, NEW m \in Nat, m <= MaxNodes, NEW m1 \in Nat, m <= m1, NEW k, NEW e, Keeps(p, q, m, k, e),
         NEW t, NEW t1, \A j \in Keys : j # k => t1[j] = t[j],
         NEW d, NEW b, Index(k, d) # b, NEW h, NEW s, Own(p, m, t, d, b, h, s)
  PROVE  Own(q, m1, t1, d, b, h, s)
<1>1. Ends(p, m, h, s)
  BY DEF Own
<1>2. \A i \in 1..Len(s) : s[i] \in 1..m
  <2>1. Linked(p, m, h, s)
    BY <1>1, EndsLinked
  <2> QED BY <2>1 DEF Linked
<1>3. Ends(q, m1, h, s)
  <2>1. \A i \in 1..Len(s) : q[s[i]].next = p[s[i]].next
    BY <1>2 DEF Keeps
  <2> QED BY <1>1, <2>1, StillEnds
<1>4. ASSUME NEW j \in Keys, Index(j, d) = b
      PROVE  Holds(q, s, j, t1[j])
  <2>1. j # k /\ t1[j] = t[j] /\ Holds(p, s, j, t[j])
    BY <1>4 DEF Own
  <2>2. \A i \in 1..Len(s) : q[s[i]].key = p[s[i]].key /\ (p[s[i]].key = j => q[s[i]].element = p[s[i]].element)
    BY <1>2, <2>1 DEF Keeps
  <2> QED BY <2>1, <2>2 DEF Holds
<1> QED BY <1>3, <1>4 DEF Own

\* So the bucket of k is the one to look at.
LEMMA OwnsGoOn ==
  ASSUME NEW p, NEW q, NEW m \in Nat, m <= MaxNodes, NEW m1 \in Nat, m <= m1, NEW k, NEW e, Keeps(p, q, m, k, e),
         NEW t, NEW t1, \A j \in Keys : j # k => t1[j] = t[j],
         NEW d, NEW g, NEW g1, Owns(p, m, t, d, g), \A b \in 0..(d - 1) : b # Index(k, d) => g1[b] = g[b],
         \E s : Own(q, m1, t1, d, Index(k, d), g1[Index(k, d)], s)
  PROVE  Owns(q, m1, t1, d, g1)
<1> SUFFICES ASSUME NEW b \in 0..(d - 1)
             PROVE  \E s : Own(q, m1, t1, d, b, g1[b], s)
  BY DEF Owns
<1>1. CASE b = Index(k, d)
  BY <1>1
<1>2. CASE b # Index(k, d)
  <2>1. PICK h, s : h = g[b] /\ Own(p, m, t, d, b, h, s)
    BY DEF Owns
  <2>2. Own(q, m1, t1, d, b, h, s)
    BY <1>2, <2>1, OwnStays
  <2> QED BY <1>2, <2>1, <2>2
<1> QED BY <1>1, <1>2

\* A new pair at the head.
LEMMA OwnNewHead ==
  ASSUME NEW p, NEW q, NEW m \in Nat, m + 1 \in Nodes, NEW k \in Keys, NEW e, NEW t, NEW t1,
         NEW d, NEW b, NEW h, NEW s, Own(p, m, t, d, b, h, s), \A i \in 1..Len(s) : p[s[i]].key # k,
         HeadPut(p, q, m, k, e, h), Turns(t, t1, k, e), AllEnd(q, m + 1)
  PROVE  \E r : Own(q, m + 1, t1, d, b, m + 1, r)
<1>1. /\ m + 1 \in Nat /\ m <= m + 1 /\ m + 1 <= MaxNodes /\ m <= MaxNodes /\ m + 1 \in 1..(m + 1)
      /\ MaxNodes \in Nat /\ m + 1 # None
  <2>1. MaxNodes \in Nat /\ None \notin Nat
    BY CMapAssumption
  <2> QED BY <2>1 DEF Nodes
<1>2. /\ \A n \in 1..m : q[n] = p[n]
      /\ q[m + 1].key = k /\ q[m + 1].element = e /\ q[m + 1].next = h
  BY DEF HeadPut
<1>3. Ends(p, m, h, s)
  BY DEF Own
<1>4. PICK l \in Nat : l = Len(s)
  BY <1>1, <1>3, EndsFacts
<1>5. \A i \in 1..l : s[i] \in 1..m
  <2>1. Linked(p, m, h, s)
    BY <1>1, <1>3, EndsLinked
  <2> QED BY <1>4, <2>1 DEF Linked
<1>6. PICK v : v = m + 1
  OBVIOUS
<1>7. PICK r : Ends(q, v, v, r)
  BY <1>1, <1>6 DEF AllEnd
<1>8. Ends(q, v, h, s)
  <2>1. \A i \in 1..Len(s) : q[s[i]].next = p[s[i]].next
    BY <1>2, <1>4, <1>5
  <2>2. m <= v /\ v \in Nat
    BY <1>1, <1>6
  <2> QED BY <1>3, <2>1, <2>2, StillEnds
<1>9. 1 \in 1..Len(r) /\ r[1] = v /\ Follow(r, s)
  <2>1. v \in Nat /\ v <= MaxNodes /\ v # None
    BY <1>1, <1>6
  <2>2. /\ 1 \in 1..Len(r) /\ r[1] = v /\ v \in 1..v
        /\ \E y : Ends(q, v, q[v].next, y) /\ Follow(r, y)
    BY <1>7, <2>1, EndsTail
  <2>3. PICK y : Ends(q, v, h, y) /\ Follow(r, y)
    BY <1>2, <1>6, <2>2
  <2>4. y = s
    BY <1>8, <2>1, <2>3, EndsOnce
  <2> QED BY <2>2, <2>3, <2>4
<1>10. Len(r) = l + 1 /\ \A i \in 1..l : r[i + 1] = s[i]
  BY <1>4, <1>9 DEF Follow
<1>11. \A i \in 1..(l + 1) : i = 1 \/ (i - 1 \in 1..l /\ r[i] = s[i - 1])
  <2> TAKE i \in 1..(l + 1)
  <2>1. i # 1 => i - 1 \in 1..l /\ (i - 1) + 1 = i
    OBVIOUS
  <2> QED BY <1>10, <2>1
<1>12. q[r[1]].key = k /\ q[r[1]].element = e
  BY <1>2, <1>6, <1>9
<1>13. \A i \in 1..l : q[s[i]].key = p[s[i]].key /\ q[s[i]].element = p[s[i]].element /\ p[s[i]].key # k
  BY <1>2, <1>4, <1>5
<1>14. ASSUME NEW j \in Keys, Index(j, d) = b
       PROVE  Holds(q, r, j, t1[j])
  <2>0. Holds(p, s, j, t[j])
    BY <1>14 DEF Own
  <2>1. CASE j = k
    <3>1. \A i \in 1..(l + 1) : q[r[i]].key = k => i = 1
      BY <1>11, <1>13
    <3>2. t1[j] = e
      BY <2>1 DEF Turns
    <3>3. 1 \in 1..(l + 1)
      OBVIOUS
    <3> QED BY <1>10, <1>12, <2>1, <3>1, <3>2, <3>3 DEF Holds
  <2>2. CASE j # k
    <3>1. t1[j] = t[j]
      BY <2>2 DEF Turns
    <3>2. /\ \A i \in 1..l : p[s[i]].key = j => p[s[i]].element = t[j]
          /\ \A i, y \in 1..l : (p[s[i]].key = j /\ p[s[y]].key = j) => i = y
          /\ t[j] # None => \E i \in 1..l : p[s[i]].key = j
      BY <1>4, <2>0 DEF Holds
    <3>3. \A i \in 1..(l + 1) : q[r[i]].key = j => /\ i - 1 \in 1..l /\ p[s[i - 1]].key = j
                                                  /\ q[r[i]].element = p[s[i - 1]].element
      BY <1>11, <1>12, <1>13, <2>2
    <3>4. \A i \in 1..(l + 1) : q[r[i]].key = j => q[r[i]].element = t1[j]
      BY <3>1, <3>2, <3>3
    <3>5. ASSUME NEW i \in 1..(l + 1), NEW y \in 1..(l + 1), q[r[i]].key = j, q[r[y]].key = j
          PROVE  i = y
      <4>1. i - 1 = y - 1
        BY <3>2, <3>3, <3>5
      <4> QED BY <4>1
    <3>6. ASSUME t1[j] # None
          PROVE  \E i \in 1..(l + 1) : q[r[i]].key = j
      <4>1. PICK i \in 1..l : p[s[i]].key = j
        BY <3>1, <3>2, <3>6
      <4>2. i + 1 \in 1..(l + 1) /\ q[r[i + 1]].key = j
        BY <1>10, <1>13, <4>1
      <4> QED BY <4>2
    <3> QED BY <1>10, <3>4, <3>5, <3>6 DEF Holds
  <2> QED BY <2>1, <2>2
<1> QED BY <1>6, <1>7, <1>14 DEF Own

\* A new element for the pair of k.
LEMMA OwnElement ==
  ASSUME NEW p, NEW q, NEW m \in Nat, m <= MaxNodes, NEW k \in Keys, NEW e, NEW t, NEW t1,
         NEW d, NEW h, NEW s, Own(p, m, t, d, Index(k, d), h, s),
         NEW z \in 1..Len(s), ElementPut(p, q, m, s[z], k, e), Turns(t, t1, k, e)
  PROVE  Own(q, m, t1, d, Index(k, d), h, s)
<1>1. Ends(p, m, h, s)
  BY DEF Own
<1>2. \A i \in 1..Len(s) : s[i] \in 1..m
  <2>1. Linked(p, m, h, s)
    BY <1>1, EndsLinked
  <2> QED BY <2>1 DEF Linked
<1>3. /\ \A i \in 1..Len(s) : q[s[i]].key = p[s[i]].key /\ q[s[i]].next = p[s[i]].next
      /\ \A i \in 1..Len(s) : s[i] # s[z] => q[s[i]].element = p[s[i]].element
      /\ p[s[z]].key = k /\ q[s[z]].element = e
  BY <1>2 DEF ElementPut
<1>4. Ends(q, m, h, s)
  <2>1. m <= m
    OBVIOUS
  <2> QED BY <1>1, <1>3, <2>1, StillEnds
<1>5. ASSUME NEW j \in Keys, Index(j, d) = Index(k, d)
      PROVE  Holds(q, s, j, t1[j])
  <2>0. Holds(p, s, j, t[j])
    BY <1>5 DEF Own
  <2>1. CASE j = k
    <3>1. \A i \in 1..Len(s) : p[s[i]].key = k => i = z
      BY <1>3, <2>0, <2>1 DEF Holds
    <3>2. t1[j] = e
      BY <2>1 DEF Turns
    <3> QED BY <1>3, <2>1, <3>1, <3>2 DEF Holds
  <2>2. CASE j # k
    <3>1. t1[j] = t[j]
      BY <2>2 DEF Turns
    <3>2. \A i \in 1..Len(s) : q[s[i]].key = p[s[i]].key /\ (p[s[i]].key = j => q[s[i]].element = p[s[i]].element)
      BY <1>3, <2>2
    <3> QED BY <2>0, <3>1, <3>2 DEF Holds
  <2> QED BY <2>1, <2>2
<1> QED BY <1>4, <1>5 DEF Own

\* The pair of k taken out.
LEMMA OwnRemoved ==
  ASSUME NEW p, NEW q, NEW m \in Nat, m <= MaxNodes, NEW k \in Keys, NEW t, NEW t1,
         NEW d, NEW h, NEW s, Own(p, m, t, d, Index(k, d), h, s),
         NEW z \in Nat, z + 1 \in 1..Len(s), p[s[z + 1]].key = k, m + z <= MaxNodes,
         TakenOut(p, q, m, s, z), Turns(t, t1, k, None), AllEnd(q, m + z),
         NEW h1, h1 = IF z = 0 THEN p[s[z + 1]].next ELSE m + 1, h1 \in OfMade(m + z)
  PROVE  \E r : Own(q, m + z, t1, d, Index(k, d), h1, r)
<1>1. Ends(p, m, h, s)
  BY DEF Own
<1>2. PICK r : Without(p, q, m, s, z, h1, r)
  <2>1. s \in Seq(1..m) /\ ListOf(p, h, s)
    BY <1>1 DEF Ends
  <2> QED BY <2>1, ListWithout
<1>3. PICK l \in Nat : l = Len(r) /\ l + 1 = Len(s)
  BY <1>2 DEF Without
<1>4. /\ ListOf(q, h1, r)
      /\ \A i \in 1..l : /\ Past(z, i) \in 1..(l + 1) /\ Past(z, i) # z + 1
                         /\ q[r[i]].key = p[s[Past(z, i)]].key /\ q[r[i]].element = p[s[Past(z, i)]].element
      /\ \A i, j \in 1..l : Past(z, i) = Past(z, j) => i = j
      /\ \A x \in 1..(l + 1) : x # z + 1 => \E i \in 1..l : Past(z, i) = x
  BY <1>2, <1>3 DEF Without
<1>5. Len(s) <= m /\ MaxNodes \in Nat
  BY <1>1, EndsFacts, NodesAre
<1>6. Ends(q, m + z, h1, r)
  <2>1. PICK v : v = m + z
    OBVIOUS
  <2>2. v \in Nat /\ v <= MaxNodes
    BY <2>1
  <2>3. PICK y : Ends(q, v, h1, y)
    BY <2>1, <2>2, ListFrom
  <2>4. ChainOf(q, h1) = y
    BY <2>2, <2>3, EndsFacts
  <2>5. Len(r) <= MaxNodes
    BY <1>3, <1>5
  <2>6. ChainOf(q, h1) = r
    BY <1>4, <2>5, ChainOfIs
  <2> QED BY <2>1, <2>3, <2>4, <2>6
<1>7. z + 1 \in 1..(l + 1)
  BY <1>3
<1>8. ASSUME NEW j \in Keys, Index(j, d) = Index(k, d)
      PROVE  Holds(q, r, j, t1[j])
  <2>0. /\ \A i \in 1..(l + 1) : p[s[i]].key = j => p[s[i]].element = t[j]
        /\ \A i, y \in 1..(l + 1) : (p[s[i]].key = j /\ p[s[y]].key = j) => i = y
        /\ t[j] # None => \E i \in 1..(l + 1) : p[s[i]].key = j
    BY <1>3, <1>8 DEF Own, Holds
  <2>1. CASE j = k
    <3>1. \A i \in 1..(l + 1) : p[s[i]].key = k => i = z + 1
      BY <1>7, <2>0, <2>1
    <3>2. t1[j] = None
      BY <2>1 DEF Turns
    <3>3. \A i \in 1..l : q[r[i]].key # k
      BY <1>4, <3>1
    <3> QED BY <1>3, <2>1, <3>2, <3>3 DEF Holds
  <2>2. CASE j # k
    <3>1. t1[j] = t[j]
      BY <2>2 DEF Turns
    <3>2. \A i \in 1..l : q[r[i]].key = j => q[r[i]].element = t1[j]
      BY <1>4, <2>0, <3>1
    <3>3. ASSUME NEW i \in 1..l, NEW y \in 1..l, q[r[i]].key = j, q[r[y]].key = j
          PROVE  i = y
      <4>1. PICK a, c : a = Past(z, i) /\ c = Past(z, y)
        OBVIOUS
      <4>3. a \in 1..(l + 1) /\ p[s[a]].key = j
        BY <1>4, <3>3, <4>1
      <4>4. c \in 1..(l + 1) /\ p[s[c]].key = j
        BY <1>4, <3>3, <4>1
      <4>2. a = c
        BY <2>0, <4>3, <4>4
      <4> QED BY <1>4, <4>1, <4>2
    <3>4. ASSUME t1[j] # None
          PROVE  \E i \in 1..l : q[r[i]].key = j
      <4>1. PICK x \in 1..(l + 1) : p[s[x]].key = j
        BY <2>0, <3>1, <3>4
      <4>2. x # z + 1
        BY <2>2, <4>1
      <4>3. PICK i \in 1..l : Past(z, i) = x
        BY <1>4, <4>2
      <4> QED BY <1>4, <4>1, <4>3
    <3> QED BY <1>3, <3>2, <3>3, <3>4 DEF Holds
  <2> QED BY <2>1, <2>2
<1> QED BY <1>6, <1>8 DEF Own

-----------------------------------------------------------------------------
(* The invariant of growing.                                               *)

\* Buckets from d on, and up to d, are empty.
Beyond(g, d) == \A b \in Buckets : b >= d => g[b] = None
Cleared(g, d) == \A b \in Buckets : b < d => g[b] = None

Collected(p, q, t) == Faithful(p, Pairs(q), t) /\ Complete(p, Pairs(q), t) /\ Ordered(p, q, {})

\* Some pairs are in the new buckets already, those in q are still to be put;
BeingPut(p, m, t, g, d, q) == \E M : Put(p, m, t, g, d, q, M) /\ Ordered(p, q, M)

\* the first of these is linked to the list of its bucket,
BeingLinked(p, m, t, g, d, q) ==
  \E M : Put(p, m, t, g, d, q, M) /\ Head(q) \notin M /\ Ordered(p, Tail(q), M \cup {Head(q)})
LinkMade(p, g, d, q) == \E b : /\ b = Home(p, d, Head(q))
                               /\ g[b] # None /\ p[Head(q)].next = g[b]

\* For the pairs p, made m, with the truth t, heads g of d buckets, pairs q to be
\* moved; at is the step and x the next bucket to clear.  What Redistribe does is
\* right unless there have been Deletes since it was first done.
GrowIs(p, m, t, g, d, q, at, x, del) ==
  /\ Beyond(g, IF at \in {"put", "store"} THEN 2 * d ELSE d)
  /\ ~del => Faithful(p, 1..m, t)
  /\ (at \notin {"clear", "put", "store"} /\ (del => d <= 2 * InitialBuckets)) => Owns(p, m, t, d, g)
  /\ at = "clear" => Cleared(g, x) /\ ((del => d <= InitialBuckets) => Collected(p, q, t))
  /\ (at = "put" /\ (del => d <= InitialBuckets)) => BeingPut(p, m, t, g, 2 * d, q)
  /\ at = "store" => LinkMade(p, g, 2 * d, q)
                     /\ ((del => d <= InitialBuckets) => BeingLinked(p, m, t, g, 2 * d, q))

\* The inductive invariant.
GrowInv == GrowIs(pair, made, truth, first, bucketsLen, moving, step, next, deleted)

LEMMA GrowThen ==
  ASSUME NEW p, NEW m, NEW t, NEW g, NEW d, NEW q, NEW at, NEW x, NEW del,
         pair' = p, made' = m, truth' = t, first' = g, bucketsLen' = d, moving' = q, step' = at,
         next' = x, deleted' = del, GrowIs(p, m, t, g, d, q, at, x, del)
  PROVE  GrowInv'
BY DEF GrowInv

\* What is known of the pairs and of the buckets anyway.
Sized(p, m, g, d) ==
  /\ m \in Nat /\ m <= MaxNodes /\ AllEnd(p, m) /\ Keyed(p, m)
  /\ \A n \in 1..m : p[n].element # None /\ p[n].next \in OfMade(m)
  /\ \A b \in Buckets : g[b] \in OfMade(m)
  /\ d \in Nat \ {0} /\ d <= MaxBuckets /\ MaxBuckets \in Nat

LEMMA SizedIs ==
  ASSUME TypeInv, ListsEnd
  PROVE  /\ Sized(pair, made, first, bucketsLen) /\ moving \in Seq(1..made)
         /\ step \in {"put", "store"} => Sized(pair, made, first, 2 * bucketsLen)
<1>1. made \in Nat /\ made <= MaxNodes /\ None \notin Nat /\ \A n \in 1..made : pair[n] \in Filled(made)
  BY ListsOfMade DEF TypeInv, MadeNodes
<1>2. \A n \in 1..made : pair[n].element # None /\ pair[n].next \in OfMade(made) /\ pair[n].key \in Keys
  BY <1>1 DEF Filled, Elements
<1>3. AllEnd(pair, made)
  BY ListsEndIs
<1>4. /\ bucketsLen \in Nat \ {0} /\ bucketsLen <= MaxBuckets /\ MaxBuckets \in Nat
      /\ step \in {"put", "store"} => 2 * bucketsLen <= MaxBuckets
  BY CMapAssumption DEF TypeInv, TypeOK, Held
<1>5. (\A b \in Buckets : first[b] \in OfMade(made)) /\ moving \in Seq(1..made)
  BY DEF TypeInv, MadeNodes
<1>6. Keyed(pair, made)
  BY <1>2 DEF Keyed
<1>7. 2 * bucketsLen \in Nat \ {0}
  BY <1>4
<1> QED BY <1>1, <1>2, <1>3, <1>4, <1>5, <1>6, <1>7 DEF Sized

LEMMA IndexIn ==
  ASSUME NEW d \in Nat \ {0}, d <= MaxBuckets, MaxBuckets \in Nat, NEW k \in Keys
  PROVE  Index(k, d) \in 0..(d - 1) /\ Index(k, d) \in Buckets
<1>1. Hash[k] \in Nat
  BY CMapAssumption
<1>2. Hash[k] % d \in 0..(d - 1)
  BY <1>1
<1>3. \A b \in 0..(d - 1) : b \in Buckets
  BY DEF Buckets
<1> QED BY <1>2, <1>3 DEF Index

LEMMA HomesIn ==
  ASSUME NEW p, NEW m, NEW g, NEW d, Sized(p, m, g, d), NEW A, A \subseteq 1..m
  PROVE  Homes(p, d, A) /\ \A n \in A : Home(p, d, n) \in 0..(d - 1)
<1>1. d \in Nat \ {0} /\ d <= MaxBuckets /\ MaxBuckets \in Nat /\ \A n \in A : p[n].key \in Keys
  BY DEF Sized, Keyed
<1>2. ASSUME NEW n \in A
      PROVE  Home(p, d, n) \in 0..(d - 1) /\ Home(p, d, n) \in Buckets
  <2>1. PICK k \in Keys : k = p[n].key
    BY <1>1
  <2> QED BY <1>1, <2>1, IndexIn DEF Home
<1> QED BY <1>2 DEF Homes

LEMMA TargetIs == Target = Home(pair, 2 * bucketsLen, Head(moving)) /\ \A k : BucketOf(k) = Index(k, bucketsLen)
BY DEF Target, Home, Index, BucketOf

-----------------------------------------------------------------------------
(* What Redistribe does, step by step.                                     *)

\* All buckets are cleared: nothing has been put.
LEMMA NothingPut ==
  ASSUME NEW p, NEW m, NEW t, NEW g, NEW d, NEW q \in Seq(1..m), Collected(p, q, t), \A b \in Buckets : g[b] = None
  PROVE  BeingPut(p, m, t, g, d, q)
<1>1. {} \cup Pairs(q) = Pairs(q)
  OBVIOUS
<1>2. Put(p, m, t, g, d, q, {})
  BY <1>1 DEF Put, Collected
<1>3. Ordered(p, q, {})
  BY DEF Collected
<1> QED BY <1>2, <1>3 DEF BeingPut

LEMMA StepToEmpty ==
  ASSUME NEW p, NEW m, NEW t, NEW g, NEW d, Sized(p, m, g, d), NEW q, q # << >>,
         BeingPut(p, m, t, g, d, q), NEW b, b = Home(p, d, Head(q)), g[b] = None,
         NEW g1, Headed(g1, g, b, Head(q))
  PROVE  BeingPut(p, m, t, g1, d, Tail(q))
<1>1. PICK M : Put(p, m, t, g, d, q, M) /\ Ordered(p, q, M)
  BY DEF BeingPut
<1>2. PICK x, r : x = Head(q) /\ r = Tail(q)
  OBVIOUS
<1>3. m \in Nat /\ m <= MaxNodes /\ AllEnd(p, m) /\ q \in Seq(1..m) /\ M \subseteq 1..m
  BY <1>1 DEF Sized, Put
<1>4. x \in 1..m
  BY <1>2, <1>3, HeadTailProperties
<1>5. Homes(p, d, M \cup {x})
  <2>1. PICK A : A = M \cup {x} /\ A \subseteq 1..m
    BY <1>3, <1>4
  <2> QED BY <2>1, HomesIn
<1>6. b = Home(p, d, x) /\ Headed(g1, g, b, x)
  BY <1>2
<1>7. Put(p, m, t, g1, d, r, M \cup {x}) /\ Ordered(p, r, M \cup {x})
  BY <1>1, <1>2, <1>3, <1>5, <1>6, PutIntoEmpty
<1> QED BY <1>2, <1>7 DEF BeingPut

\* The pair that is found is the one to be put, and nothing is changed.
LEMMA StepToFound ==
  ASSUME NEW p, NEW m, NEW t, NEW g, NEW d, Sized(p, m, g, d), NEW q, q # << >>,
         BeingPut(p, m, t, g, d, q), NEW b \in Buckets, b = Home(p, d, Head(q)),
         NEW c, Ends(p, m, g[b], c), NEW i \in 1..Len(c), p[c[i]].key = p[Head(q)].key
  PROVE  BeingPut(p, m, t, g, d, Tail(q)) /\ c[i] = Head(q)
<1>1. PICK M : Put(p, m, t, g, d, q, M) /\ Ordered(p, q, M)
  BY DEF BeingPut
<1>2. PICK x, r : x = Head(q) /\ r = Tail(q)
  OBVIOUS
<1>3. m \in Nat /\ m <= MaxNodes
  BY DEF Sized
<1>4. b = Home(p, d, x) /\ p[c[i]].key = p[x].key
  BY <1>2
<1>5. Put(p, m, t, g, d, r, M \cup {x}) /\ Ordered(p, r, M \cup {x})
  BY <1>1, <1>2, <1>3, <1>4, PutIntoList
<1>6. Alone(p, c, x)
  BY <1>1, <1>2, <1>3, FoundIsTheSame
<1> QED BY <1>2, <1>4, <1>5, <1>6 DEF BeingPut, Alone

LEMMA StepToLink ==
  ASSUME NEW p, NEW m, NEW t, NEW g, NEW d, Sized(p, m, g, d), NEW q, q # << >>,
         BeingPut(p, m, t, g, d, q), NEW b \in Buckets, b = Home(p, d, Head(q)),
         NEW c, Ends(p, m, g[b], c), Lacks(c, Head(q)),
         NEW v, Links(p, v, m, Head(q), g[b]), AllEnd(v, m)
  PROVE  BeingLinked(v, m, t, g, d, q)
<1>1. PICK M : Put(p, m, t, g, d, q, M) /\ Ordered(p, q, M)
  BY DEF BeingPut
<1>2. PICK x, r : x = Head(q) /\ r = Tail(q)
  OBVIOUS
<1>3. m \in Nat /\ m <= MaxNodes
  BY DEF Sized
<1>4. b = Home(p, d, x) /\ Lacks(c, x) /\ Links(p, v, m, x, g[b])
  BY <1>2
<1>5. x \notin M /\ Put(v, m, t, g, d, q, M) /\ Ordered(v, r, M \cup {x})
  BY <1>1, <1>2, <1>3, <1>4, PutLinked
<1> QED BY <1>2, <1>5 DEF BeingLinked

LEMMA StepToStore ==
  ASSUME NEW p, NEW m, NEW t, NEW g, NEW d, Sized(p, m, g, d), NEW q, q # << >>,
         BeingLinked(p, m, t, g, d, q), LinkMade(p, g, d, q), NEW b, b = Home(p, d, Head(q)),
         NEW g1, Headed(g1, g, b, Head(q))
  PROVE  BeingPut(p, m, t, g1, d, Tail(q))
<1>1. PICK M : Put(p, m, t, g, d, q, M) /\ Head(q) \notin M /\ Ordered(p, Tail(q), M \cup {Head(q)})
  BY DEF BeingLinked
<1>2. PICK x, r : x = Head(q) /\ r = Tail(q)
  OBVIOUS
<1>3. m \in Nat /\ m <= MaxNodes /\ AllEnd(p, m) /\ q \in Seq(1..m) /\ M \subseteq 1..m
  BY <1>1 DEF Sized, Put
<1>4. x \in 1..m
  BY <1>2, <1>3, HeadTailProperties
<1>5. Homes(p, d, M \cup {x})
  <2>1. PICK A : A = M \cup {x} /\ A \subseteq 1..m
    BY <1>3, <1>4
  <2> QED BY <2>1, HomesIn
<1>6. b = Home(p, d, x) /\ Headed(g1, g, b, x) /\ b \in Buckets /\ g[b] # None /\ p[x].next = g[b] /\ x \notin M
  BY <1>1, <1>2, <1>5 DEF LinkMade, Homes
<1>7. Put(p, m, t, g1, d, r, M \cup {x})
  BY <1>1, <1>2, <1>3, <1>5, <1>6, PutAtHead
<1>8. Ordered(p, r, M \cup {x})
  BY <1>1, <1>2
<1> QED BY <1>2, <1>7, <1>8 DEF BeingPut

LEMMA StepToDone ==
  ASSUME NEW p, NEW m, NEW t, NEW g, NEW d, Sized(p, m, g, d), BeingPut(p, m, t, g, d, << >>)
  PROVE  Owns(p, m, t, d, g)
<1>1. PICK M : Put(p, m, t, g, d, << >>, M)
  BY DEF BeingPut
<1>2. m \in Nat /\ m <= MaxNodes /\ AllEnd(p, m) /\ d \in Nat /\ d <= MaxBuckets
  BY DEF Sized
<1> QED BY <1>1, <1>2, PutBack

\* What Redistribe collects.
LEMMA StepToClear ==
  ASSUME NEW p, NEW m, NEW t, NEW g, NEW d, Sized(p, m, g, d), Owns(p, m, t, d, g),
         Faithful(p, 1..m, t) \/ AtHome(p, m, d, g), NEW q, q = AllOf(p, g, d)
  PROVE  Collected(p, q, t)
<1>1. /\ m \in Nat /\ m <= MaxNodes /\ Keyed(p, m) /\ d \in Nat \ {0} /\ d <= MaxBuckets /\ MaxBuckets \in Nat
      /\ \A n \in 1..m : p[n].next \in (1..m) \cup {None}
  BY DEF Sized, OfMade
<1>2. \A b \in 0..(d - 1) : g[b] \in (1..m) \cup {None}
  <2>1. \A b \in 0..(d - 1) : b \in Buckets
    BY <1>1 DEF Buckets
  <2> QED BY <2>1 DEF Sized, OfMade
<1>3. AllListed(p, m, g, d)
  BY OwnsListed
<1>4. /\ q \in Seq(1..m) /\ Ordered(p, q, {})
      /\ \A n : n \in Pairs(q) <=> InSome(p, m, g, d, n)
  BY <1>1, <1>2, <1>3, AllOfIs
<1>5. \A k \in Keys : Index(k, d) \in 0..(d - 1)
  BY <1>1, IndexIn
<1>6. Faithful(p, Pairs(q), t) /\ Complete(p, Pairs(q), t)
  BY <1>1, <1>4, <1>5, Collecting
<1> QED BY <1>4, <1>6 DEF Collected

-----------------------------------------------------------------------------
(* The steps of Redistribe keep the invariant.                             *)

\* Steps that have nothing to do with it.
LEMMA QuietGrows ==
  ASSUME GrowInv, UNCHANGED <<pair, made, first, bucketsLen, step, next, moving, truth, deleted>>
  PROVE  GrowInv'
<1>1. PICK p, m, t, g, d, q, at, x, del :
        /\ p = pair /\ m = made /\ t = truth /\ g = first /\ d = bucketsLen /\ q = moving
        /\ at = step /\ x = next /\ del = deleted
  OBVIOUS
<1>2. /\ pair' = p /\ made' = m /\ truth' = t /\ first' = g /\ bucketsLen' = d /\ moving' = q
      /\ step' = at /\ next' = x /\ deleted' = del
  BY <1>1
<1>3. GrowIs(p, m, t, g, d, q, at, x, del)
  BY <1>1 DEF GrowInv
<1> QED BY <1>2, <1>3, GrowThen

LEMMA CheckGrows ==
  ASSUME TypeInv, ListsEnd, MapInv, GrowInv, Check
  PROVE  GrowInv'
<1>1. PICK p, m, t, g, d, q, at, x, del :
        /\ p = pair /\ m = made /\ t = truth /\ g = first /\ d = bucketsLen /\ q = moving'
        /\ at = step' /\ x = next' /\ del = deleted
  OBVIOUS
<1>2. /\ pair' = p /\ made' = m /\ truth' = t /\ first' = g /\ bucketsLen' = d /\ moving' = q
      /\ step' = at /\ next' = x /\ deleted' = del /\ step = "check"
  BY <1>1 DEF Check
<1>3. /\ Beyond(g, d) /\ (~del => Faithful(p, 1..m, t))
      /\ (del => d <= 2 * InitialBuckets) => Owns(p, m, t, d, g)
  BY <1>1, <1>2 DEF GrowInv, GrowIs
<1>4. \/ at = "none"
      \/ /\ at = "clear" /\ x = 0
         /\ q = LET all[b \in 0..bucketsLen] ==
                      IF b = 0 THEN << >> ELSE all[b - 1] \o Chain(first[b - 1])
                IN  all[bucketsLen]
  BY <1>1, Zenon DEF Check, Unlock
<1>5. CASE at = "none"
  <2>1. GrowIs(p, m, t, g, d, q, at, x, del)
    BY <1>3, <1>5 DEF GrowIs
  <2> QED BY <1>2, <2>1, GrowThen
<1>6. CASE /\ at = "clear" /\ x = 0
           /\ q = LET all[b \in 0..bucketsLen] ==
                        IF b = 0 THEN << >> ELSE all[b - 1] \o Chain(first[b - 1])
                  IN  all[bucketsLen]
  <2>1. q = AllOf(p, g, d)
    <3>1. q = AllOf(pair, first, bucketsLen)
      BY <1>6, ChainIs, Zenon DEF AllOf
    <3> QED BY <1>1, <3>1
  <2>2. Sized(p, m, g, d)
    BY <1>1, SizedIs
  <2>3. Cleared(g, x)
    BY <1>6 DEF Cleared, Buckets
  <2>4. ASSUME del => d <= InitialBuckets
        PROVE  Collected(p, q, t)
    <3>0. InitialBuckets \in Nat \ {0} /\ d \in Nat
      BY <2>2, CMapAssumption DEF Sized
    <3>1. Owns(p, m, t, d, g)
      BY <1>3, <2>4, <3>0
    <3>2. Faithful(p, 1..m, t) \/ AtHome(p, m, d, g)
      <4>1. CASE ~del
        BY <1>3, <4>1
      <4>2. CASE del
        <5>1. d = InitialBuckets
          <6>1. d >= InitialBuckets
            BY <1>1 DEF TypeInv, Held
          <6> QED BY <2>4, <3>0, <4>2, <6>1
        <5>2. Loaded
          BY <1>1, <1>2, <5>1 DEF MapInv, BeforeGrowing
        <5>3. ASSUME NEW b \in 0..(d - 1)
              PROVE  \E s : Ends(p, m, g[b], s) /\ \A n \in Pairs(s) : Home(p, d, n) = b
          <6>1. PICK s, c : BucketIs(p, m, t, b, g[b], c, s)
            BY <1>1, <5>1, <5>2 DEF Loaded, FirstBuckets
          <6>2. Ends(p, m, g[b], s)
            BY <6>1 DEF BucketIs, Walks, Ends, Once
          <6>3. \A n \in Pairs(s) : Home(p, d, n) = b
            BY <5>1, <6>1 DEF BucketIs, Pairs, Home, Index
          <6> QED BY <6>2, <6>3
        <5> QED BY <5>3 DEF AtHome
      <4> QED BY <4>1, <4>2
    <3> QED BY <2>1, <2>2, <3>1, <3>2, StepToClear
  <2>5. GrowIs(p, m, t, g, d, q, at, x, del)
    BY <1>3, <1>6, <2>3, <2>4 DEF GrowIs
  <2> QED BY <1>2, <2>5, GrowThen
<1> QED BY <1>4, <1>5, <1>6

LEMMA ClearGrows ==
  ASSUME TypeInv, ListsEnd, GrowInv, Clear
  PROVE  GrowInv'
<1>1. PICK p, m, t, g, d, q, at, x, del, h, y :
        /\ p = pair /\ m = made /\ t = truth /\ g = first' /\ d = bucketsLen /\ q = moving
        /\ at = step' /\ x = next' /\ del = deleted /\ h = first /\ y = next
  OBVIOUS
<1>2. /\ pair' = p /\ made' = m /\ truth' = t /\ first' = g /\ bucketsLen' = d /\ moving' = q
      /\ step' = at /\ next' = x /\ deleted' = del /\ step = "clear"
      /\ g = [h EXCEPT ![y] = None] /\ x = y + 1
      /\ at = IF x = d THEN "put" ELSE "clear"
  BY <1>1 DEF Clear
<1>3. /\ Beyond(h, d) /\ (~del => Faithful(p, 1..m, t)) /\ Cleared(h, y)
      /\ (del => d <= InitialBuckets) => Collected(p, q, t)
  BY <1>1, <1>2 DEF GrowInv, GrowIs
<1>4. Sized(p, m, h, d) /\ q \in Seq(1..m)
  BY <1>1, SizedIs
<1>5. y \in Nat /\ y < d /\ h \in [Buckets -> Nodes \cup {None}] /\ d \in Nat /\ MaxBuckets \in Nat
  BY <1>1, <1>2, CMapAssumption DEF TypeInv, TypeOK, Held
<1>6. Beyond(g, d) /\ Cleared(g, x)
  <2>1. ASSUME NEW b \in Buckets
        PROVE  (b >= d => g[b] = None) /\ (b < x => g[b] = None)
    <3>1. b \in Nat
      BY <1>5 DEF Buckets
    <3>2. g[b] = IF b = y THEN None ELSE h[b]
      BY <1>2, <1>5
    <3>3. b < x => b = y \/ b < y
      BY <1>2, <1>5, <3>1
    <3> QED BY <1>3, <3>2, <3>3 DEF Beyond, Cleared
  <2> QED BY <2>1 DEF Beyond, Cleared
<1>7. CASE x # d
  <2>1. GrowIs(p, m, t, g, d, q, at, x, del)
    BY <1>2, <1>3, <1>6, <1>7 DEF GrowIs
  <2> QED BY <1>2, <2>1, GrowThen
<1>8. CASE x = d
  <2>1. \A b \in Buckets : g[b] = None
    <3>1. \A b \in Buckets : b \in Nat
      BY <1>5 DEF Buckets
    <3>2. \A b \in Buckets : b >= d \/ b < x
      BY <1>5, <1>8, <3>1
    <3> QED BY <1>6, <3>2 DEF Beyond, Cleared
  <2>2. Beyond(g, 2 * d)
    BY <2>1 DEF Beyond
  <2>3. (del => d <= InitialBuckets) => BeingPut(p, m, t, g, 2 * d, q)
    BY <1>3, <1>4, <2>1, NothingPut
  <2>4. GrowIs(p, m, t, g, d, q, at, x, del)
    BY <1>2, <1>3, <1>8, <2>2, <2>3 DEF GrowIs
  <2> QED BY <1>2, <2>4, GrowThen
<1> QED BY <1>7, <1>8

\* Bucket b, of d, gets a head.
LEMMA BeyondStays ==
  ASSUME NEW h, NEW g, NEW d \in Nat, Beyond(h, d), NEW b \in 0..(d - 1), NEW n, Headed(g, h, b, n), MaxBuckets \in Nat
  PROVE  Beyond(g, d)
<1> SUFFICES ASSUME NEW c \in Buckets, c >= d
             PROVE  g[c] = None
  BY DEF Beyond
<1>1. c # b
  BY DEF Buckets
<1> QED BY <1>1 DEF Beyond, Headed

\* The pair that is moved, and its bucket.
LEMMA MovedIs ==
  ASSUME TypeInv, ListsEnd, step \in {"put", "store"}, moving # << >>
  PROVE  /\ Sized(pair, made, first, 2 * bucketsLen) /\ moving \in Seq(1..made)
         /\ Head(moving) \in 1..made /\ Head(moving) \in Nodes /\ 2 * bucketsLen \in Nat /\ MaxBuckets \in Nat
         /\ Target = Home(pair, 2 * bucketsLen, Head(moving))
         /\ Target \in 0..(2 * bucketsLen - 1) /\ Target \in Buckets
         /\ first \in [Buckets -> Nodes \cup {None}] /\ pair \in [Nodes -> Pair]
<1>1. PICK p, m, g, d, n : p = pair /\ m = made /\ g = first /\ d = 2 * bucketsLen /\ n = Head(moving)
  OBVIOUS
<1>2. Sized(p, m, g, d) /\ moving \in Seq(1..m)
  BY <1>1, SizedIs
<1>3. n \in 1..m /\ n \in Nodes /\ Target \in Buckets
  BY <1>1, Moving
<1>4. Home(p, d, n) \in 0..(d - 1)
  <2>1. {n} \subseteq 1..m
    BY <1>3
  <2>2. PICK A : A = {n}
    OBVIOUS
  <2>3. A \subseteq 1..m
    BY <2>1, <2>2
  <2>4. \A y \in A : Home(p, d, y) \in 0..(d - 1)
    BY <1>2, <2>3, HomesIn
  <2> QED BY <2>2, <2>4
<1>5. d \in Nat /\ MaxBuckets \in Nat
  BY <1>2 DEF Sized
<1> QED BY <1>1, <1>2, <1>3, <1>4, <1>5, TargetIs DEF TypeInv, TypeOK

LEMMA MoveToEmptyGrows ==
  ASSUME TypeInv, ListsEnd, GrowInv, MoveToEmpty
  PROVE  GrowInv'
<1>1. PICK p, m, t, g, d, q, at, x, del, h, r, b, n, e :
        /\ p = pair /\ m = made /\ t = truth /\ g = first' /\ d = bucketsLen /\ q = moving'
        /\ at = step' /\ x = next' /\ del = deleted /\ h = first /\ r = moving
        /\ b = Target /\ n = Head(moving) /\ e = 2 * bucketsLen
  OBVIOUS
<1>2. /\ pair' = p /\ made' = m /\ truth' = t /\ first' = g /\ bucketsLen' = d /\ moving' = q
      /\ step' = at /\ next' = x /\ deleted' = del /\ step = "put" /\ at = "put"
      /\ r # << >> /\ h[b] = None /\ g = [h EXCEPT ![b] = n] /\ q = Tail(r)
  BY <1>1 DEF MoveToEmpty
<1>3. /\ Beyond(h, e) /\ (~del => Faithful(p, 1..m, t))
      /\ (del => d <= InitialBuckets) => BeingPut(p, m, t, h, e, r)
  BY <1>1, <1>2 DEF GrowInv, GrowIs
<1>4. /\ Sized(p, m, h, e) /\ n = Head(r) /\ e \in Nat /\ MaxBuckets \in Nat
      /\ b = Home(p, e, Head(r)) /\ b \in 0..(e - 1) /\ h \in [Buckets -> Nodes \cup {None}]
  BY <1>1, <1>2, MovedIs
<1>5. Headed(g, h, b, Head(r))
  BY <1>2, <1>4 DEF Headed
<1>6. Beyond(g, e)
  BY <1>3, <1>4, <1>5, BeyondStays
<1>7. (del => d <= InitialBuckets) => BeingPut(p, m, t, g, e, q)
  BY <1>2, <1>3, <1>4, <1>5, StepToEmpty
<1>8. e = 2 * d
  BY <1>1
<1>9. GrowIs(p, m, t, g, d, q, at, x, del)
  BY <1>2, <1>3, <1>6, <1>7, <1>8 DEF GrowIs
<1> QED BY <1>2, <1>9, GrowThen

LEMMA MoveStoreGrows ==
  ASSUME TypeInv, ListsEnd, GrowInv, MoveStore
  PROVE  GrowInv'
<1>1. PICK p, m, t, g, d, q, at, x, del, h, r, b, n, e :
        /\ p = pair /\ m = made /\ t = truth /\ g = first' /\ d = bucketsLen /\ q = moving'
        /\ at = step' /\ x = next' /\ del = deleted /\ h = first /\ r = moving
        /\ b = Target /\ n = Head(moving) /\ e = 2 * bucketsLen
  OBVIOUS
<1>2. /\ pair' = p /\ made' = m /\ truth' = t /\ first' = g /\ bucketsLen' = d /\ moving' = q
      /\ step' = at /\ next' = x /\ deleted' = del /\ step = "store" /\ at = "put"
      /\ g = [h EXCEPT ![b] = n] /\ q = Tail(r) /\ r # << >>
  BY <1>1 DEF MoveStore, TypeInv, Held
<1>3. /\ Beyond(h, e) /\ (~del => Faithful(p, 1..m, t)) /\ LinkMade(p, h, e, r)
      /\ (del => d <= InitialBuckets) => BeingLinked(p, m, t, h, e, r)
  BY <1>1, <1>2 DEF GrowInv, GrowIs
<1>4. /\ Sized(p, m, h, e) /\ n = Head(r) /\ e \in Nat /\ MaxBuckets \in Nat
      /\ b = Home(p, e, Head(r)) /\ b \in 0..(e - 1) /\ h \in [Buckets -> Nodes \cup {None}]
  BY <1>1, <1>2, MovedIs
<1>5. Headed(g, h, b, Head(r))
  BY <1>2, <1>4 DEF Headed
<1>6. Beyond(g, e)
  BY <1>3, <1>4, <1>5, BeyondStays
<1>7. (del => d <= InitialBuckets) => BeingPut(p, m, t, g, e, q)
  BY <1>2, <1>3, <1>4, <1>5, StepToStore
<1>8. e = 2 * d
  BY <1>1
<1>9. GrowIs(p, m, t, g, d, q, at, x, del)
  BY <1>2, <1>3, <1>6, <1>7, <1>8 DEF GrowIs
<1> QED BY <1>2, <1>9, GrowThen

LEMMA MoveDoneGrows ==
  ASSUME TypeInv, ListsEnd, GrowInv, MoveDone
  PROVE  GrowInv'
<1>1. PICK p, m, t, g, d, q, at, x, del, c :
        /\ p = pair /\ m = made /\ t = truth /\ g = first /\ d = 2 * bucketsLen /\ q = moving
        /\ at = step' /\ x = next' /\ del = deleted /\ c = bucketsLen
  OBVIOUS
<1>2. /\ pair' = p /\ made' = m /\ truth' = t /\ first' = g /\ bucketsLen' = d /\ moving' = q
      /\ step' = at /\ next' = x /\ deleted' = del /\ step = "put" /\ at = "none"
      /\ q = << >>
  BY <1>1 DEF MoveDone, Unlock
<1>3. /\ Beyond(g, d) /\ (~del => Faithful(p, 1..m, t))
      /\ (del => c <= InitialBuckets) => BeingPut(p, m, t, g, d, << >>)
  BY <1>1, <1>2 DEF GrowInv, GrowIs
<1>4. Sized(p, m, g, d)
  BY <1>1, <1>2, SizedIs
<1>5. ASSUME del => d <= 2 * InitialBuckets
      PROVE  Owns(p, m, t, d, g)
  <2>1. c \in Nat /\ InitialBuckets \in Nat /\ d = 2 * c
    BY <1>1, CMapAssumption DEF TypeInv, TypeOK
  <2>2. del => c <= InitialBuckets
    BY <1>5, <2>1
  <2> QED BY <1>3, <1>4, <2>2, StepToDone
<1>6. GrowIs(p, m, t, g, d, q, at, x, del)
  BY <1>2, <1>3, <1>5 DEF GrowIs
<1> QED BY <1>2, <1>6, GrowThen

\* The list that is searched for the key of the pair to be moved.
LEMMA SearchedIs ==
  ASSUME TypeInv, ListsEnd, step = "put", moving # << >>, NEW f, f = first[Target], NEW k
  PROVE  \E c : /\ Ends(pair, made, f, c) /\ Chain(f) = c /\ c \in Seq(1..made)
                /\ InChain(f, k) <=> \E i \in 1..Len(c) : pair[c[i]].key = k
<1>1. PICK p, m : p = pair /\ m = made
  OBVIOUS
<1>2. f \in OfMade(m) /\ m \in Nat /\ m <= MaxNodes /\ AllEnd(p, m)
  BY <1>1, Moving, SizedIs DEF Sized
<1>3. PICK c : Ends(p, m, f, c)
  BY <1>2, ListFrom
<1>4. ChainOf(p, f) = c /\ c \in Seq(1..m)
  BY <1>2, <1>3, EndsFacts
<1>5. Chain(f) = c /\ DOMAIN c = 1..Len(c)
  BY <1>1, <1>4, ChainIs
<1>6. InChain(f, k) <=> \E i \in 1..Len(c) : pair[c[i]].key = k
  BY <1>5 DEF InChain
<1> QED BY <1>1, <1>3, <1>4, <1>5, <1>6

LEMMA MoveToFoundGrows ==
  ASSUME TypeInv, ListsEnd, GrowInv, MoveToFound
  PROVE  GrowInv'
<1>1. PICK p, m, t, g, d, q, at, x, del, v, r, b, n, e, f, k, i :
        /\ p = pair /\ m = made /\ t = truth /\ g = first /\ d = bucketsLen /\ q = moving'
        /\ at = step' /\ x = next' /\ del = deleted /\ v = pair' /\ r = moving
        /\ b = Target /\ n = Head(moving) /\ e = 2 * bucketsLen /\ f = first[Target]
        /\ k = pair[Head(moving)].key /\ i = Position(first[Target], pair[Head(moving)].key)
  OBVIOUS
<1>2. /\ pair' = v /\ made' = m /\ truth' = t /\ first' = g /\ bucketsLen' = d /\ moving' = q
      /\ step' = at /\ next' = x /\ deleted' = del /\ step = "put" /\ at = "put"
      /\ r # << >> /\ InChain(f, k) /\ q = Tail(r) /\ v = [p EXCEPT ![Chain(f)[i]].element = p[n].element]
  BY <1>1 DEF MoveToFound
<1>3. /\ Beyond(g, e) /\ (~del => Faithful(p, 1..m, t))
      /\ (del => d <= InitialBuckets) => BeingPut(p, m, t, g, e, r)
  BY <1>1, <1>2 DEF GrowInv, GrowIs
<1>4. /\ Sized(p, m, g, e) /\ n = Head(r) /\ n \in 1..m /\ n \in Nodes
      /\ b = Home(p, e, Head(r)) /\ b \in Buckets /\ p \in [Nodes -> Pair]
  BY <1>1, <1>2, MovedIs
<1>5. PICK c : Ends(p, m, f, c) /\ Chain(f) = c /\ c \in Seq(1..m)
  BY <1>1, <1>2, SearchedIs
<1>6. i \in 1..Len(c) /\ p[c[i]].key = k
  <2>1. i = Position(f, k)
    BY <1>1
  <2>2. Position(f, k) \in 1..Len(c) /\ pair[c[Position(f, k)]].key = k
    BY <1>2, <1>5, PositionIs
  <2> QED BY <1>1, <2>1, <2>2
<1>7. ASSUME del => d <= InitialBuckets
      PROVE  BeingPut(p, m, t, g, e, q) /\ v = p
  <2>1. Ends(p, m, g[b], c) /\ p[c[i]].key = p[Head(r)].key
    BY <1>1, <1>4, <1>5, <1>6
  <2>0. /\ Sized(p, m, g, e) /\ r # << >> /\ BeingPut(p, m, t, g, e, r)
        /\ b \in Buckets /\ b = Home(p, e, Head(r)) /\ i \in 1..Len(c)
    BY <1>2, <1>3, <1>4, <1>6, <1>7
  <2>2. BeingPut(p, m, t, g, e, Tail(r)) /\ c[i] = Head(r)
    BY <2>0, <2>1, StepToFound
  <2>3. v = [p EXCEPT ![n].element = p[n].element]
    BY <1>2, <1>4, <1>5, <2>2
  <2>4. PICK y : y = p[n] /\ y \in Pair
    BY <1>4
  <2>5. [y EXCEPT !.element = y.element] = y
    BY <2>4 DEF Pair, NoPair
  <2>6. v = [p EXCEPT ![n] = [y EXCEPT !.element = y.element]]
    BY <2>3, <2>4
  <2>7. v = p
    BY <1>4, <2>4, <2>5, <2>6
  <2> QED BY <1>2, <2>2, <2>7
<1>8. e = 2 * d
  BY <1>1
<1>9. ~del => Faithful(v, 1..m, t)
  BY <1>3, <1>7
<1>10. (del => d <= InitialBuckets) => BeingPut(v, m, t, g, e, q)
  BY <1>7
<1>11. GrowIs(v, m, t, g, d, q, at, x, del)
  BY <1>2, <1>3, <1>8, <1>9, <1>10 DEF GrowIs
<1> QED BY <1>2, <1>11, GrowThen

LEMMA MoveLinkGrows ==
  ASSUME TypeInv, ListsEnd, ListsEnd', GrowInv, MoveLink
  PROVE  GrowInv'
<1>1. PICK p, m, t, g, d, q, at, x, del, v, b, n, e, f, k :
        /\ p = pair /\ m = made /\ t = truth /\ g = first /\ d = bucketsLen /\ q = moving
        /\ at = step' /\ x = next' /\ del = deleted /\ v = pair'
        /\ b = Target /\ n = Head(moving) /\ e = 2 * bucketsLen /\ f = first[Target]
        /\ k = pair[Head(moving)].key
  OBVIOUS
<1>2. /\ pair' = v /\ made' = m /\ truth' = t /\ first' = g /\ bucketsLen' = d /\ moving' = q
      /\ step' = at /\ next' = x /\ deleted' = del /\ step = "put" /\ at = "store"
      /\ q # << >> /\ f # None /\ ~InChain(f, k) /\ v = [p EXCEPT ![n].next = f]
  BY <1>1 DEF MoveLink
<1>3. /\ Beyond(g, e) /\ (~del => Faithful(p, 1..m, t))
      /\ (del => d <= InitialBuckets) => BeingPut(p, m, t, g, e, q)
  BY <1>1, <1>2 DEF GrowInv, GrowIs
<1>4. /\ Sized(p, m, g, e) /\ n = Head(q) /\ n \in 1..m /\ n \in Nodes /\ m \in Nat
      /\ b = Home(p, e, Head(q)) /\ b \in Buckets /\ p \in [Nodes -> Pair]
      /\ f = g[b]
  BY <1>1, <1>2, MovedIs DEF Sized
<1>5. PICK c : Ends(p, m, f, c) /\ \A i \in 1..Len(c) : p[c[i]].key # k
  BY <1>1, <1>2, SearchedIs
<1>6. Lacks(c, Head(q))
  BY <1>1, <1>4, <1>5 DEF Lacks
<1>7. Links(p, v, m, Head(q), g[b])
  <2>1. \A y \in 1..m : y \in Nodes /\ p[y] \in Filled(m)
    BY <1>1, ListsOfMade DEF TypeInv, MadeNodes
  <2>2. v = [p EXCEPT ![n] = [p[n] EXCEPT !.next = f]]
    BY <1>2, <1>4
  <2>3. v[n] = [p[n] EXCEPT !.next = f] /\ \A y \in 1..m : y # n => v[y] = p[y]
    BY <1>4, <2>1, <2>2
  <2>4. v[n].key = p[n].key /\ v[n].element = p[n].element /\ v[n].next = f
    BY <1>4, <2>1, <2>3 DEF Filled
  <2> QED BY <1>4, <2>3, <2>4 DEF Links
<1>8. AllEnd(v, m)
  <2>1. AllEnd(pair', made')
    BY DEF ListsEnd, AllEnd
  <2> QED BY <1>2, <2>1
<1>9. (del => d <= InitialBuckets) => BeingLinked(v, m, t, g, e, q)
  BY <1>2, <1>3, <1>4, <1>5, <1>6, <1>7, <1>8, StepToLink
<1>10. LinkMade(v, g, e, q)
  <2>1. v[n].key = p[n].key /\ v[n].next = g[b]
    BY <1>4, <1>7 DEF Links
  <2>2. Home(v, e, n) = Home(p, e, n)
    BY <2>1 DEF Home
  <2> QED BY <1>2, <1>4, <2>1, <2>2 DEF LinkMade
<1>11. ~del => Faithful(v, 1..m, t)
  BY <1>3, <1>7 DEF Links, Faithful
<1>12. e = 2 * d
  BY <1>1
<1>13. GrowIs(v, m, t, g, d, q, at, x, del)
  BY <1>2, <1>3, <1>9, <1>10, <1>11, <1>12 DEF GrowIs
<1> QED BY <1>2, <1>13, GrowThen

-----------------------------------------------------------------------------
(* Put and Delete keep the invariant.                                      *)

\* What they start from.
LEMMA Starting ==
  ASSUME TypeInv, ListsEnd, GrowInv, lock = Free, NEW k \in Keys
  PROVE  /\ Sized(pair, made, first, bucketsLen) /\ Beyond(first, bucketsLen)
         /\ BucketOf(k) = Index(k, bucketsLen) /\ BucketOf(k) \in 0..(bucketsLen - 1) /\ BucketOf(k) \in Buckets
         /\ ~deleted => Faithful(pair, 1..made, truth)
         /\ (deleted => bucketsLen <= 2 * InitialBuckets) => Owns(pair, made, truth, bucketsLen, first)
         /\ first \in [Buckets -> Nodes \cup {None}] /\ pair \in [Nodes -> Pair] /\ 1..made \subseteq Nodes
<1>1. step = "none"
  BY DEF TypeInv, Held
<1>2. Sized(pair, made, first, bucketsLen)
  BY SizedIs
<1>3. BucketOf(k) = Index(k, bucketsLen) /\ BucketOf(k) \in 0..(bucketsLen - 1) /\ BucketOf(k) \in Buckets
  BY BucketIn, TargetIs
<1>4. first \in [Buckets -> Nodes \cup {None}] /\ pair \in [Nodes -> Pair] /\ 1..made \subseteq Nodes
  BY ListsOfMade DEF TypeInv, TypeOK
<1>5. /\ Beyond(first, bucketsLen)
      /\ ~deleted => Faithful(pair, 1..made, truth)
  BY <1>1 DEF GrowInv, GrowIs
<1>6. (deleted => bucketsLen <= 2 * InitialBuckets) => Owns(pair, made, truth, bucketsLen, first)
  BY <1>1 DEF GrowInv, GrowIs
<1> QED BY <1>2, <1>3, <1>4, <1>5, <1>6

\* The list they search.
LEMMA BucketsListIs ==
  ASSUME TypeInv, ListsEnd, NEW f, f \in OfMade(made), NEW k
  PROVE  \E c : /\ Ends(pair, made, f, c) /\ Chain(f) = c /\ c \in Seq(1..made) /\ Len(c) \in Nat
                /\ InChain(f, k) <=> \E i \in 1..Len(c) : pair[c[i]].key = k
                /\ InChain(f, k) => Position(f, k) \in 1..Len(c) /\ pair[c[Position(f, k)]].key = k
<1>1. PICK p, m : p = pair /\ m = made
  OBVIOUS
<1>2. m \in Nat /\ m <= MaxNodes /\ AllEnd(p, m) /\ f \in OfMade(m)
  BY <1>1, SizedIs DEF Sized
<1>3. PICK c : Ends(p, m, f, c)
  BY <1>2, ListFrom
<1>4. ChainOf(p, f) = c /\ c \in Seq(1..m) /\ Len(c) \in Nat
  BY <1>2, <1>3, EndsFacts
<1>5. Chain(f) = c /\ DOMAIN c = 1..Len(c)
  BY <1>1, <1>4, ChainIs
<1>6. InChain(f, k) <=> \E i \in 1..Len(c) : pair[c[i]].key = k
  BY <1>5 DEF InChain
<1>7. InChain(f, k) => Position(f, k) \in 1..Len(c) /\ pair[c[Position(f, k)]].key = k
  BY <1>4, <1>5, PositionIs
<1> QED BY <1>1, <1>3, <1>4, <1>5, <1>6, <1>7

\* It is the one with what is the bucket's.
LEMMA OwnIsTheList ==
  ASSUME NEW p, NEW m \in Nat, m <= MaxNodes, NEW t, NEW d, NEW g, Owns(p, m, t, d, g), NEW k \in Keys,
         NEW b \in 0..(d - 1), b = Index(k, d), NEW h, h = g[b], NEW s, Ends(p, m, h, s)
  PROVE  Own(p, m, t, d, Index(k, d), h, s) /\ Holds(p, s, k, t[k])
<1>1. PICK r : Own(p, m, t, d, b, h, r)
  BY DEF Owns
<1>2. Ends(p, m, h, r)
  BY <1>1 DEF Own
<1>3. r = s
  BY <1>2, EndsOnce
<1>4. Holds(p, s, k, t[k])
  BY <1>1, <1>3 DEF Own
<1> QED BY <1>1, <1>3, <1>4

LEMMA TurnsIs ==
  ASSUME TypeInv, NEW k, NEW e, Becomes(k, e)
  PROVE  Turns(truth, truth', k, e) /\ deleted' = (deleted \/ e = None)
BY DEF Becomes, Turns, TypeInv, TypeOK

\* No pair has a key that is in no list.
LEMMA NoOtherPair ==
  ASSUME NEW p, NEW m, NEW t, NEW g, NEW d, Sized(p, m, g, d), Faithful(p, 1..m, t),
         NEW s, NEW k, Holds(p, s, k, t[k]), \A i \in 1..Len(s) : p[s[i]].key # k
  PROVE  \A n \in 1..m : p[n].key # k
<1>1. t[k] = None
  BY DEF Holds
<1> QED BY <1>1 DEF Faithful, Sized

LEMMA FaithfulNewHead ==
  ASSUME NEW p, NEW q, NEW m \in Nat, NEW k, NEW e, NEW h, NEW t, NEW t1, HeadPut(p, q, m, k, e, h),
         Turns(t, t1, k, e), Keyed(p, m), Faithful(p, 1..m, t), \A n \in 1..m : p[n].key # k, k \in Keys
  PROVE  Faithful(q, 1..(m + 1), t1)
<1>1. \A n \in 1..(m + 1) : n \in 1..m \/ n = m + 1
  OBVIOUS
<1>2. \A n \in 1..m : q[n] = p[n]
  BY DEF HeadPut
<1>3. q[m + 1].key = k /\ q[m + 1].element = e
  BY DEF HeadPut
<1>4. \A n \in 1..m : q[n].key = p[n].key /\ q[n].element = p[n].element /\ p[n].key \in Keys /\ p[n].key # k
  BY <1>2 DEF Keyed
<1>5. \A n \in 1..m : t1[q[n].key] = q[n].element
  BY <1>4 DEF Turns, Faithful
<1>6. t1[q[m + 1].key] = q[m + 1].element
  BY <1>3 DEF Turns
<1>7. \A n \in 1..(m + 1) : t1[q[n].key] = q[n].element
  BY <1>1, <1>5, <1>6
<1>8. ASSUME NEW n \in 1..(m + 1), NEW x \in 1..(m + 1), q[n].key = q[x].key
      PROVE  n = x
  <2>1. CASE n = m + 1
    BY <1>1, <1>3, <1>4, <1>8, <2>1
  <2>2. CASE x = m + 1
    BY <1>1, <1>3, <1>4, <1>8, <2>2
  <2>3. CASE n \in 1..m /\ x \in 1..m
    BY <1>4, <1>8, <2>3 DEF Faithful
  <2> QED BY <1>1, <2>1, <2>2, <2>3
<1> QED BY <1>7, <1>8 DEF Faithful

LEMMA FaithfulElement ==
  ASSUME NEW p, NEW q, NEW m, NEW n \in 1..m, NEW k, NEW e, NEW t, NEW t1, ElementPut(p, q, m, n, k, e),
         Turns(t, t1, k, e), Faithful(p, 1..m, t)
  PROVE  Faithful(q, 1..m, t1)
<1>1. \A i \in 1..m : q[i].key = p[i].key /\ p[i].key \in Keys
  BY DEF ElementPut
<1>2. \A i \in 1..m : p[i].key = k => i = n
  BY DEF ElementPut, Faithful
<1>3. \A i \in 1..m : t1[q[i].key] = q[i].element
  BY <1>1, <1>2 DEF Faithful, Turns, ElementPut
<1> QED BY <1>1, <1>3 DEF Faithful

LEMMA PutNewGrows ==
  ASSUME TypeInv, ListsEnd, ListsEnd', GrowInv, NEW w \in Writers, NEW k \in Keys, PutNew(w, k)
  PROVE  GrowInv'
<1>1. PICK p, m, t, g, d, q, at, x, del, v, g1, t1, b, e, h, m1 :
        /\ p = pair /\ m = made /\ t = truth /\ g = first /\ d = bucketsLen /\ q = moving'
        /\ at = step' /\ x = next' /\ del = deleted' /\ v = pair' /\ g1 = first' /\ t1 = truth'
        /\ b = BucketOf(k) /\ e = ops + 1 /\ h = first[BucketOf(k)] /\ m1 = made + 1
  OBVIOUS
<1>2. /\ pair' = v /\ made' = m1 /\ truth' = t1 /\ first' = g1 /\ bucketsLen' = d /\ moving' = q
      /\ step' = at /\ next' = x /\ deleted' = del /\ at = "check" /\ lock = Free
      /\ m < MaxNodes /\ ~InChain(h, k) /\ v = [p EXCEPT ![m1] = [key |-> k, element |-> e, next |-> h]]
      /\ g1 = [g EXCEPT ![b] = m1] /\ Becomes(k, e) /\ m1 = m + 1 /\ h = g[b]
  BY <1>1 DEF PutNew, Enter
<1>3. /\ Sized(p, m, g, d) /\ Beyond(g, d) /\ b = Index(k, d) /\ b \in 0..(d - 1) /\ b \in Buckets
      /\ ~deleted => Faithful(p, 1..m, t)
      /\ (deleted => d <= 2 * InitialBuckets) => Owns(p, m, t, d, g)
      /\ g \in [Buckets -> Nodes \cup {None}] /\ p \in [Nodes -> Pair] /\ 1..m \subseteq Nodes
  BY <1>1, <1>2, Starting
<1>4. /\ m \in Nat /\ d \in Nat /\ MaxBuckets \in Nat /\ h \in OfMade(m) /\ m1 \in Nat /\ m <= m1 /\ m <= MaxNodes
      /\ m1 \in Nodes /\ m1 \notin 1..m /\ Keyed(p, m)
  <2>1. MaxNodes \in Nat
    BY CMapAssumption
  <2> QED BY <1>2, <1>3, <2>1 DEF Sized, Nodes
<1>5. e # None
  <2>1. ops \in Nat /\ None \notin Nat
    BY CMapAssumption DEF TypeInv, TypeOK
  <2> QED BY <1>1, <2>1
<1>6. /\ Turns(t, t1, k, e)
      /\ del <=> deleted
  <2>1. Turns(truth, truth', k, e) /\ deleted' = (deleted \/ e = None)
    BY <1>2, TurnsIs
  <2>2. deleted \in BOOLEAN
    BY DEF TypeInv, TypeOK
  <2> QED BY <1>1, <1>5, <2>1, <2>2
<1>7. HeadPut(p, v, m, k, e, h)
  <2>1. v[m1] = [key |-> k, element |-> e, next |-> h]
    BY <1>2, <1>3, <1>4
  <2>2. \A n \in 1..m : v[n] = p[n]
    BY <1>2, <1>3, <1>4
  <2>3. \A n \in 1..m : p[n].element # None /\ p[n].key \in Keys
    BY <1>3 DEF Sized, Keyed
  <2> QED BY <1>2, <2>1, <2>2, <2>3 DEF HeadPut
<1>8. Keeps(p, v, m, k, e)
  BY <1>7 DEF HeadPut, Keeps
<1>9. PICK s : Ends(p, m, h, s) /\ \A i \in 1..Len(s) : p[s[i]].key # k
  <2>1. h \in OfMade(made)
    BY <1>1, <1>4
  <2>2. PICK s : Ends(pair, made, h, s) /\ (InChain(h, k) <=> \E i \in 1..Len(s) : pair[s[i]].key = k)
    BY <2>1, BucketsListIs
  <2> QED BY <1>1, <1>2, <2>2
<1>10. AllEnd(v, m + 1)
  <2>1. AllEnd(pair', made')
    BY DEF ListsEnd, AllEnd
  <2> QED BY <1>2, <2>1
<1>11. Headed(g1, g, b, m1)
  BY <1>2, <1>3 DEF Headed
<1>12. Beyond(g1, d)
  BY <1>3, <1>4, <1>11, BeyondStays
<1>13. ASSUME del => d <= 2 * InitialBuckets
       PROVE  Owns(v, m1, t1, d, g1)
  <2>1. Owns(p, m, t, d, g)
    BY <1>3, <1>6, <1>13
  <2>2. Own(p, m, t, d, Index(k, d), h, s)
    BY <1>2, <1>3, <1>4, <1>9, <2>1, OwnIsTheList
  <2>3. \E r : Own(v, m + 1, t1, d, Index(k, d), m + 1, r)
    BY <1>2, <1>4, <1>6, <1>7, <1>9, <1>10, <2>2, OwnNewHead
  <2>4. g1[Index(k, d)] = m + 1 /\ \A c \in 0..(d - 1) : c # Index(k, d) => g1[c] = g[c]
    <3>1. \A c \in 0..(d - 1) : c \in Buckets
      BY <1>3, <1>4 DEF Sized, Buckets
    <3> QED BY <1>2, <1>3, <1>11, <3>1 DEF Headed
  <2>5. \E r : Own(v, m1, t1, d, Index(k, d), g1[Index(k, d)], r)
    BY <1>2, <2>3, <2>4
  <2>6. \A j \in Keys : j # k => t1[j] = t[j]
    BY <1>6 DEF Turns
  <2> QED BY <1>4, <1>8, <2>1, <2>4, <2>5, <2>6, OwnsGoOn
<1>14. ASSUME ~del
       PROVE  Faithful(v, 1..m1, t1)
  <2>1. Owns(p, m, t, d, g) /\ Faithful(p, 1..m, t)
    BY <1>3, <1>6, <1>14
  <2>2. Holds(p, s, k, t[k])
    BY <1>2, <1>3, <1>4, <1>9, <2>1, OwnIsTheList
  <2>3. \A n \in 1..m : p[n].key # k
    BY <1>3, <1>9, <2>1, <2>2, NoOtherPair
  <2> QED BY <1>2, <1>4, <1>6, <1>7, <2>1, <2>3, FaithfulNewHead
<1>15. GrowIs(v, m1, t1, g1, d, q, at, x, del)
  BY <1>2, <1>12, <1>13, <1>14 DEF GrowIs
<1> QED BY <1>2, <1>15, GrowThen

LEMMA PutReplaceGrows ==
  ASSUME TypeInv, ListsEnd, GrowInv, NEW w \in Writers, NEW k \in Keys, PutReplace(w, k)
  PROVE  GrowInv'
<1>1. PICK p, m, t, g, d, q, at, x, del, v, t1, b, e, h, z :
        /\ p = pair /\ m = made /\ t = truth /\ g = first /\ d = bucketsLen /\ q = moving
        /\ at = step /\ x = next /\ del = deleted' /\ v = pair' /\ t1 = truth'
        /\ b = BucketOf(k) /\ e = ops + 1 /\ h = first[BucketOf(k)]
        /\ z = Position(first[BucketOf(k)], k)
  OBVIOUS
<1>2. /\ pair' = v /\ made' = m /\ truth' = t1 /\ first' = g /\ bucketsLen' = d /\ moving' = q
      /\ step' = at /\ next' = x /\ deleted' = del /\ lock = Free
      /\ InChain(h, k) /\ v = [p EXCEPT ![Chain(h)[z]].element = e]
      /\ Becomes(k, e) /\ h = g[b]
  BY <1>1 DEF PutReplace, Enter
<1>3. /\ Sized(p, m, g, d) /\ Beyond(g, d) /\ b = Index(k, d) /\ b \in 0..(d - 1) /\ b \in Buckets
      /\ ~deleted => Faithful(p, 1..m, t)
      /\ (deleted => d <= 2 * InitialBuckets) => Owns(p, m, t, d, g)
      /\ p \in [Nodes -> Pair] /\ 1..m \subseteq Nodes
  BY <1>1, <1>2, Starting
<1>4. m \in Nat /\ m <= m /\ h \in OfMade(m) /\ m <= MaxNodes /\ Keyed(p, m) /\ at = "none"
  BY <1>1, <1>2, <1>3 DEF Sized, TypeInv, Held
<1>5. e # None
  <2>1. ops \in Nat /\ None \notin Nat
    BY CMapAssumption DEF TypeInv, TypeOK
  <2> QED BY <1>1, <2>1
<1>6. /\ Turns(t, t1, k, e)
      /\ del <=> deleted
  <2>1. Turns(truth, truth', k, e) /\ deleted' = (deleted \/ e = None)
    BY <1>2, TurnsIs
  <2>2. deleted \in BOOLEAN
    BY DEF TypeInv, TypeOK
  <2> QED BY <1>1, <1>5, <2>1, <2>2
<1>7. PICK s : Ends(p, m, h, s) /\ Chain(h) = s /\ s \in Seq(1..m) /\ z \in 1..Len(s) /\ p[s[z]].key = k
  <2>1. h \in OfMade(made)
    BY <1>1, <1>4
  <2>2. PICK s : /\ Ends(pair, made, h, s) /\ Chain(h) = s /\ s \in Seq(1..made)
                 /\ InChain(h, k) => Position(h, k) \in 1..Len(s) /\ pair[s[Position(h, k)]].key = k
    BY <2>1, BucketsListIs
  <2>3. z = Position(h, k)
    BY <1>1
  <2> QED BY <1>1, <1>2, <2>2, <2>3
<1>8. PICK n \in 1..m : n = s[z]
  BY <1>7, ElementOfSeq
<1>9. /\ \A i \in 1..m : v[i].key = p[i].key /\ v[i].next = p[i].next
      /\ \A i \in 1..m : i # n => v[i].element = p[i].element
      /\ v[n].element = e
  <2>1. \A i \in 1..m : i \in Nodes /\ p[i] \in Filled(m)
    BY <1>1, ListsOfMade DEF TypeInv, MadeNodes
  <2>2. v = [p EXCEPT ![n] = [p[n] EXCEPT !.element = e]]
    BY <1>2, <1>7, <1>8
  <2>3. v[n] = [p[n] EXCEPT !.element = e] /\ \A i \in 1..m : i # n => v[i] = p[i]
    BY <1>3, <2>1, <2>2
  <2>4. v[n].key = p[n].key /\ v[n].element = e /\ v[n].next = p[n].next
    BY <2>1, <2>3 DEF Filled
  <2> QED BY <2>3, <2>4
<1>10. ElementPut(p, v, m, n, k, e) /\ Keeps(p, v, m, k, e)
  <2>1. p[n].key = k /\ \A i \in 1..m : p[i].key \in Keys
    BY <1>4, <1>7, <1>8 DEF Keyed
  <2>2. ElementPut(p, v, m, n, k, e)
    BY <1>9, <2>1 DEF ElementPut
  <2>3. Keeps(p, v, m, k, e)
    BY <1>9, <2>1 DEF Keeps
  <2> QED BY <2>2, <2>3
<1>11. ASSUME del => d <= 2 * InitialBuckets
       PROVE  Owns(v, m, t1, d, g)
  <2>1. Owns(p, m, t, d, g)
    BY <1>3, <1>6, <1>11
  <2>2. Own(p, m, t, d, Index(k, d), h, s)
    BY <1>2, <1>3, <1>4, <1>7, <2>1, OwnIsTheList
  <2>3. ElementPut(p, v, m, s[z], k, e) /\ Turns(t, t1, k, e)
    BY <1>6, <1>8, <1>10
  <2>4. Own(v, m, t1, d, Index(k, d), h, s)
    BY <1>4, <1>7, <2>2, <2>3, OwnElement
  <2>5. \E r : Own(v, m, t1, d, Index(k, d), g[Index(k, d)], r)
    BY <1>2, <1>3, <2>4
  <2>6. /\ \A j \in Keys : j # k => t1[j] = t[j]
        /\ \A c \in 0..(d - 1) : c # Index(k, d) => g[c] = g[c]
    BY <1>6 DEF Turns
  <2> QED BY <1>4, <1>10, <2>1, <2>5, <2>6, OwnsGoOn
<1>12. ASSUME ~del
       PROVE  Faithful(v, 1..m, t1)
  BY <1>3, <1>6, <1>10, <1>12, FaithfulElement
<1>13. GrowIs(v, m, t1, g, d, q, at, x, del)
  BY <1>3, <1>4, <1>11, <1>12 DEF GrowIs
<1> QED BY <1>2, <1>13, GrowThen

LEMMA DeleteGrows ==
  ASSUME TypeInv, TypeInv', ListsEnd, ListsEnd', GrowInv, NEW w \in Writers, NEW k \in Keys, Delete(w, k)
  PROVE  GrowInv'
<1>1. PICK p, m, t, g, d, q, at, x, del, v, g1, t1, b, h, z, c, rest, h1 :
        /\ p = pair /\ m = made /\ t = truth /\ g = first /\ d = bucketsLen /\ q = moving'
        /\ at = step' /\ x = next' /\ del = deleted' /\ v = pair' /\ g1 = first' /\ t1 = truth'
        /\ b = BucketOf(k) /\ h = first[BucketOf(k)] /\ c = Chain(first[BucketOf(k)])
        /\ z = Position(first[BucketOf(k)], k) - 1
        /\ rest = p[c[z + 1]].next /\ h1 = IF z = 0 THEN rest ELSE m + 1
  OBVIOUS
<1>2. /\ pair' = v /\ made' = m + z /\ truth' = t1 /\ first' = g1 /\ bucketsLen' = d /\ moving' = q
      /\ step' = at /\ next' = x /\ deleted' = del /\ at = "check" /\ lock = Free
      /\ InChain(h, k) /\ m + z <= MaxNodes
      /\ v = [n \in Nodes |-> IF n \in (m + 1)..(m + z)
                THEN [p[c[n - m]] EXCEPT !.next = IF n - m = z THEN rest ELSE m + (n - m) + 1]
                ELSE p[n]]
      /\ g1 = [g EXCEPT ![b] = h1] /\ Becomes(k, None) /\ h = g[b]
  BY <1>1 DEF Delete, Enter
<1>3. /\ Sized(p, m, g, d) /\ Beyond(g, d) /\ b = Index(k, d) /\ b \in 0..(d - 1) /\ b \in Buckets
      /\ (deleted => d <= 2 * InitialBuckets) => Owns(p, m, t, d, g)
      /\ g \in [Buckets -> Nodes \cup {None}] /\ p \in [Nodes -> Pair] /\ 1..m \subseteq Nodes
  BY <1>1, <1>2, Starting
<1>4. /\ m \in Nat /\ d \in Nat /\ MaxBuckets \in Nat /\ MaxNodes \in Nat /\ h \in OfMade(m) /\ m <= MaxNodes
      /\ \A i \in 1..m : p[i].key \in Keys /\ p[i].next \in OfMade(m)
  BY <1>2, <1>3, CMapAssumption DEF Sized, Keyed
<1>5. /\ Turns(t, t1, k, None)
      /\ del = TRUE
  <2>1. Turns(truth, truth', k, None) /\ deleted' = (deleted \/ None = None)
    BY <1>2, TurnsIs
  <2> QED BY <1>1, <2>1
<1>6. /\ Ends(p, m, h, c) /\ c \in Seq(1..m) /\ Len(c) \in Nat /\ z + 1 \in 1..Len(c) /\ p[c[z + 1]].key = k
      /\ z \in Nat
  <2>1. h \in OfMade(made)
    BY <1>1, <1>4
  <2>2. PICK s : /\ Ends(pair, made, h, s) /\ Chain(h) = s /\ s \in Seq(1..made) /\ Len(s) \in Nat
                 /\ InChain(h, k) => Position(h, k) \in 1..Len(s) /\ pair[s[Position(h, k)]].key = k
    BY <2>1, BucketsListIs
  <2>3. PICK y : y = Position(h, k)
    OBVIOUS
  <2>4. y \in 1..Len(s) /\ pair[s[y]].key = k /\ z = y - 1 /\ c = s
    BY <1>1, <1>2, <2>2, <2>3
  <2>5. z + 1 = y /\ z \in Nat
    BY <2>2, <2>4
  <2> QED BY <1>1, <2>2, <2>4, <2>5
<1>7. \A i \in 1..z : i \in 1..Len(c) /\ c[i] \in 1..m
  <2>1. \A i \in 1..z : i \in 1..Len(c)
    BY <1>6
  <2> QED BY <1>6, <2>1, ElementOfSeq
<1>8. \A i \in 1..m : v[i] = p[i]
  <2>1. \A i \in 1..m : i \in Nodes /\ i \notin (m + 1)..(m + z)
    BY <1>3, <1>4, <1>6
  <2> QED BY <1>2, <2>1
<1>9. ASSUME NEW i \in 1..z
      PROVE  /\ v[m + i].key = p[c[i]].key /\ v[m + i].element = p[c[i]].element
             /\ v[m + i].next = IF i = z THEN rest ELSE m + i + 1
  <2>1. m + i \in Nodes /\ m + i \in (m + 1)..(m + z) /\ (m + i) - m = i
    BY <1>2, <1>4, <1>6 DEF Nodes
  <2>2. v[m + i] = [p[c[i]] EXCEPT !.next = IF i = z THEN rest ELSE m + i + 1]
    BY <1>2, <2>1
  <2>3. p[c[i]] \in Filled(m)
    <3>1. \A y \in 1..m : p[y] \in Filled(m)
      BY <1>1 DEF TypeInv, MadeNodes
    <3> QED BY <1>7, <3>1
  <2>4. PICK y : y = p[c[i]]
    OBVIOUS
  <2>5. PICK u : u = IF i = z THEN rest ELSE m + i + 1
    OBVIOUS
  <2>6. v[m + i] = [y EXCEPT !.next = u] /\ y \in Filled(m)
    BY <2>2, <2>3, <2>4, <2>5
  <2>7. v[m + i].key = y.key /\ v[m + i].element = y.element /\ v[m + i].next = u
    BY <2>6 DEF Filled
  <2> QED BY <2>4, <2>5, <2>7
<1>10. TakenOut(p, v, m, c, z)
  BY <1>1, <1>4, <1>8, <1>9 DEF TakenOut
<1>11. Keeps(p, v, m, k, None)
  BY <1>8 DEF Keeps
<1>12. AllEnd(v, m + z)
  <2>1. AllEnd(pair', made')
    BY DEF ListsEnd, AllEnd
  <2> QED BY <1>2, <2>1
<1>13. Headed(g1, g, b, h1)
  BY <1>2, <1>3 DEF Headed
<1>14. Beyond(g1, d)
  BY <1>3, <1>4, <1>13, BeyondStays
<1>15. ASSUME d <= 2 * InitialBuckets
       PROVE  Owns(v, m + z, t1, d, g1)
  <2>1. Owns(p, m, t, d, g)
    BY <1>3, <1>15
  <2>2. Own(p, m, t, d, Index(k, d), h, c)
    BY <1>2, <1>3, <1>4, <1>6, <2>1, OwnIsTheList
  <2>3. h1 \in OfMade(m + z) /\ h1 = IF z = 0 THEN p[c[z + 1]].next ELSE m + 1
    <3>1. c[z + 1] \in 1..m
      BY <1>6, ElementOfSeq
    <3>2. rest \in OfMade(m) /\ rest = p[c[z + 1]].next
      BY <1>1, <1>4, <3>1
    <3>3. z # 0 => m + 1 \in OfMade(m + z)
      BY <1>4, <1>6 DEF OfMade
    <3>4. h1 = IF z = 0 THEN rest ELSE m + 1
      BY <1>1
    <3>5. z = 0 => m + z = m
      BY <1>4
    <3> QED BY <3>2, <3>3, <3>4, <3>5
  <2>4. \E r : Own(v, m + z, t1, d, Index(k, d), h1, r)
    BY <1>2, <1>4, <1>5, <1>6, <1>10, <1>12, <2>2, <2>3, OwnRemoved
  <2>5. g1[Index(k, d)] = h1 /\ \A y \in 0..(d - 1) : y # Index(k, d) => g1[y] = g[y]
    <3>1. \A y \in 0..(d - 1) : y \in Buckets
      BY <1>3, <1>4 DEF Sized, Buckets
    <3> QED BY <1>3, <1>13, <3>1 DEF Headed
  <2>6. \E r : Own(v, m + z, t1, d, Index(k, d), g1[Index(k, d)], r)
    BY <2>4, <2>5
  <2>7. \A j \in Keys : j # k => t1[j] = t[j]
    BY <1>5 DEF Turns
  <2>8. m + z \in Nat /\ m <= m + z
    BY <1>4, <1>6
  <2> QED BY <1>4, <1>11, <2>1, <2>5, <2>6, <2>7, <2>8, OwnsGoOn
<1>16. GrowIs(v, m + z, t1, g1, d, q, at, x, del)
  BY <1>2, <1>5, <1>14, <1>15 DEF GrowIs
<1> QED BY <1>2, <1>16, GrowThen

LEMMA InitGrows == Init => GrowInv
<1> SUFFICES ASSUME Init
             PROVE  GrowInv
  OBVIOUS
<1>1. PICK p, m, t, g, d, q, at, x, del :
        /\ p = pair /\ m = made /\ t = truth /\ g = first /\ d = bucketsLen /\ q = moving
        /\ at = step /\ x = next /\ del = deleted
  OBVIOUS
<1>2. /\ m = 0 /\ t = [k \in Keys |-> None] /\ g = [b \in Buckets |-> None] /\ d = InitialBuckets
      /\ at = "none" /\ del = FALSE
  BY <1>1 DEF Init
<1>3. InitialBuckets \in Nat /\ MaxBuckets \in Nat /\ InitialBuckets <= MaxBuckets
  BY CMapAssumption, CMapBounds
<1>4. Beyond(g, d)
  BY <1>2 DEF Beyond
<1>5. Faithful(p, 1..m, t)
  BY <1>2 DEF Faithful
<1>6. ASSUME NEW b \in 0..(d - 1)
      PROVE  Own(p, m, t, d, b, g[b], << >>)
  <2>1. g[b] = None
    BY <1>2, <1>3 DEF Buckets
  <2>2. Ends(p, m, None, << >>)
    BY DEF Ends, ListOf, Once, PairAt
  <2>3. \A k \in Keys : Holds(p, << >>, k, t[k])
    BY <1>2 DEF Holds
  <2> QED BY <2>1, <2>2, <2>3 DEF Own
<1>7. Owns(p, m, t, d, g)
  BY <1>6 DEF Owns
<1>8. GrowIs(p, m, t, g, d, q, at, x, del)
  BY <1>2, <1>4, <1>5, <1>7 DEF GrowIs
<1> QED BY <1>1, <1>8 DEF GrowInv

LEMMA NextGrows == TypeInv /\ MapInv /\ ListsEnd /\ GrowInv /\ [Next]_vars => GrowInv'
<1> SUFFICES ASSUME TypeInv, MapInv, ListsEnd, GrowInv, [Next]_vars
             PROVE  GrowInv'
  OBVIOUS
<1>0. TypeInv' /\ ListsEnd'
  BY NextTyped, NextEnds
<1>1. ASSUME UNCHANGED <<pair, made, first, bucketsLen, step, next, moving, truth, deleted>>
      PROVE  GrowInv'
  BY <1>1, QuietGrows
<1>2. ASSUME NEW w \in Writers, NEW k \in Keys, PutNew(w, k) \/ PutReplace(w, k) \/ Delete(w, k)
      PROVE  GrowInv'
  BY <1>0, <1>2, PutNewGrows, PutReplaceGrows, DeleteGrows
<1>3. ASSUME NEW w \in Writers, UpdateTotal(w)
      PROVE  GrowInv'
  BY <1>1, <1>3 DEF UpdateTotal
<1>4. CASE Redistribute
  BY <1>0, <1>4, CheckGrows, ClearGrows, MoveToEmptyGrows, MoveToFoundGrows, MoveLinkGrows, MoveStoreGrows,
     MoveDoneGrows DEF Redistribute
<1>5. ASSUME NEW r \in Readers, ReadStep(r) \/ \E k \in Keys : GetBegin(r, k)
      PROVE  GrowInv'
  <2>1. UNCHANGED writerVars
    BY <1>5 DEF ReadStep, GetFirst, GetWalk, GetElement, GetEnd, GetBegin
  <2> QED BY <1>1, <2>1 DEF writerVars
<1>6. CASE UNCHANGED vars
  BY <1>1, <1>6 DEF vars, writerVars
<1> QED BY <1>2, <1>3, <1>4, <1>5, <1>6 DEF Next

\* A lookup finds what its bucket owns.
LEMMA OwnedIsFound ==
  ASSUME TypeInv, ListsEnd, NEW k \in Keys, Owns(pair, made, truth, bucketsLen, first)
  PROVE  Lookup(k) = truth[k]
<1>1. PICK p, m, t, g, d, b, h, z :
        /\ p = pair /\ m = made /\ t = truth /\ g = first /\ d = bucketsLen
        /\ b = BucketOf(k) /\ h = first[BucketOf(k)] /\ z = Position(first[BucketOf(k)], k)
  OBVIOUS
<1>2. /\ Sized(p, m, g, d) /\ b = Index(k, d) /\ b \in 0..(d - 1) /\ b \in Buckets /\ h = g[b]
      /\ Owns(p, m, t, d, g)
  BY <1>1, SizedIs, BucketIn, TargetIs
<1>3. m \in Nat /\ m <= MaxNodes /\ h \in OfMade(m) /\ \A n \in 1..m : p[n].element # None
  BY <1>2 DEF Sized
<1>4. PICK c : /\ Ends(p, m, h, c) /\ Chain(h) = c /\ c \in Seq(1..m)
               /\ InChain(h, k) <=> \E i \in 1..Len(c) : p[c[i]].key = k
               /\ InChain(h, k) => z \in 1..Len(c) /\ p[c[z]].key = k
  <2>1. h \in OfMade(made)
    BY <1>1, <1>3
  <2>2. PICK s : /\ Ends(pair, made, h, s) /\ Chain(h) = s /\ s \in Seq(1..made)
                 /\ InChain(h, k) <=> \E i \in 1..Len(s) : pair[s[i]].key = k
                 /\ InChain(h, k) => Position(h, k) \in 1..Len(s) /\ pair[s[Position(h, k)]].key = k
    BY <2>1, BucketsListIs
  <2>3. z = Position(h, k)
    BY <1>1
  <2> QED BY <1>1, <2>2, <2>3
<1>5. Holds(p, c, k, t[k])
  BY <1>2, <1>3, <1>4, OwnIsTheList
<1>6. Lookup(k) = IF InChain(h, k) THEN p[c[z]].element ELSE None
  <2>1. Lookup(k) = IF InChain(h, k) THEN p[Chain(h)[z]].element ELSE None
    BY <1>1 DEF Lookup
  <2> QED BY <1>4, <2>1
<1>7. CASE InChain(h, k)
  BY <1>1, <1>4, <1>5, <1>6, <1>7 DEF Holds
<1>8. CASE ~InChain(h, k)
  BY <1>1, <1>4, <1>5, <1>6, <1>8 DEF Holds
<1> QED BY <1>7, <1>8

\* What a segment is at every moment, redistributions included: the list of every
\* pair ends, the buckets have the present keys with their elements, and while
\* Redistribe is at work every present key is either in its new bucket or among
\* the pairs still to be put (redistributor.go:102-169).
THEOREM GrowthInvariance == Spec => [](TypeInv /\ MapInv /\ ListsEnd /\ GrowInv)
<1>1. Init => TypeInv /\ MapInv /\ ListsEnd /\ GrowInv
  BY InitTyped, InitMaps, InitEnds, InitGrows
<1>2. TypeInv /\ MapInv /\ ListsEnd /\ GrowInv /\ [Next]_vars => (TypeInv /\ MapInv /\ ListsEnd /\ GrowInv)'
  BY NextTyped, NextMaps, NextEnds, NextGrows
<1> QED BY <1>1, <1>2, PTL DEF Spec

\* However often the segment doubles its buckets, for any keys, hashes, threshold
\* and order of the Puts, between operations a lookup finds the element of the
\* last Put of its key; with Deletes this is so until the second redistribution,
\* which may bring a deleted pair back.  And no list ever runs into itself
\* (redistributor.go:102-169, bucket.go:49-158).
THEOREM GrowsAlwaysIntact == Spec => []GrowsIntact
<1>1. TypeInv /\ ListsEnd /\ GrowInv => GrowsIntact
  <2> SUFFICES ASSUME TypeInv, ListsEnd, GrowInv
               PROVE  GrowsFaithfully /\ NoCycles
    BY DEF GrowsIntact
  <2>1. ASSUME Settled, deleted => bucketsLen <= 2 * InitialBuckets, NEW k \in Keys
        PROVE  Lookup(k) = truth[k]
    <3>1. Owns(pair, made, truth, bucketsLen, first)
      BY <2>1, Starting DEF Settled
    <3> QED BY <3>1, OwnedIsFound
  <2>2. GrowsFaithfully
    BY <2>1 DEF GrowsFaithfully
  <2> QED BY <2>2, EndsNoCycles
<1> QED BY <1>1, GrowthInvariance, PTL
=============================================================================
