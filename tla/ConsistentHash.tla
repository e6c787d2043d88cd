--------------------------- MODULE ConsistentHash ---------------------------
(***************************************************************************)
(* src/Consistent_Hashing/src/consistent.go: members at several points of  *)
(* a circle of hash values; a name belongs to the next member clockwise.   *)
(* The lock makes every call atomic.                                       *)
(***************************************************************************)
EXTENDS Integers, FiniteSetsExt, SequencesExt

CONSTANTS Elts,
          Replicas,   \* 0..NumberOfReplicas - 1
          HashSpace,  \* bound: hash values are below it
          MaxNames,   \* bound: the names that one Set takes
          Hashes      \* bound: the hash functions of member and replica looked at

ASSUME HashAssumption ==
  /\ HashSpace \in Nat /\ MaxNames \in Nat
  /\ Hashes \subseteq [Elts \X Replicas -> 0..HashSpace - 1]

VARIABLES Circle, Members, SortedHashes, Count,
          hash  \* which of Hashes it is

hashVars == <<Circle, Members, SortedHashes, Count, hash>>

Keys == 0..HashSpace - 1
Injective == \A x, y \in DOMAIN hash : hash[x] = hash[y] => x = y
PointsOf(e) == {hash[e, i] : i \in Replicas}

HashTypeOK ==
  /\ DOMAIN Circle \subseteq Keys /\ \A k \in DOMAIN Circle : Circle[k] \in Elts
  /\ Members \subseteq Elts /\ Count \in Int
  /\ SortedHashes \in Seq(Keys) /\ hash \in Hashes

HashInit ==
  /\ Circle = << >> /\ Members = {} /\ SortedHashes = << >> /\ Count = 0
  /\ hash \in Hashes

\* add and remove, of the circle, the members and the count
Added(s, e) ==
  [circle |-> [k \in DOMAIN s.circle \cup PointsOf(e) |->
                 IF k \in PointsOf(e) THEN e ELSE s.circle[k]],
   members |-> s.members \cup {e}, count |-> s.count + 1]

\* Mutant: the points of the last replica stay.
RemovedButLast(s, e) ==
  [circle |-> [k \in DOMAIN s.circle \ {hash[e, i] : i \in Replicas \ {0}} |-> s.circle[k]],
   members |-> s.members \ {e}, count |-> s.count - 1]

Removed(s, e) ==
  [circle |-> [k \in DOMAIN s.circle \ PointsOf(e) |-> s.circle[k]],
   members |-> s.members \ {e}, count |-> s.count - 1]

Before == [circle |-> Circle, members |-> Members, count |-> Count]

\* updateSortedHashes: before the i-th hash there are i - 1 smaller ones.
Sorted(S) ==
  [i \in 1..Cardinality(S) |-> CHOOSE k \in S : Cardinality({l \in S : l < k}) = i - 1]

Becomes(s) ==
  /\ Circle' = s.circle /\ Members' = s.members /\ Count' = s.count
  /\ SortedHashes' = Sorted(DOMAIN s.circle)
  /\ UNCHANGED hash

\* Add and Remove do not look whether e is a member.
AddMember(e) == Becomes(Added(Before, e))

RemoveMember(e) == Becomes(Removed(Before, e))

\* Set: who is not in elts goes first, then who is new is added, in the order of
\* elts, which may name a member twice; a point of several of them is the last one's.
SetMembers(elts) ==
  LET going == Members \ ToSet(elts)
      coming == ToSet(elts) \ Members
      owners(k) == {e \in coming : k \in PointsOf(e)}
      place(e) == CHOOSE i \in DOMAIN elts : elts[i] = e /\ \A j \in 1..i - 1 : elts[j] # e
      newest(k) == CHOOSE e \in owners(k) : \A f \in owners(k) : place(f) <= place(e)
      stay == DOMAIN Circle \ UNION {PointsOf(e) : e \in going}
      come == UNION {PointsOf(e) : e \in coming}
  IN  Becomes([circle |-> [k \in stay \cup come |-> IF k \in come THEN newest(k) ELSE Circle[k]],
               members |-> ToSet(elts),
               count |-> Count - Cardinality(going) + Cardinality(coming)])

HashNext ==
  \/ \E e \in Elts : AddMember(e) \/ RemoveMember(e)
  \/ \E elts \in BoundedSeq(Elts, MaxNames) : SetMembers(elts)

\* bound: Add of a member and Remove of another make Count drift.
CountIsSmall == Count \in -2..Cardinality(Elts) + 1

HashSpec == HashInit /\ [][HashNext /\ CountIsSmall']_hashVars

-----------------------------------------------------------------------------
(* Looking up, of a circle that is not empty.                              *)

\* Mutant: the member after the last point is not looked for at the first one.
SearchLast(key) ==
  LET above == {i \in DOMAIN SortedHashes : SortedHashes[i] > key}
  IN  IF above = {} THEN Len(SortedHashes) ELSE CHOOSE i \in above : i - 1 \notin above

\* Mutant: the key modulo the number of points.
SearchModulo(key) == (key % Len(SortedHashes)) + 1

\* search: the first hash above the key, or the first one
Search(key) ==
  LET above == {i \in DOMAIN SortedHashes : SortedHashes[i] > key}
  IN  IF above = {} THEN 1 ELSE CHOOSE i \in above : i - 1 \notin above

GetMember(key) == Circle[SortedHashes[Search(key)]]

\* The j-th member that GetTwo and GetN come across, going round from the key.
OnTheWay(key, j) ==
  Circle[SortedHashes[((Search(key) + j - 1) % Len(SortedHashes)) + 1]]

\* The different members in the order in which they meet them: those that are not
\* in res yet.
Met(key) ==
  LET new == Sorted({j \in 0..Len(SortedHashes) - 1 :
                       \A i \in 0..j - 1 : OnTheWay(key, i) # OnTheWay(key, j)})
  IN  [i \in DOMAIN new |-> OnTheWay(key, new[i])]

\* how many members GetN looks for
Wanted(n) == IF Count < n THEN Count ELSE n

\* The loops of GetTwo and GetN end when they have found enough, or are back at
\* the start: they set the index 0 and increment it before they compare it, so
\* a start of 0 is never met again.
ReturnsTwo(key) == Count = 1 \/ Len(Met(key)) > 1 \/ Search(key) # 1

ReturnsN(key, n) == Wanted(n) \in 1..Len(Met(key)) \/ Search(key) # 1

\* GetN, when it returns: it looks whether it has enough after the first member
\* and after each that follows, so that it takes every member when none is wanted.
\* (n and Count are not negative: make panics then.)
GetN(key, n) ==
  IF Wanted(n) \in 1..Len(Met(key)) THEN SubSeq(Met(key), 1, Wanted(n)) ELSE Met(key)

-----------------------------------------------------------------------------
(* Properties.                                                             *)

\* How far clockwise of the key the nearest point of e is.
Distance(key, e) == Min({(p - key - 1) % HashSpace : p \in PointsOf(e)})

\* Hashes do not collide, and no Add of a member or Remove of another made the
\* count drift (consistent.go:82 and 100).
Sound == Injective /\ Count = Cardinality(Members) /\ Circle # << >>

\* Get and GetN give the nearest members clockwise, each once, nearest first
\* (consistent.go:163 and 238), whatever was added, removed and set before.
NearestMembers ==
  Sound =>
    \A key \in Keys, n \in 1..Cardinality(Members) + 1 :
      LET res == GetN(key, n)
      IN  /\ Len(res) = Min({n, Cardinality(Members)})
          /\ GetMember(key) = res[1]
          /\ \A i \in DOMAIN res, e \in Members :
               \/ Distance(key, res[i]) <= Distance(key, e)
               \/ \E j \in 1..i - 1 : res[j] = e

\* GetTwo, and GetN of one member or more, come back: they loop with the lock held
\* (consistent.go:213 and 265), until they have as many members as the count
\* promises.  GetN of no member comes back too, with every member, but not from a
\* key whose search begins at the first point: from there it loops for ever.
LookupsReturn ==
  Sound =>
    \A key \in Keys :
      /\ ReturnsTwo(key)
      /\ \A n \in 0..Cardinality(Members) + 1 : ReturnsN(key, n) <=> n > 0 \/ Search(key) # 1
      /\ ToSet(GetN(key, 0)) = Members

\* Which lookups come back, and that they do with the members that they should.
LookupsAreRight == NearestMembers /\ LookupsReturn

\* Points that two members hash to change hands, but they never belong to
\* somebody who is not a member, and what is searched is what is there.
CircleIsOfMembers ==
  /\ HashTypeOK
  /\ \A k \in DOMAIN Circle : Circle[k] \in Members /\ k \in PointsOf(Circle[k])
  /\ ToSet(SortedHashes) = DOMAIN Circle
  /\ \A i, j \in DOMAIN SortedHashes : i < j => SortedHashes[i] < SortedHashes[j]

\* What consistent hashing is for: a name moves only away from a member that is
\* gone, or to a member that is new.
OnlyNeededKeysMove == [][
  \A key \in Keys :
    Injective /\ Circle # << >> /\ Circle' # << >> /\ GetMember(key)' # GetMember(key)
      => GetMember(key) \notin Members' \/ GetMember(key)' \notin Members
  ]_hashVars
=============================================================================
