-------------------------- MODULE CoroutineProofs ---------------------------
(***************************************************************************)
(* Proofs about Coroutine: the run queue holds exactly who can go on, no   *)
(* timer or event names a coroutine whose memory is freed, and of the      *)
(* callers only one that was killed and then called can be.                *)
(*                                                                         *)
(* A step of a coroutine that is switched away first leaves its changes    *)
(* behind and is then destroyed, if its exit flag is set.  The parts of    *)
(* the invariant therefore have what they speak of as parameters: they are *)
(* shown for what the caller of SwitchTo leaves, then for what SwitchTo    *)
(* makes of it.                                                            *)
(***************************************************************************)
EXTENDS Coroutine, FiniteSetTheorems, SequenceTheorems, TLAPS

\* A ring of different nodes through the main thread's.
RingOf(r) ==
  /\ r \in Seq(0..MaxCo)
  /\ \A i, j \in DOMAIN r : r[i] = r[j] => i = j
  /\ Len(r) > 0 /\ r[1] = 0

Places == Blocked \cup {"unused", "new", "user", "call", "dead", "poll", "wakeup", "end"}

LiveIn(a) == {n \in Cos : a[n] \notin {"unused", "dead"}}

\* Who can go on is in the ring r; at is a, child is c.
PlacesOK(r, a, c) ==
  /\ a \in [0..MaxCo -> Places]
  /\ a[0] \in {"user", "poll", "wakeup", "end"}
  /\ \A n \in Cos : a[n] \notin {"poll", "wakeup", "end"}
  /\ \A n \in LiveIn(a) :
       /\ c[n] # None => a[n] = "call" /\ ~Contains(r, n)
       /\ c[n] = None => a[n] # "call" /\ (Contains(r, n) \/ a[n] \in Blocked)
  /\ \A n \in Cos : Contains(r, n) => n \in LiveIn(a)

\* The calls of a created coroutine are a chain: of two of them the one made
\* earlier has a callee, made no later than the other.  m is made.
CallsOK(a, p, c, t, m) ==
  /\ m \in 0..MaxCo
  /\ p \in [Cos -> Cos \cup {None}] /\ c \in [Cos -> Cos \cup {None}] /\ t \in [Cos -> Cos]
  /\ \A n \in Cos : (a[n] = "unused") <=> (n > m)
  /\ \A n \in Cos : a[n] = "unused" => p[n] = None /\ c[n] = None
  /\ \A n \in Cos : p[n] = None => t[n] = n
  /\ \A n \in Cos : p[n] # None => p[n] < n /\ t[n] = t[p[n]]
  /\ \A n \in Cos : t[n] <= n /\ p[t[n]] = None
  /\ \A n \in LiveIn(a) : t[n] \in LiveIn(a)
  /\ \A n \in LiveIn(a) : p[n] # None => p[n] \in LiveIn(a) /\ c[p[n]] = n
  /\ \A n, k \in LiveIn(a) : t[n] = t[k] /\ n < k => c[n] # None /\ c[n] <= k

\* Exit flags are set of created coroutines only.
ExitOK(e, a, p) == \A n \in e : n \in Cos /\ a[n] # "unused" /\ p[n] = None

\* The timers tr and sleep keys s; top is t.
SleepOK(a, t, tr, s) ==
  /\ tr \subseteq Cos /\ s \in [Cos -> Cos \cup {None}]
  /\ \A n \in tr : n \in LiveIn(a) /\ a[n] = "sleep" /\ s[t[n]] = n
  /\ \A n \in Cos : s[n] # None => /\ n \in LiveIn(a) /\ s[n] \in LiveIn(a)
                                   /\ t[s[n]] = n /\ a[s[n]] = "sleep"

\* Descriptors f belong to created coroutines, and the event tree w knows whose;
\* ed is edge.
EventsOK(a, p, f, w, ed) ==
  /\ f \in [Cos -> Fds \cup {None}] /\ w \in [Fds -> Cos \cup {None}] /\ ed \subseteq Fds
  /\ \A n \in Cos : f[n] # None => n \in LiveIn(a) /\ p[n] = None
  /\ \A g \in Fds : w[g] # None => f[w[g]] = g
  /\ \A g \in ed : w[g] # None

CountersOK ==
  /\ when \in [Cos -> 0..MaxTime] /\ data \subseteq Fds /\ room \subseteq Fds
  /\ polling \in 0..MaxPolling /\ now \in 0..MaxTime /\ ops \in 0..MaxOps

\* What a coroutine leaves behind, and what is there between two steps.
Consistent(r, e, a, p, c, t, m, tr, s, f, w, ed) ==
  /\ RingOf(r)
  /\ PlacesOK(r, a, c)
  /\ CallsOK(a, p, c, t, m)
  /\ ExitOK(e, a, p)
  /\ SleepOK(a, t, tr, s)
  /\ EventsOK(a, p, f, w, ed)

IInv ==
  /\ Consistent(ring, exit, at, parent, child, top, made, tree, sleeper, fd, watch, edge)
  /\ current \in 0..MaxCo /\ Contains(ring, current)
  /\ CountersOK

\* Where the program's behaviour becomes undefined: a killed coroutine has called
\* and is destroyed, and that is all that is wrong.
Lost == CallerFreed /\ RingIsRunnable /\ NobodyIsFreedEarly

Reached == IInv \/ Lost

-----------------------------------------------------------------------------
(* The ring.                                                               *)

LEMMA AtPosition ==
  ASSUME NEW r, NEW n, RingOf(r), Contains(r, n)
  PROVE  PositionOf(r, n) \in 1..Len(r) /\ r[PositionOf(r, n)] = n /\ Len(r) \in Nat
<1>1. r \in Seq(0..MaxCo)
  BY DEF RingOf
<1>2. \E i \in DOMAIN r : r[i] = n
  BY <1>1 DEF Contains
<1>3. PositionOf(r, n) \in DOMAIN r /\ r[PositionOf(r, n)] = n
  BY <1>2 DEF PositionOf
<1> QED BY <1>1, <1>3

LEMMA Appended ==
  ASSUME NEW r, NEW n \in Cos, RingOf(r), ~Contains(r, n)
  PROVE  /\ RingOf(Append(r, n))
         /\ \A k : Contains(Append(r, n), k) <=> Contains(r, k) \/ k = n
<1>1. r \in Seq(0..MaxCo) /\ Len(r) \in Nat /\ n \in 0..MaxCo
  BY CoroutineAssumption DEF RingOf, Cos
<1> DEFINE q == Append(r, n)
<1>2. /\ q \in Seq(0..MaxCo) /\ Len(q) = Len(r) + 1
      /\ \A i \in 1..Len(q) : q[i] = IF i <= Len(r) THEN r[i] ELSE n
  BY <1>1
<1> HIDE DEF q
<1>3. \A k : Contains(q, k) <=> Contains(r, k) \/ k = n
  BY <1>1, <1>2 DEF Contains
<1>4. RingOf(q)
  BY <1>1, <1>2 DEF RingOf, Contains
<1> QED BY <1>3, <1>4 DEF q

LEMMA Joined ==
  ASSUME NEW r, NEW S, NEW q \in SetToSeqs(S), RingOf(r), S \subseteq Cos,
         \A n \in S : ~Contains(r, n)
  PROVE  /\ RingOf(r \o q)
         /\ \A k : Contains(r, k) => Contains(r \o q, k)
         /\ \A k : Contains(r \o q, k) => Contains(r, k) \/ k \in S
<1>1. r \in Seq(0..MaxCo) /\ Len(r) \in Nat /\ S \subseteq 0..MaxCo
  BY CoroutineAssumption DEF RingOf, Cos
<1>2. IsFiniteSet(S)
  <2>1. MaxCo \in Int /\ 1 \in Int
    BY CoroutineAssumption
  <2>2. IsFiniteSet(1..MaxCo)
    BY <2>1, FS_Interval
  <2> QED BY <2>2, FS_Subset DEF Cos
<1>3. Cardinality(S) \in Nat
  BY <1>2, FS_CardinalityType
<1>4. /\ q \in [1..Cardinality(S) -> S]
      /\ \A i, j \in 1..Cardinality(S) : i # j => q[i] # q[j]
  BY DEF SetToSeqs
<1>5. q \in Seq(0..MaxCo) /\ Len(q) = Cardinality(S) /\ Len(q) \in Nat
  <2>1. PICK m \in Nat : m = Cardinality(S)
    BY <1>3
  <2>2. q \in [1..m -> 0..MaxCo]
    BY <1>1, <1>4, <2>1
  <2>3. q \in Seq(0..MaxCo)
    BY <2>2, SeqDef
  <2>4. Len(q) = m
    BY <2>2, <2>3, LenProperties
  <2> QED BY <2>1, <2>3, <2>4
<1> DEFINE c == r \o q
<1>6. /\ c \in Seq(0..MaxCo) /\ Len(c) = Len(r) + Len(q)
      /\ \A i \in 1..Len(c) : c[i] = IF i <= Len(r) THEN r[i] ELSE q[i - Len(r)]
  BY <1>1, <1>5
<1>7. \A i \in 1..Len(q) : q[i] \in S
  BY <1>4, <1>5
<1> HIDE DEF c
<1>8. \A i \in 1..Len(c) : i <= Len(r) \/ (i - Len(r) \in 1..Len(q) /\ c[i] = q[i - Len(r)])
  BY <1>1, <1>5, <1>6
<1>9. \A k : Contains(c, k) => Contains(r, k) \/ k \in S
  BY <1>1, <1>6, <1>7, <1>8 DEF Contains
<1>10. \A k : Contains(r, k) => Contains(c, k)
  BY <1>1, <1>5, <1>6 DEF Contains
<1>11. \A i, j \in 1..Len(c) : c[i] = c[j] => i = j
  <2> SUFFICES ASSUME NEW i \in 1..Len(c), NEW j \in 1..Len(c), c[i] = c[j]
               PROVE  i = j
    OBVIOUS
  <2>1. i <= Len(r) => i \in 1..Len(r) /\ c[i] = r[i]
    BY <1>1, <1>6
  <2>2. j <= Len(r) => j \in 1..Len(r) /\ c[j] = r[j]
    BY <1>1, <1>6
  <2>3. i <= Len(r) => Contains(r, c[i])
    BY <2>1 DEF Contains
  <2>4. j <= Len(r) => Contains(r, c[j])
    BY <2>2 DEF Contains
  <2>5. ~(i <= Len(r)) => c[i] \in S /\ c[i] = q[i - Len(r)] /\ i - Len(r) \in 1..Len(q)
    BY <1>7, <1>8
  <2>6. ~(j <= Len(r)) => c[j] \in S /\ c[j] = q[j - Len(r)] /\ j - Len(r) \in 1..Len(q)
    BY <1>7, <1>8
  <2>7. CASE i <= Len(r) /\ j <= Len(r)
    BY <2>1, <2>2, <2>7 DEF RingOf
  <2>8. CASE ~(i <= Len(r)) /\ ~(j <= Len(r))
    <3>1. i - Len(r) = j - Len(r)
      BY <1>4, <1>5, <2>5, <2>6, <2>8
    <3> QED BY <3>1, <1>1, <1>6
  <2> QED BY <2>3, <2>4, <2>5, <2>6, <2>7, <2>8
<1>12. RingOf(c)
  <2>1. Len(c) > 0 /\ c[1] = 0
    BY <1>1, <1>5, <1>6 DEF RingOf
  <2>2. DOMAIN c = 1..Len(c)
    BY <1>6
  <2> QED BY <1>6, <1>11, <2>1, <2>2 DEF RingOf
<1> QED BY <1>9, <1>10, <1>12 DEF c

LEMMA WithoutOne ==
  ASSUME NEW r, NEW n \in Cos, RingOf(r)
  PROVE  /\ RingOf(Unlinked(r, n))
         /\ \A k : Contains(Unlinked(r, n), k) <=> Contains(r, k) /\ k # n
<1>1. CASE ~Contains(r, n)
  BY <1>1 DEF Unlinked
<1>2. CASE Contains(r, n)
  <2> DEFINE p == PositionOf(r, n)
             q == RemoveAt(r, p)
  <2>1. p \in 1..Len(r) /\ r[p] = n /\ Len(r) \in Nat /\ r \in Seq(0..MaxCo) /\ p # 1
    <3>1. p \in 1..Len(r) /\ r[p] = n /\ Len(r) \in Nat
      BY <1>2, AtPosition
    <3>2. p # 1
      BY <3>1, CoroutineAssumption DEF RingOf, Cos
    <3> QED BY <3>1, <3>2 DEF RingOf
  <2> HIDE DEF p
  <2>2. /\ q \in Seq(0..MaxCo) /\ Len(q) = Len(r) - 1
        /\ \A i \in 1..Len(q) : q[i] = IF i < p THEN r[i] ELSE r[i + 1]
    <3> DEFINE a == SubSeq(r, 1, p - 1)
               b == SubSeq(r, p + 1, Len(r))
    <3>1. /\ a \in Seq(0..MaxCo) /\ Len(a) = p - 1 /\ \A i \in 1..Len(a) : a[i] = r[i]
      <4>1. 1 \in Int /\ p - 1 \in Int /\ \A i \in 1..p - 1 : r[i] \in 0..MaxCo
        <5>1. p \in Int /\ \A i \in 1..p - 1 : i \in 1..Len(r)
          BY <2>1
        <5>2. \A i \in 1..p - 1 : r[i] \in 0..MaxCo
          BY <2>1, <5>1, ElementOfSeq
        <5> QED BY <5>1, <5>2
      <4>2. /\ a \in Seq(0..MaxCo) /\ Len(a) = IF 1 <= p - 1 THEN (p - 1) - 1 + 1 ELSE 0
            /\ \A i \in 1..((p - 1) - 1 + 1) : a[i] = r[1 + i - 1]
        BY <4>1, SubSeqProperties
      <4> QED BY <2>1, <4>2
    <3>2. /\ b \in Seq(0..MaxCo) /\ Len(b) = Len(r) - p /\ \A i \in 1..Len(b) : b[i] = r[p + i]
      <4>1. p + 1 \in Int /\ Len(r) \in Int /\ \A i \in p + 1..Len(r) : r[i] \in 0..MaxCo
        <5>1. p \in Int /\ \A i \in p + 1..Len(r) : i \in 1..Len(r)
          BY <2>1
        <5>2. \A i \in p + 1..Len(r) : r[i] \in 0..MaxCo
          BY <2>1, <5>1, ElementOfSeq
        <5> QED BY <2>1, <5>1, <5>2
      <4>2. /\ b \in Seq(0..MaxCo)
            /\ Len(b) = IF p + 1 <= Len(r) THEN Len(r) - (p + 1) + 1 ELSE 0
            /\ \A i \in 1..(Len(r) - (p + 1) + 1) : b[i] = r[(p + 1) + i - 1]
        BY <4>1, SubSeqProperties
      <4> QED BY <2>1, <4>2
    <3>3. q = a \o b
      BY DEF RemoveAt
    <3> HIDE DEF a, b, q
    <3>4. /\ q \in Seq(0..MaxCo) /\ Len(q) = Len(a) + Len(b)
          /\ \A i \in 1..Len(q) : q[i] = IF i <= Len(a) THEN a[i] ELSE b[i - Len(a)]
      BY <3>1, <3>2, <3>3, ConcatProperties
    <3>5. Len(q) = Len(r) - 1
      BY <2>1, <3>1, <3>2, <3>4
    <3>6. ASSUME NEW i \in 1..Len(q)
          PROVE  q[i] = IF i < p THEN r[i] ELSE r[i + 1]
      <4>1. i < p => i \in 1..Len(a) /\ q[i] = a[i] /\ a[i] = r[i]
        BY <2>1, <3>1, <3>4, <3>5
      <4>2. ~(i < p) => /\ i - Len(a) \in 1..Len(b) /\ q[i] = b[i - Len(a)]
                        /\ b[i - Len(a)] = r[p + (i - Len(a))] /\ p + (i - Len(a)) = i + 1
        BY <2>1, <3>1, <3>2, <3>4, <3>5
      <4> QED BY <4>1, <4>2
    <3> QED BY <3>4, <3>5, <3>6
  <2> HIDE DEF q
  <2>3. /\ \A i \in 1..Len(q) : i < p => q[i] = r[i] /\ i \in 1..Len(r)
        /\ \A i \in 1..Len(q) : ~(i < p) => q[i] = r[i + 1] /\ i + 1 \in 1..Len(r)
    BY <2>1, <2>2
  <2>4. \A i, j \in 1..Len(r) : r[i] = r[j] => i = j
    BY <2>1 DEF RingOf
  <2>5. ASSUME NEW k, Contains(q, k)
        PROVE  Contains(r, k) /\ k # n
    <3>1. PICK i \in 1..Len(q) : q[i] = k
      BY <2>5 DEF Contains
    <3>2. CASE i < p
      <4>1. r[i] = k /\ i \in 1..Len(r) /\ i # p
        BY <2>1, <2>3, <3>1, <3>2
      <4> QED BY <2>1, <2>4, <4>1 DEF Contains
    <3>3. CASE ~(i < p)
      <4>1. r[i + 1] = k /\ i + 1 \in 1..Len(r) /\ i + 1 # p
        BY <2>1, <2>3, <3>1, <3>3
      <4> QED BY <2>1, <2>4, <4>1 DEF Contains
    <3> QED BY <3>2, <3>3
  <2>6. ASSUME NEW k, Contains(r, k), k # n
        PROVE  Contains(q, k)
    <3>1. PICK i \in 1..Len(r) : r[i] = k
      BY <2>6 DEF Contains
    <3>2. i # p
      BY <2>1, <2>6, <3>1
    <3>3. CASE i < p
      <4>1. i \in 1..Len(q) /\ q[i] = k
        BY <2>1, <2>2, <3>1, <3>3
      <4> QED BY <4>1 DEF Contains
    <3>4. CASE i > p
      <4>1. i - 1 \in 1..Len(q) /\ q[i - 1] = k
        <5>1. i - 1 \in 1..Len(q) /\ ~(i - 1 < p) /\ (i - 1) + 1 = i
          BY <2>1, <2>2, <3>1, <3>4
        <5> QED BY <2>2, <3>1, <5>1
      <4> QED BY <4>1 DEF Contains
    <3> QED BY <2>1, <3>2, <3>3, <3>4
  <2>7. \A i, j \in 1..Len(q) : q[i] = q[j] => i = j
    <3> SUFFICES ASSUME NEW i \in 1..Len(q), NEW j \in 1..Len(q), q[i] = q[j]
                 PROVE  i = j
      OBVIOUS
    <3>1. CASE i < p /\ j < p
      BY <2>3, <2>4, <3>1
    <3>2. CASE ~(i < p) /\ ~(j < p)
      <4>1. i + 1 = j + 1
        BY <2>3, <2>4, <3>2
      <4> QED BY <4>1, <2>1, <2>2
    <3>3. CASE i < p /\ ~(j < p)
      <4>1. i = j + 1
        BY <2>3, <2>4, <3>3
      <4> QED BY <4>1, <2>1, <2>2, <3>3
    <3>4. CASE ~(i < p) /\ j < p
      <4>1. i + 1 = j
        BY <2>3, <2>4, <3>4
      <4> QED BY <4>1, <2>1, <2>2, <3>4
    <3> QED BY <3>1, <3>2, <3>3, <3>4
  <2>8. Len(q) > 0 /\ q[1] = 0 /\ DOMAIN q = 1..Len(q)
    <3>1. 1 \in 1..Len(q) /\ 1 < p
      BY <2>1, <2>2
    <3> QED BY <2>2, <2>3, <3>1 DEF RingOf
  <2>9. RingOf(q)
    BY <2>2, <2>7, <2>8 DEF RingOf
  <2>10. Unlinked(r, n) = q
    BY <1>2 DEF Unlinked, p, q
  <2> QED BY <2>5, <2>6, <2>9, <2>10
<1> QED BY <1>1, <1>2

\* One more at any place but the first.
LEMMA Renumbered ==
  ASSUME NEW r, NEW p \in 1..Len(r), NEW n, NEW q \in Seq(0..MaxCo),
         RingOf(r), ~Contains(r, n),
         Len(q) = Len(r) + 1, q[p + 1] = n, \A i \in 1..p : q[i] = r[i],
         \A i \in p + 1..Len(r) : q[i + 1] = r[i]
  PROVE  /\ RingOf(q)
         /\ \A k : Contains(q, k) <=> Contains(r, k) \/ k = n
<1>1. /\ Len(r) \in Nat /\ p \in Int /\ DOMAIN q = 1..Len(r) + 1
      /\ \A i, j \in 1..Len(r) : r[i] = r[j] => i = j
  BY DEF RingOf
<1> DEFINE was(i) == IF i <= p THEN i ELSE i - 1
<1>2. \A i \in 1..Len(q) : i = p + 1 \/ (was(i) \in 1..Len(r) /\ q[i] = r[was(i)])
  <2> SUFFICES ASSUME NEW i \in 1..Len(q), i # p + 1
               PROVE  was(i) \in 1..Len(r) /\ q[i] = r[was(i)]
    OBVIOUS
  <2>1. CASE i <= p
    BY <1>1, <2>1
  <2>2. CASE ~(i <= p)
    <3>1. i - 1 \in p + 1..Len(r) /\ (i - 1) + 1 = i
      BY <1>1, <2>2
    <3> QED BY <1>1, <2>2, <3>1
  <2> QED BY <2>1, <2>2
<1>3. ASSUME NEW k, Contains(q, k)
      PROVE  Contains(r, k) \/ k = n
  BY <1>2, <1>3 DEF Contains
<1>4. Contains(q, n)
  <2>1. p + 1 \in 1..Len(q)
    BY <1>1
  <2> QED BY <2>1 DEF Contains
<1>5. ASSUME NEW k, Contains(r, k)
      PROVE  Contains(q, k)
  <2>1. PICK i \in 1..Len(r) : r[i] = k
    BY <1>5 DEF Contains
  <2>2. CASE i <= p
    <3>1. i \in 1..p /\ i \in 1..Len(q)
      BY <1>1, <2>2
    <3> QED BY <2>1, <3>1 DEF Contains
  <2>3. CASE ~(i <= p)
    <3>1. i \in p + 1..Len(r) /\ i + 1 \in 1..Len(q)
      BY <1>1, <2>3
    <3> QED BY <2>1, <3>1 DEF Contains
  <2> QED BY <2>2, <2>3
<1>6. \A i, j \in 1..Len(q) : q[i] = q[j] => i = j
  <2> SUFFICES ASSUME NEW i \in 1..Len(q), NEW j \in 1..Len(q), q[i] = q[j]
               PROVE  i = j
    OBVIOUS
  <2>1. CASE i = p + 1 \/ j = p + 1
    <3>1. q[i] = n /\ q[j] = n
      BY <2>1
    <3>2. \A x \in 1..Len(r) : r[x] # n
      BY DEF Contains
    <3> QED BY <1>2, <3>1, <3>2
  <2>2. CASE i # p + 1 /\ j # p + 1
    <3>1. PICK x \in 1..Len(r) : x = was(i) /\ q[i] = r[x]
      BY <1>2, <2>2
    <3>2. PICK y \in 1..Len(r) : y = was(j) /\ q[j] = r[y]
      BY <1>2, <2>2
    <3>3. x = y
      BY <1>1, <3>1, <3>2
    <3> QED BY <1>1, <2>2, <3>1, <3>2, <3>3
  <2> QED BY <2>1, <2>2
<1>7. Len(q) > 0 /\ q[1] = 0
  BY <1>1 DEF RingOf
<1> QED BY <1>1, <1>3, <1>4, <1>5, <1>6, <1>7 DEF RingOf

LEMMA OneInserted ==
  ASSUME NEW r, NEW p \in 1..Len(r), NEW n \in Cos, RingOf(r), ~Contains(r, n)
  PROVE  /\ RingOf(InsertAt(r, p + 1, n))
         /\ \A k : Contains(InsertAt(r, p + 1, n), k) <=> Contains(r, k) \/ k = n
<1> DEFINE q == InsertAt(r, p + 1, n)
           a == SubSeq(r, 1, p)
           b == SubSeq(r, p + 1, Len(r))
<1>1. r \in Seq(0..MaxCo) /\ Len(r) \in Nat /\ n \in 0..MaxCo /\ p \in Int
  BY CoroutineAssumption DEF RingOf, Cos
<1>2. a \in Seq(0..MaxCo) /\ Len(a) = p /\ \A i \in 1..p : a[i] = r[i]
  <2>1. \A i \in 1..p : r[i] \in 0..MaxCo
    <3>1. \A i \in 1..p : i \in 1..Len(r)
      BY <1>1
    <3> QED BY <1>1, <3>1, ElementOfSeq
  <2>2. /\ a \in Seq(0..MaxCo) /\ Len(a) = IF 1 <= p THEN p - 1 + 1 ELSE 0
        /\ \A i \in 1..(p - 1 + 1) : a[i] = r[1 + i - 1]
    BY <1>1, <2>1, SubSeqProperties
  <2> QED BY <1>1, <2>2
<1>3. b \in Seq(0..MaxCo) /\ Len(b) = Len(r) - p /\ \A i \in 1..Len(r) - p : b[i] = r[p + i]
  <2>1. \A i \in p + 1..Len(r) : r[i] \in 0..MaxCo
    <3>1. \A i \in p + 1..Len(r) : i \in 1..Len(r)
      BY <1>1
    <3> QED BY <1>1, <3>1, ElementOfSeq
  <2>2. /\ b \in Seq(0..MaxCo) /\ Len(b) = IF p + 1 <= Len(r) THEN Len(r) - (p + 1) + 1 ELSE 0
        /\ \A i \in 1..(Len(r) - (p + 1) + 1) : b[i] = r[(p + 1) + i - 1]
    <3>1. p + 1 \in Int /\ Len(r) \in Int
      BY <1>1
    <3> QED BY <2>1, <3>1, SubSeqProperties
  <2> QED BY <1>1, <2>2
<1>4. q = a \o <<n>> \o b
  <2>1. (p + 1) - 1 = p
    BY <1>1
  <2> QED BY <2>1 DEF InsertAt
<1>5. <<n>> \in Seq(0..MaxCo) /\ Len(<<n>>) = 1 /\ <<n>>[1] = n
  BY <1>1
<1> DEFINE c == a \o <<n>>
<1> HIDE DEF a, b, q
<1>6. /\ c \in Seq(0..MaxCo) /\ Len(c) = p + 1
      /\ \A i \in 1..p + 1 : c[i] = IF i <= p THEN a[i] ELSE n
  <2>1. /\ c \in Seq(0..MaxCo) /\ Len(c) = Len(a) + Len(<<n>>)
        /\ \A i \in 1..Len(a) + Len(<<n>>) : c[i] = IF i <= Len(a) THEN a[i] ELSE <<n>>[i - Len(a)]
    BY <1>2, <1>5, ConcatProperties
  <2> QED BY <1>1, <1>2, <1>5, <2>1
<1> HIDE DEF c
<1>7. /\ q \in Seq(0..MaxCo) /\ Len(q) = Len(c) + Len(b)
      /\ \A i \in 1..Len(c) + Len(b) : q[i] = IF i <= Len(c) THEN c[i] ELSE b[i - Len(c)]
  <2>1. q = c \o b
    BY <1>4 DEF c
  <2> QED BY <1>3, <1>6, <2>1, ConcatProperties
<1>8. /\ Len(q) = Len(r) + 1 /\ q[p + 1] = n
      /\ \A i \in 1..p : q[i] = r[i]
      /\ \A i \in p + 1..Len(r) : q[i + 1] = r[i]
  <2>1. Len(q) = Len(r) + 1
    BY <1>1, <1>3, <1>6, <1>7
  <2>2. q[p + 1] = n
    <3>1. p + 1 \in 1..Len(c) + Len(b) /\ p + 1 <= Len(c) /\ p + 1 \in 1..p + 1 /\ ~(p + 1 <= p)
      BY <1>1, <1>3, <1>6
    <3> QED BY <1>6, <1>7, <3>1
  <2>3. ASSUME NEW i \in 1..p
        PROVE  q[i] = r[i]
    <3>1. i \in 1..p + 1 /\ i <= Len(c) /\ i \in 1..Len(c) + Len(b)
      BY <1>1, <1>3, <1>6
    <3> QED BY <1>2, <1>6, <1>7, <3>1
  <2>4. ASSUME NEW i \in p + 1..Len(r)
        PROVE  q[i + 1] = r[i]
    <3>1. /\ i + 1 \in 1..Len(c) + Len(b) /\ ~(i + 1 <= Len(c)) /\ (i + 1) - Len(c) = i - p
          /\ i - p \in 1..Len(r) - p /\ p + (i - p) = i
      BY <1>1, <1>3, <1>6
    <3> QED BY <1>3, <1>7, <3>1
  <2> QED BY <2>1, <2>2, <2>3, <2>4
<1>9. RingOf(q) /\ \A k : Contains(q, k) <=> Contains(r, k) \/ k = n
  <2>1. /\ q \in Seq(0..MaxCo) /\ Len(q) = Len(r) + 1 /\ q[p + 1] = n
        /\ \A i \in 1..p : q[i] = r[i]
        /\ \A i \in p + 1..Len(r) : q[i + 1] = r[i]
    BY <1>7, <1>8
  <2> QED BY <2>1, Renumbered
<1> QED BY <1>9 DEF q

LEMMA OneReplaced ==
  ASSUME NEW n \in Cos, NEW m \in Cos, RingOf(ring), Contains(ring, n), ~Contains(ring, m)
  PROVE  /\ RingOf(Replaced(n, m))
         /\ \A k : Contains(Replaced(n, m), k) <=> (Contains(ring, k) /\ k # n) \/ k = m
<1>1. /\ ring \in Seq(0..MaxCo) /\ Len(ring) \in Nat /\ DOMAIN ring = 1..Len(ring)
      /\ \A i, j \in 1..Len(ring) : ring[i] = ring[j] => i = j
      /\ Len(ring) > 0 /\ ring[1] = 0 /\ n # 0 /\ m \in 0..MaxCo
  BY CoroutineAssumption DEF RingOf, Cos
<1> DEFINE q == Replaced(n, m)
<1>2. \A i \in 1..Len(ring) : ring[i] \in 0..MaxCo /\ ring[i] # m
  <2>1. \A i \in 1..Len(ring) : ring[i] \in 0..MaxCo
    BY <1>1, ElementOfSeq
  <2>2. \A i \in 1..Len(ring) : ring[i] # m
    BY DEF Contains
  <2> QED BY <2>1, <2>2
<1>3. /\ q = [i \in 1..Len(ring) |-> IF ring[i] = n THEN m ELSE ring[i]]
      /\ q \in [1..Len(ring) -> 0..MaxCo]
  BY <1>1, <1>2 DEF Replaced
<1>4. q \in Seq(0..MaxCo)
  BY <1>1, <1>3, SeqDef
<1>5. Len(q) = Len(ring) /\ DOMAIN q = 1..Len(ring)
  BY <1>1, <1>3, <1>4, LenProperties
<1>6. \A i \in 1..Len(ring) : q[i] = IF ring[i] = n THEN m ELSE ring[i]
  BY <1>3
<1> HIDE DEF q
<1>7. RingOf(q)
  <2>1. \A i, j \in 1..Len(ring) : q[i] = q[j] => i = j
    BY <1>1, <1>2, <1>6
  <2>2. 1 \in 1..Len(ring) /\ q[1] = 0
    BY <1>1, <1>6
  <2> QED BY <1>1, <1>4, <1>5, <2>1, <2>2 DEF RingOf
<1>8. ASSUME NEW k, Contains(q, k)
      PROVE  (Contains(ring, k) /\ k # n) \/ k = m
  BY <1>5, <1>6, <1>8 DEF Contains
<1>9. ASSUME NEW k, Contains(ring, k) /\ k # n
      PROVE  Contains(q, k)
  BY <1>5, <1>6, <1>9 DEF Contains
<1>10. Contains(q, m)
  BY <1>5, <1>6 DEF Contains
<1> QED BY <1>7, <1>8, <1>9, <1>10 DEF q

LEMMA NextIsThere ==
  ASSUME NEW r, RingOf(r), Contains(r, current)
  PROVE  /\ Contains(r, NextOf(r)) /\ NextOf(r) \in 0..MaxCo
         /\ current # 0 => NextOf(r) # current
<1> DEFINE i == PositionOf(r, current)
<1>1. i \in 1..Len(r) /\ r[i] = current /\ Len(r) \in Nat
  BY AtPosition
<1> HIDE DEF i
<1>2. NextOf(r) = IF i = Len(r) THEN r[1] ELSE r[i + 1]
  BY DEF NextOf, i
<1>3. /\ r \in Seq(0..MaxCo) /\ r[1] = 0 /\ DOMAIN r = 1..Len(r)
      /\ \A x, y \in 1..Len(r) : r[x] = r[y] => x = y
  BY DEF RingOf
<1>4. PICK j \in 1..Len(r) : NextOf(r) = r[j] /\ (current # 0 => j # i)
  <2>1. CASE i = Len(r)
    <3>1. 1 \in 1..Len(r) /\ NextOf(r) = r[1]
      BY <1>1, <1>2, <2>1
    <3>2. current # 0 => 1 # i
      BY <1>1, <1>3
    <3> QED BY <3>1, <3>2
  <2>2. CASE i # Len(r)
    <3>1. i + 1 \in 1..Len(r) /\ i + 1 # i
      BY <1>1, <2>2
    <3> QED BY <1>2, <2>2, <3>1
  <2> QED BY <2>1, <2>2
<1>5. Contains(r, NextOf(r))
  BY <1>4 DEF Contains
<1>6. NextOf(r) \in 0..MaxCo
  <2>1. \A x \in 1..Len(r) : r[x] \in 0..MaxCo
    BY <1>3, ElementOfSeq
  <2> QED BY <1>4, <2>1
<1>7. current # 0 => NextOf(r) # current
  BY <1>1, <1>3, <1>4
<1> QED BY <1>5, <1>6, <1>7

-----------------------------------------------------------------------------
(* Switching.                                                              *)

\* Coroutine n is destroyed: it is in nobody's way.
LEMMA Destroyed ==
  ASSUME NEW r, NEW e, NEW a, NEW p, NEW c, NEW t, NEW m, NEW tr, NEW s, NEW f, NEW w, NEW ed,
         Consistent(r, e, a, p, c, t, m, tr, s, f, w, ed),
         NEW n \in LiveIn(a), n \in e, c[n] = None
  PROVE  Consistent(Unlinked(r, n), e, [a EXCEPT ![n] = "dead"], p, c, t, m,
                    tr \ {s[n]}, [s EXCEPT ![n] = None], [f EXCEPT ![n] = None],
                    [g \in Fds |-> IF g = f[n] THEN None ELSE w[g]], ed \ {f[n]})
<1> DEFINE b == [a EXCEPT ![n] = "dead"]
           q == Unlinked(r, n)
<1>1. /\ RingOf(r) /\ PlacesOK(r, a, c) /\ CallsOK(a, p, c, t, m) /\ ExitOK(e, a, p)
      /\ SleepOK(a, t, tr, s) /\ EventsOK(a, p, f, w, ed)
  BY DEF Consistent
<1>2. n \in Cos /\ n \in LiveIn(a) /\ p[n] = None /\ t[n] = n
  BY <1>1 DEF ExitOK, LiveIn, CallsOK
<1>3. RingOf(q) /\ \A k : Contains(q, k) <=> Contains(r, k) /\ k # n
  BY <1>1, <1>2, WithoutOne
<1>4. n \in 0..MaxCo /\ n # 0 /\ Cos \subseteq 0..MaxCo
  BY <1>2, CoroutineAssumption DEF Cos
<1>5. /\ b \in [0..MaxCo -> Places] /\ b[n] = "dead"
      /\ \A k \in 0..MaxCo : k # n => b[k] = a[k]
  BY <1>1, <1>4 DEF PlacesOK, Places
<1>6. LiveIn(b) = LiveIn(a) \ {n}
  BY <1>2, <1>4, <1>5 DEF LiveIn
<1> HIDE DEF b, q
<1>7. PlacesOK(q, b, c)
  <2>1. b[0] \in {"user", "poll", "wakeup", "end"}
    BY <1>1, <1>4, <1>5, CoroutineAssumption DEF PlacesOK
  <2>2. \A k \in Cos : b[k] \notin {"poll", "wakeup", "end"}
    BY <1>1, <1>4, <1>5 DEF PlacesOK
  <2>3. \A k \in LiveIn(b) : k \in LiveIn(a) /\ k # n /\ b[k] = a[k] /\ k \in Cos
    BY <1>4, <1>5, <1>6 DEF LiveIn
  <2>4. \A k \in LiveIn(b) : c[k] # None => b[k] = "call" /\ ~Contains(q, k)
    BY <1>1, <1>3, <2>3 DEF PlacesOK
  <2>5. \A k \in LiveIn(b) : c[k] = None => b[k] # "call" /\ (Contains(q, k) \/ b[k] \in Blocked)
    BY <1>1, <1>3, <2>3 DEF PlacesOK
  <2>6. \A k \in Cos : Contains(q, k) => k \in LiveIn(b)
    BY <1>1, <1>3, <1>6 DEF PlacesOK
  <2> QED BY <1>5, <2>1, <2>2, <2>4, <2>5, <2>6 DEF PlacesOK
<1>8. \A k \in LiveIn(a) : k # n => t[k] # n
  <2> SUFFICES ASSUME NEW k \in LiveIn(a), k # n, t[k] = n
               PROVE  FALSE
    OBVIOUS
  <2>1. k \in Cos /\ n <= k /\ n < k
    BY <1>1, <1>2 DEF CallsOK, LiveIn, Cos
  <2> QED BY <1>1, <1>2, <2>1 DEF CallsOK
<1>9. \A k \in LiveIn(a) : p[k] # n
  <2> SUFFICES ASSUME NEW k \in LiveIn(a), p[k] = n
               PROVE  FALSE
    OBVIOUS
  <2>1. n # None /\ k # None
    BY <1>2, CoroutineAssumption DEF LiveIn, Cos
  <2>2. c[n] = k
    BY <1>1, <2>1 DEF CallsOK
  <2> QED BY <2>1, <2>2
<1>10. CallsOK(b, p, c, t, m)
  <2>1. \A k \in Cos : (b[k] = "unused") <=> (a[k] = "unused")
    BY <1>2, <1>4, <1>5 DEF LiveIn
  <2>2. \A k \in LiveIn(b) : t[k] \in LiveIn(b)
    BY <1>1, <1>6, <1>8 DEF CallsOK
  <2>3. \A k \in LiveIn(b) : p[k] # None => p[k] \in LiveIn(b) /\ c[p[k]] = k
    BY <1>1, <1>6, <1>9 DEF CallsOK
  <2> QED BY <1>1, <1>6, <2>1, <2>2, <2>3 DEF CallsOK
<1>11. ExitOK(e, b, p)
  BY <1>1, <1>4, <1>5 DEF ExitOK
<1>12. SleepOK(b, t, tr \ {s[n]}, [s EXCEPT ![n] = None])
  <2> DEFINE z == [s EXCEPT ![n] = None]
  <2>1. /\ z \in [Cos -> Cos \cup {None}] /\ z[n] = None
        /\ \A k \in Cos : k # n => z[k] = s[k]
    BY <1>1, <1>2 DEF SleepOK
  <2> HIDE DEF z
  <2>2. ASSUME NEW k \in tr \ {s[n]}
        PROVE  k \in LiveIn(b) /\ b[k] = "sleep" /\ z[t[k]] = k
    <3>1. k \in LiveIn(a) /\ k \in Cos /\ a[k] = "sleep" /\ s[t[k]] = k /\ t[k] \in Cos
      BY <1>1, <2>2 DEF SleepOK, LiveIn, CallsOK
    <3>2. k # n /\ t[k] # n
      BY <1>2, <1>8, <2>2, <3>1
    <3> QED BY <1>4, <1>5, <1>6, <2>1, <3>1, <3>2
  <2>3. ASSUME NEW k \in Cos, z[k] # None
        PROVE  k \in LiveIn(b) /\ z[k] \in LiveIn(b) /\ t[z[k]] = k /\ b[z[k]] = "sleep"
    <3>1. k # n /\ z[k] = s[k] /\ s[k] # None
      BY <2>1, <2>3
    <3>2. k \in LiveIn(a) /\ s[k] \in LiveIn(a) /\ t[s[k]] = k /\ a[s[k]] = "sleep"
      BY <1>1, <3>1 DEF SleepOK
    <3>3. s[k] # n /\ s[k] \in Cos
      BY <1>2, <3>1, <3>2 DEF LiveIn
    <3> QED BY <1>4, <1>5, <1>6, <3>1, <3>2, <3>3
  <2>4. tr \ {s[n]} \subseteq Cos
    BY <1>1 DEF SleepOK
  <2> QED BY <2>1, <2>2, <2>3, <2>4 DEF SleepOK, z
<1>13. EventsOK(b, p, [f EXCEPT ![n] = None],
                [g \in Fds |-> IF g = f[n] THEN None ELSE w[g]], ed \ {f[n]})
  <2> DEFINE x == [f EXCEPT ![n] = None]
             y == [g \in Fds |-> IF g = f[n] THEN None ELSE w[g]]
  <2>1. /\ x \in [Cos -> Fds \cup {None}] /\ x[n] = None /\ \A k \in Cos : k # n => x[k] = f[k]
    BY <1>1, <1>2 DEF EventsOK
  <2>2. y \in [Fds -> Cos \cup {None}] /\ \A g \in Fds : y[g] = IF g = f[n] THEN None ELSE w[g]
    BY <1>1 DEF EventsOK
  <2> HIDE DEF x, y
  <2>3. \A g \in Fds : y[g] # None => x[y[g]] = g
    <3> SUFFICES ASSUME NEW g \in Fds, y[g] # None PROVE x[y[g]] = g
      OBVIOUS
    <3>1. y[g] = w[g] /\ g # f[n] /\ w[g] # None /\ w[g] \in Cos
      BY <1>1, <2>2 DEF EventsOK
    <3>2. f[w[g]] = g
      BY <1>1, <3>1 DEF EventsOK
    <3> QED BY <2>1, <3>1, <3>2
  <2>4. \A k \in Cos : x[k] # None => k \in LiveIn(b) /\ p[k] = None
    BY <1>1, <1>6, <2>1 DEF EventsOK
  <2>5. \A g \in ed \ {f[n]} : y[g] # None
    BY <1>1, <2>2 DEF EventsOK
  <2> QED BY <1>1, <2>1, <2>2, <2>3, <2>4, <2>5 DEF EventsOK, x, y
<1> QED BY <1>3, <1>7, <1>10, <1>11, <1>12, <1>13 DEF Consistent, b, q

LEMMA SwitchKeeps ==
  ASSUME NEW next \in 0..MaxCo,
         NEW r, NEW e, NEW a, NEW p, NEW c, NEW t, NEW m, NEW tr, NEW s,
         Consistent(r, e, a, p, c, t, m, tr, s, fd, watch, edge), data \subseteq Fds,
         Contains(r, next),
         current \in e => next # current /\ current \in LiveIn(a) /\ c[current] = None,
         SwitchTo(next, r, e, a, tr, s)
  PROVE  /\ Consistent(ring', exit', at', p, c, t, m, tree', sleeper', fd', watch', edge')
         /\ data' \subseteq Fds
         /\ current' \in 0..MaxCo /\ Contains(ring', current')
<1>1. CASE current \notin e
  BY <1>1 DEF SwitchTo, eventVars
<1>2. CASE current \in e
  <2>1. /\ current' = next /\ ring' = Unlinked(r, current) /\ exit' = e
        /\ at' = [a EXCEPT ![current] = "dead"]
        /\ tree' = tr \ {s[current]} /\ sleeper' = [s EXCEPT ![current] = None]
        /\ watch' = [g \in Fds |-> IF g = fd[current] THEN None ELSE watch[g]]
        /\ edge' = edge \ {fd[current]} /\ fd' = [fd EXCEPT ![current] = None]
        /\ data' = data \ {fd[current]}
    BY <1>2 DEF SwitchTo, EraseTimer, EventCleanup
  <2>2. Consistent(ring', exit', at', p, c, t, m, tree', sleeper', fd', watch', edge')
    <3>1. current \in e /\ current \in LiveIn(a) /\ c[current] = None
      BY <1>2
    <3>2. Consistent(Unlinked(r, current), e, [a EXCEPT ![current] = "dead"],
                     p, c, t, m, tr \ {s[current]}, [s EXCEPT ![current] = None],
                     [fd EXCEPT ![current] = None],
                     [g \in Fds |-> IF g = fd[current] THEN None ELSE watch[g]],
                     edge \ {fd[current]})
      BY <3>1, Destroyed
    <3> QED BY <2>1, <3>2
  <2>3. Contains(ring', next)
    <3>1. current \in Cos /\ RingOf(r)
      BY <1>2 DEF Consistent, LiveIn
    <3> QED BY <1>2, <2>1, <3>1, WithoutOne
  <2> QED BY <2>1, <2>2, <2>3
<1> QED BY <1>1, <1>2

\* Who runs is alive and has called nobody.
LEMMA Running ==
  ASSUME IInv, current # 0
  PROVE  /\ current \in Cos /\ current \in LiveIn(at) /\ child[current] = None
         /\ at[current] \notin {"call", "unused", "dead", "poll", "wakeup", "end"}
         /\ Top \in LiveIn(at) /\ parent[Top] = None
<1>1. current \in Cos
  BY CoroutineAssumption DEF IInv, Cos
<1>2. Contains(ring, current) /\ PlacesOK(ring, at, child) /\ CallsOK(at, parent, child, top, made)
  BY DEF IInv, Consistent
<1>3. current \in LiveIn(at) /\ child[current] = None
  BY <1>1, <1>2 DEF PlacesOK
<1>4. at[current] # "call"
  BY <1>2, <1>3 DEF PlacesOK
<1>5. Top \in LiveIn(at) /\ parent[Top] = None
  BY <1>1, <1>2, <1>3 DEF CallsOK, Top
<1> QED BY <1>1, <1>2, <1>3, <1>4, <1>5 DEF PlacesOK, LiveIn

\* A coroutine blocks, with a timer or without.
LEMMA BlockKeeps ==
  ASSUME IInv, current # 0, NEW place \in Blocked, NEW tr, NEW s,
         SleepOK([at EXCEPT ![current] = place], top, tr, s),
         BlockIn(place, tr, s), when' \in [Cos -> 0..MaxTime], ops' \in 0..MaxOps
  PROVE  IInv'
<1> DEFINE b == [at EXCEPT ![current] = place]
           q == Unlinked(ring, current)
<1>1. /\ RingOf(ring) /\ PlacesOK(ring, at, child) /\ CallsOK(at, parent, child, top, made)
      /\ ExitOK(exit, at, parent) /\ EventsOK(at, parent, fd, watch, edge)
      /\ current \in 0..MaxCo /\ Contains(ring, current) /\ CountersOK
  BY DEF IInv, Consistent
<1>2. current \in Cos /\ current \in LiveIn(at) /\ child[current] = None
  BY Running
<1>3. RingOf(q) /\ \A k : Contains(q, k) <=> Contains(ring, k) /\ k # current
  BY <1>1, <1>2, WithoutOne
<1>4. /\ b \in [0..MaxCo -> Places] /\ b[current] = place
      /\ \A k \in 0..MaxCo : k # current => b[k] = at[k]
      /\ place \notin {"unused", "dead", "call", "poll", "wakeup", "end"}
      /\ Cos \subseteq 0..MaxCo
  BY <1>1, CoroutineAssumption DEF PlacesOK, Places, Blocked, Cos
<1>5. LiveIn(b) = LiveIn(at)
  BY <1>2, <1>4 DEF LiveIn
<1>6. PlacesOK(q, b, child)
  <2>1. b[0] \in {"user", "poll", "wakeup", "end"}
    BY <1>1, <1>4, CoroutineAssumption DEF PlacesOK
  <2>2. \A k \in Cos : b[k] \notin {"poll", "wakeup", "end"}
    BY <1>1, <1>4 DEF PlacesOK
  <2>3. \A k \in LiveIn(at) : k \in Cos /\ k \in 0..MaxCo
    BY <1>4 DEF LiveIn
  <2>4. \A k \in LiveIn(at) : child[k] # None => b[k] = "call" /\ ~Contains(q, k)
    BY <1>1, <1>2, <1>3, <1>4, <2>3 DEF PlacesOK
  <2>5. \A k \in LiveIn(at) : child[k] = None => b[k] # "call" /\ (Contains(q, k) \/ b[k] \in Blocked)
    BY <1>1, <1>2, <1>3, <1>4, <2>3 DEF PlacesOK
  <2>6. \A k \in Cos : Contains(q, k) => k \in LiveIn(at)
    BY <1>1, <1>3 DEF PlacesOK
  <2> HIDE DEF b, q
  <2> QED BY <1>4, <1>5, <2>1, <2>2, <2>4, <2>5, <2>6 DEF PlacesOK
<1>7. CallsOK(b, parent, child, top, made)
  <2>1. \A k \in Cos : (b[k] = "unused") <=> (at[k] = "unused")
    BY <1>2, <1>4 DEF LiveIn
  <2> HIDE DEF b
  <2> QED BY <1>1, <1>5, <2>1 DEF CallsOK
<1>8. ExitOK(exit, b, parent)
  BY <1>1, <1>4 DEF ExitOK
<1>9. EventsOK(b, parent, fd, watch, edge)
  BY <1>1, <1>5 DEF EventsOK
<1>10. Consistent(q, exit, b, parent, child, top, made, tr, s, fd, watch, edge)
  BY <1>3, <1>6, <1>7, <1>8, <1>9 DEF Consistent
<1>11. Contains(q, NextOf(ring)) /\ NextOf(ring) # current /\ NextOf(ring) \in 0..MaxCo
  BY <1>1, <1>3, NextIsThere
<1>12. SwitchTo(NextOf(ring), q, exit, b, tr, s) /\ UNCHANGED <<made, callVars, room, polling, now>>
  BY DEF BlockIn
<1> HIDE DEF b, q
<1>13. /\ Consistent(ring', exit', at', parent, child, top, made, tree', sleeper', fd', watch', edge')
       /\ data' \subseteq Fds /\ current' \in 0..MaxCo /\ Contains(ring', current')
  BY <1>1, <1>2, <1>5, <1>10, <1>11, <1>12, SwitchKeeps DEF CountersOK
<1> QED BY <1>1, <1>12, <1>13 DEF IInv, CountersOK, callVars

\* A coroutine that does not sleep may be anywhere else.
LEMMA SleepersUnmoved ==
  ASSUME IInv, current # 0, at[current] # "sleep", NEW place \in Blocked \cup {"user"}
  PROVE  SleepOK([at EXCEPT ![current] = place], top, tree, sleeper)
<1> DEFINE b == [at EXCEPT ![current] = place]
<1>1. current \in Cos /\ current \in LiveIn(at)
  BY Running
<1>2. PlacesOK(ring, at, child) /\ SleepOK(at, top, tree, sleeper)
  BY DEF IInv, Consistent
<1>3. Cos \subseteq 0..MaxCo /\ place \notin {"unused", "dead"}
  BY CoroutineAssumption DEF Cos, Blocked
<1>4. b[current] = place /\ \A k \in Cos : k # current => b[k] = at[k]
  BY <1>1, <1>2, <1>3 DEF PlacesOK
<1>5. LiveIn(b) = LiveIn(at)
  BY <1>1, <1>3, <1>4 DEF LiveIn
<1>6. \A k \in LiveIn(at) : k \in Cos
  BY DEF LiveIn
<1> HIDE DEF b
<1>7. \A k \in tree : k \in LiveIn(b) /\ b[k] = "sleep" /\ sleeper[top[k]] = k
  BY <1>2, <1>4, <1>5 DEF SleepOK
<1>8. \A k \in Cos : sleeper[k] # None => /\ k \in LiveIn(b) /\ sleeper[k] \in LiveIn(b)
                                          /\ top[sleeper[k]] = k /\ b[sleeper[k]] = "sleep"
  BY <1>2, <1>4, <1>5, <1>6 DEF SleepOK
<1> QED BY <1>2, <1>7, <1>8 DEF SleepOK, b

\* A coroutine goes on; timers, sleep keys and events are what its step makes them.
LEMMA GoesOn ==
  ASSUME IInv, current # 0, NEW tr, NEW s, NEW w, NEW ed,
         SleepOK([at EXCEPT ![current] = "user"], top, tr, s),
         EventsOK(at, parent, fd, w, ed)
  PROVE  Consistent(ring, exit, [at EXCEPT ![current] = "user"], parent, child, top, made,
                    tr, s, fd, w, ed)
<1> DEFINE b == [at EXCEPT ![current] = "user"]
<1>1. /\ RingOf(ring) /\ PlacesOK(ring, at, child) /\ CallsOK(at, parent, child, top, made)
      /\ ExitOK(exit, at, parent) /\ Contains(ring, current)
  BY DEF IInv, Consistent
<1>2. current \in Cos /\ current \in LiveIn(at) /\ child[current] = None
  BY Running
<1>3. /\ b \in [0..MaxCo -> Places] /\ b[current] = "user"
      /\ \A k \in 0..MaxCo : k # current => b[k] = at[k]
      /\ Cos \subseteq 0..MaxCo
  BY <1>1, <1>2, CoroutineAssumption DEF PlacesOK, Places, Blocked, Cos
<1>4. LiveIn(b) = LiveIn(at)
  BY <1>2, <1>3 DEF LiveIn
<1> HIDE DEF b
<1>5. PlacesOK(ring, b, child)
  <2>1. b[0] \in {"user", "poll", "wakeup", "end"}
    BY <1>1, <1>3, CoroutineAssumption DEF PlacesOK
  <2>2. \A k \in Cos : b[k] \notin {"poll", "wakeup", "end"}
    BY <1>1, <1>3 DEF PlacesOK
  <2>3. \A k \in LiveIn(at) : k \in Cos /\ k \in 0..MaxCo
    BY <1>3 DEF LiveIn
  <2>4. \A k \in LiveIn(at) : child[k] # None => b[k] = "call" /\ ~Contains(ring, k)
    BY <1>1, <1>2, <1>3, <2>3 DEF PlacesOK
  <2>5. \A k \in LiveIn(at) : child[k] = None =>
                                b[k] # "call" /\ (Contains(ring, k) \/ b[k] \in Blocked)
    BY <1>1, <1>2, <1>3, <2>3 DEF PlacesOK
  <2>6. \A k \in Cos : Contains(ring, k) => k \in LiveIn(at)
    BY <1>1 DEF PlacesOK
  <2> QED BY <1>3, <1>4, <2>1, <2>2, <2>4, <2>5, <2>6 DEF PlacesOK
<1>6. CallsOK(b, parent, child, top, made)
  <2>1. \A k \in Cos : (b[k] = "unused") <=> (at[k] = "unused")
    BY <1>2, <1>3 DEF LiveIn
  <2> QED BY <1>1, <1>4, <2>1 DEF CallsOK
<1>7. ExitOK(exit, b, parent)
  BY <1>1, <1>3 DEF ExitOK
<1>8. EventsOK(b, parent, fd, w, ed)
  BY <1>4 DEF EventsOK
<1> QED BY <1>1, <1>5, <1>6, <1>7, <1>8 DEF Consistent, b

-----------------------------------------------------------------------------
(* The actions of the current coroutine.                                   *)

LEMMA WaitKeeps ==
  ASSUME IInv, Wait
  PROVE  IInv'
<1>1. current # 0 /\ at[current] = "user" /\ ops' = ops + 1 /\ ops < MaxOps
  BY DEF Wait, UserCoroutine, User
<1>2. SleepOK([at EXCEPT ![current] = "wait"], top, tree, sleeper)
  BY <1>1, SleepersUnmoved DEF Blocked
<1>3. "wait" \in Blocked /\ when' \in [Cos -> 0..MaxTime] /\ ops' \in 0..MaxOps
  BY <1>1, CoroutineAssumption DEF Blocked, Wait, IInv, CountersOK
<1> QED BY <1>1, <1>2, <1>3, BlockKeeps DEF Wait

LEMMA ReadKeeps ==
  ASSUME IInv, Read
  PROVE  IInv'
<1>1. current # 0 /\ at[current] \in {"user", "read"} /\ when' = when /\ ops' \in 0..MaxOps
  BY CoroutineAssumption DEF Read, UserOr, User, IInv, CountersOK
<1>2. CASE Readable
  <2>1. SleepOK([at EXCEPT ![current] = "user"], top, tree, sleeper)
    BY <1>1, SleepersUnmoved
  <2>2. Consistent(ring, exit, [at EXCEPT ![current] = "user"], parent, child, top, made,
                   tree, sleeper, fd, watch, edge)
    BY <1>1, <2>1, GoesOn DEF IInv, Consistent
  <2>3. /\ data' = data \ {fd[Top]} /\ at' = [at EXCEPT ![current] = "user"]
        /\ UNCHANGED <<ring, current, made, exit, callVars, tree, sleeper, fd,
                       watch, edge, room, polling, now>>
    BY <1>2 DEF Read
  <2> QED BY <1>1, <2>2, <2>3 DEF IInv, CountersOK, callVars
<1>3. CASE ~Readable
  <2>1. SleepOK([at EXCEPT ![current] = "read"], top, tree, sleeper)
    BY <1>1, SleepersUnmoved DEF Blocked
  <2>2. "read" \in Blocked /\ when' \in [Cos -> 0..MaxTime] /\ BlockIn("read", tree, sleeper)
    BY <1>1, <1>3 DEF Blocked, Read, IInv, CountersOK
  <2> QED BY <1>1, <2>1, <2>2, BlockKeeps
<1> QED BY <1>2, <1>3

LEMMA WriteKeeps ==
  ASSUME IInv, Write
  PROVE  IInv'
<1>1. current # 0 /\ at[current] \in {"user", "write"} /\ when' = when /\ ops' \in 0..MaxOps
  BY CoroutineAssumption DEF Write, UserOr, User, IInv, CountersOK
<1>2. CASE BlockIn("write", tree, sleeper)
  <2>1. SleepOK([at EXCEPT ![current] = "write"], top, tree, sleeper)
    BY <1>1, SleepersUnmoved DEF Blocked
  <2>2. "write" \in Blocked /\ when' \in [Cos -> 0..MaxTime]
    BY <1>1 DEF Blocked, IInv, CountersOK
  <2> QED BY <1>1, <1>2, <2>1, <2>2, BlockKeeps
<1>3. CASE ~BlockIn("write", tree, sleeper)
  <2>1. SleepOK([at EXCEPT ![current] = "user"], top, tree, sleeper)
    BY <1>1, SleepersUnmoved
  <2>2. Consistent(ring, exit, [at EXCEPT ![current] = "user"], parent, child, top, made,
                   tree, sleeper, fd, watch, edge)
    BY <1>1, <2>1, GoesOn DEF IInv, Consistent
  <2>3. /\ room' \in {room, room \ {fd[Top]}} /\ at' = [at EXCEPT ![current] = "user"]
        /\ UNCHANGED <<ring, current, made, exit, callVars, tree, sleeper, eventVars, polling, now>>
    BY <1>3 DEF Write
  <2> QED BY <1>1, <2>2, <2>3 DEF IInv, CountersOK, callVars, eventVars
<1> QED BY <1>2, <1>3

LEMMA WaitReturnsKeeps ==
  ASSUME IInv, WaitReturns
  PROVE  IInv'
<1>1. current # 0 /\ at[current] = "wait"
  BY DEF WaitReturns, IInv, Consistent, PlacesOK
<1>2. SleepOK([at EXCEPT ![current] = "user"], top, tree, sleeper)
  BY <1>1, SleepersUnmoved
<1>3. Consistent(ring, exit, [at EXCEPT ![current] = "user"], parent, child, top, made,
                 tree, sleeper, fd, watch, edge)
  BY <1>1, <1>2, GoesOn DEF IInv, Consistent
<1> QED BY <1>3 DEF WaitReturns, IInv, CountersOK, callVars, eventVars

LEMMA StartKeeps ==
  ASSUME IInv, Start
  PROVE  IInv'
<1>1. current # 0 /\ at[current] = "new"
  BY DEF Start, IInv, Consistent, PlacesOK
<1>2. EventsOK(at, parent, fd, watch, edge) /\ data \subseteq Fds
  BY DEF IInv, Consistent, CountersOK
<1>3. current \in Cos /\ current # None
  BY <1>1, Running, CoroutineAssumption DEF Cos
<1>4. /\ watch' = [f \in Fds |-> IF f = fd[current] THEN current ELSE watch[f]]
      /\ edge' = edge \cup (data \cap {fd[current]})
      /\ at' = [at EXCEPT ![current] = "user"]
      /\ UNCHANGED <<ring, current, made, exit, callVars, when, tree, sleeper, data,
                     fd, room, polling, now, ops>>
  BY DEF Start
<1>5. EventsOK(at, parent, fd, watch', edge')
  <2>1. watch' \in [Fds -> Cos \cup {None}] /\ edge' \subseteq Fds
    BY <1>2, <1>3, <1>4 DEF EventsOK
  <2>2. \A g \in Fds : watch'[g] # None => fd[watch'[g]] = g
    BY <1>2, <1>4 DEF EventsOK
  <2>3. \A g \in edge' : watch'[g] # None
    BY <1>2, <1>3, <1>4 DEF EventsOK
  <2> QED BY <1>2, <2>1, <2>2, <2>3 DEF EventsOK
<1>6. SleepOK([at EXCEPT ![current] = "user"], top, tree, sleeper)
  BY <1>1, SleepersUnmoved
<1>7. Consistent(ring, exit, [at EXCEPT ![current] = "user"], parent, child, top, made,
                 tree, sleeper, fd, watch', edge')
  BY <1>1, <1>5, <1>6, GoesOn
<1> QED BY <1>4, <1>7 DEF IInv, CountersOK, callVars

\* A coroutine is switched away and changes nothing but the ring and exit flags.
LEMMA SwitchedAway ==
  ASSUME IInv, NEW r, NEW e, RingOf(r), PlacesOK(r, at, child), ExitOK(e, at, parent),
         Contains(r, current),
         SwitchTo(NextOf(r), r, e, at, tree, sleeper),
         ops' \in 0..MaxOps, UNCHANGED <<made, callVars, when, room, polling, now>>
  PROVE  IInv'
<1>1. Consistent(r, e, at, parent, child, top, made, tree, sleeper, fd, watch, edge)
  BY DEF IInv, Consistent
<1>2. Contains(r, NextOf(r)) /\ NextOf(r) \in 0..MaxCo /\ (current # 0 => NextOf(r) # current)
  BY NextIsThere
<1>3. current \in e => current # 0
  BY CoroutineAssumption DEF ExitOK, Cos
<1>4. current \in e =>
        NextOf(r) # current /\ current \in LiveIn(at) /\ child[current] = None
  BY <1>2, <1>3, Running
<1>5. data \subseteq Fds
  BY DEF IInv, CountersOK
<1>6. /\ Consistent(ring', exit', at', parent, child, top, made, tree', sleeper', fd', watch', edge')
      /\ data' \subseteq Fds /\ current' \in 0..MaxCo /\ Contains(ring', current')
  BY <1>1, <1>2, <1>4, <1>5, SwitchKeeps
<1> QED BY <1>6 DEF IInv, CountersOK, callVars

LEMMA YieldKeeps ==
  ASSUME IInv, Yield
  PROVE  IInv'
<1>1. SwitchTo(NextOf(ring), ring, exit, at, tree, sleeper)
      /\ UNCHANGED <<made, callVars, when, room, polling, now>>
  BY DEF Yield
<1>2. ops' \in 0..MaxOps
  BY CoroutineAssumption DEF Yield, UserCoroutine, User, IInv, CountersOK
<1>3. /\ RingOf(ring) /\ PlacesOK(ring, at, child) /\ ExitOK(exit, at, parent)
      /\ Contains(ring, current)
  BY DEF IInv, Consistent
<1> QED BY <1>1, <1>2, <1>3, SwitchedAway

LEMMA FinishKeeps ==
  ASSUME IInv, Finish
  PROVE  IInv'
<1>1. /\ current # 0 /\ parent[current] = None
      /\ SwitchTo(NextOf(ring), ring, exit \cup {current}, at, tree, sleeper)
      /\ UNCHANGED <<made, callVars, when, room, polling, now, ops>>
  BY DEF Finish
<1>2. /\ RingOf(ring) /\ PlacesOK(ring, at, child) /\ ExitOK(exit, at, parent)
      /\ Contains(ring, current) /\ ops \in 0..MaxOps
  BY DEF IInv, Consistent, CountersOK
<1>3. ExitOK(exit \cup {current}, at, parent)
  BY <1>1, <1>2, Running DEF ExitOK
<1> QED BY <1>1, <1>2, <1>3, SwitchedAway

\* A coroutine that is in no queue, and whose callee is not running, may join.
LEMMA MayJoin ==
  ASSUME IInv, NEW r, NEW S \in SUBSET LiveIn(at),
         \A n \in S : child[n] = None,
         \A k : Contains(ring, k) => Contains(r, k),
         \A k : Contains(r, k) => Contains(ring, k) \/ k \in S
  PROVE  PlacesOK(r, at, child)
<1>1. PlacesOK(ring, at, child)
  BY DEF IInv, Consistent
<1> QED BY <1>1 DEF PlacesOK

LEMMA AliveIs == Alive = LiveIn(at)
BY DEF Alive, LiveIn

LEMMA WakeupKeeps ==
  ASSUME IInv, NEW n \in Cos, Wakeup(n)
  PROVE  IInv'
<1>1. /\ n \in LiveIn(at) /\ ring' = Woken(ring, n)
      /\ UNCHANGED <<current, made, at, exit, callVars, when, tree, sleeper,
                     eventVars, room, polling, now>>
      /\ ops' \in 0..MaxOps
  BY AliveIs, CoroutineAssumption DEF Wakeup, Created, User, IInv, CountersOK
<1>2. RingOf(ring) /\ Contains(ring, current)
  BY DEF IInv, Consistent
<1>3. CASE child[n] = None /\ ~Contains(ring, n)
  <2>1. ring' = Append(ring, n)
    BY <1>1, <1>3 DEF Woken
  <2>2. RingOf(ring') /\ \A k : Contains(ring', k) <=> Contains(ring, k) \/ k = n
    BY <1>2, <1>3, <2>1, Appended
  <2>3. PlacesOK(ring', at, child)
    <3>1. {n} \in SUBSET LiveIn(at) /\ \A k \in {n} : child[k] = None
      BY <1>1, <1>3
    <3>2. /\ \A k : Contains(ring, k) => Contains(ring', k)
          /\ \A k : Contains(ring', k) => Contains(ring, k) \/ k \in {n}
      BY <2>2
    <3> QED BY <3>1, <3>2, MayJoin
  <2> QED BY <1>1, <1>2, <2>2, <2>3 DEF IInv, Consistent, CountersOK, callVars, eventVars
<1>4. CASE ~(child[n] = None /\ ~Contains(ring, n))
  <2>1. ring' = ring
    BY <1>1, <1>4 DEF Woken
  <2> QED BY <1>1, <2>1 DEF IInv, Consistent, CountersOK, callVars, eventVars
<1> QED BY <1>3, <1>4

LEMMA KillKeeps ==
  ASSUME IInv, NEW n \in Cos, Kill(n)
  PROVE  IInv'
<1> DEFINE r == NextInRing(n)
<1>1. /\ n \in LiveIn(at) /\ parent[n] = None /\ ops' \in 0..MaxOps
      /\ SwitchTo(NextOf(r), r, exit \cup {n}, at, tree, sleeper)
      /\ UNCHANGED <<made, callVars, when, room, polling, now>>
  BY AliveIs, CoroutineAssumption DEF Kill, Created, User, IInv, CountersOK
<1>2. /\ RingOf(ring) /\ Contains(ring, current) /\ PlacesOK(ring, at, child)
      /\ ExitOK(exit, at, parent)
  BY DEF IInv, Consistent
<1>3. ExitOK(exit \cup {n}, at, parent)
  BY <1>1, <1>2 DEF ExitOK, LiveIn
<1>4. RingOf(r) /\ PlacesOK(r, at, child) /\ Contains(r, current)
  <2>1. CASE child[n] = None /\ ~Contains(ring, n)
    <3>1. PositionOf(ring, current) \in 1..Len(ring)
      BY <1>2, AtPosition
    <3>2. r = InsertAt(ring, PositionOf(ring, current) + 1, n)
      BY <2>1 DEF NextInRing
    <3>3. RingOf(r) /\ \A k : Contains(r, k) <=> Contains(ring, k) \/ k = n
      BY <1>2, <2>1, <3>1, <3>2, OneInserted
    <3>4. {n} \in SUBSET LiveIn(at) /\ \A k \in {n} : child[k] = None
      BY <1>1, <2>1
    <3> HIDE DEF r
    <3>5. PlacesOK(r, at, child)
      <4>1. /\ \A k : Contains(ring, k) => Contains(r, k)
            /\ \A k : Contains(r, k) => Contains(ring, k) \/ k \in {n}
        BY <3>3
      <4> QED BY <3>4, <4>1, MayJoin
    <3> QED BY <1>2, <3>3, <3>5
  <2>2. CASE ~(child[n] = None /\ ~Contains(ring, n))
    <3>1. r = ring
      BY <2>2 DEF NextInRing
    <3> QED BY <1>2, <3>1
  <2> QED BY <2>1, <2>2
<1> HIDE DEF r
<1> QED BY <1>1, <1>3, <1>4, SwitchedAway

\* Of the calls of a created coroutine, only the last runs or waits.
LEMMA LastOfItsCalls ==
  ASSUME IInv, current # 0, NEW k \in LiveIn(at), child[k] = None, top[k] = Top
  PROVE  k = current
<1>1. current \in LiveIn(at) /\ child[current] = None /\ current \in Cos /\ k \in Cos
  BY Running DEF LiveIn
<1>2. \A x, y \in LiveIn(at) : top[x] = top[y] /\ x < y => child[x] # None
  BY DEF IInv, Consistent, CallsOK
<1>3. ~(k < current) /\ ~(current < k)
  BY <1>1, <1>2 DEF Top
<1> QED BY <1>1, <1>3 DEF Cos

LEMMA SleepKeeps ==
  ASSUME IInv, NEW d \in Delays, Sleep(d)
  PROVE  IInv'
<1> DEFINE b == [at EXCEPT ![current] = "sleep"]
           tr == Inserted(current, now + d)
           s == [sleeper EXCEPT ![Top] = current]
<1>1. /\ current # 0 /\ at[current] = "user" /\ ops' = ops + 1 /\ ops < MaxOps
      /\ now + d <= MaxTime /\ when' = [when EXCEPT ![current] = now + d]
      /\ BlockIn("sleep", tr, s)
  BY DEF Sleep, UserCoroutine, User
<1>2. /\ PlacesOK(ring, at, child) /\ CallsOK(at, parent, child, top, made)
      /\ SleepOK(at, top, tree, sleeper) /\ CountersOK
  BY DEF IInv, Consistent
<1>3. when' \in [Cos -> 0..MaxTime] /\ ops' \in 0..MaxOps
  <2>1. now \in Nat /\ d \in Nat /\ MaxTime \in Nat /\ ops \in Nat /\ MaxOps \in Nat
    BY <1>2, CoroutineAssumption DEF CountersOK
  <2>2. now + d \in 0..MaxTime /\ ops + 1 \in 0..MaxOps
    BY <1>1, <2>1
  <2> QED BY <1>1, <1>2, <2>2 DEF CountersOK
<1>4. /\ current \in Cos /\ current \in LiveIn(at) /\ Top \in LiveIn(at) /\ Top \in Cos
      /\ top[current] = Top
  BY <1>1, Running DEF LiveIn, Top
<1>5. /\ b[current] = "sleep" /\ \A k \in Cos : k # current => b[k] = at[k]
      /\ LiveIn(b) = LiveIn(at)
  <2>1. Cos \subseteq 0..MaxCo
    BY CoroutineAssumption DEF Cos
  <2>2. b[current] = "sleep" /\ \A k \in Cos : k # current => b[k] = at[k]
    BY <1>2, <1>4, <2>1 DEF PlacesOK
  <2> HIDE DEF b
  <2> QED BY <1>1, <2>2, <1>4 DEF LiveIn
<1>6. /\ s \in [Cos -> Cos \cup {None}] /\ s[Top] = current
      /\ \A k \in Cos : k # Top => s[k] = sleeper[k]
  BY <1>2, <1>4 DEF SleepOK
<1>7. tr \subseteq tree \cup {current}
  BY DEF Inserted
<1> HIDE DEF b, tr, s
<1>8. \A k \in tree : /\ k \in LiveIn(at) /\ at[k] = "sleep" /\ sleeper[top[k]] = k
                      /\ k # current /\ k \in Cos /\ top[k] \in Cos /\ top[k] # Top
  <2> SUFFICES ASSUME NEW k \in tree
               PROVE  /\ k \in LiveIn(at) /\ at[k] = "sleep" /\ sleeper[top[k]] = k
                      /\ k # current /\ k \in Cos /\ top[k] \in Cos /\ top[k] # Top
    OBVIOUS
  <2>1. k \in LiveIn(at) /\ at[k] = "sleep" /\ sleeper[top[k]] = k /\ k \in Cos
    BY <1>2 DEF SleepOK
  <2>2. child[k] = None /\ top[k] \in Cos
    BY <1>2, <2>1 DEF PlacesOK, CallsOK
  <2>3. k # current
    BY <1>1, <2>1
  <2> QED BY <1>1, <2>1, <2>2, <2>3, LastOfItsCalls
<1>9. SleepOK(b, top, tr, s)
  <2>1. \A k \in tr : k \in LiveIn(b) /\ b[k] = "sleep" /\ s[top[k]] = k
    BY <1>4, <1>5, <1>6, <1>7, <1>8
  <2>2. ASSUME NEW k \in Cos, s[k] # None
        PROVE  k \in LiveIn(b) /\ s[k] \in LiveIn(b) /\ top[s[k]] = k /\ b[s[k]] = "sleep"
    <3>1. CASE k = Top
      BY <1>4, <1>5, <1>6, <3>1
    <3>2. CASE k # Top
      <4>1. /\ s[k] = sleeper[k] /\ k \in LiveIn(at) /\ sleeper[k] \in LiveIn(at)
            /\ top[sleeper[k]] = k /\ at[sleeper[k]] = "sleep"
        BY <1>2, <1>6, <2>2, <3>2 DEF SleepOK
      <4>2. sleeper[k] \in Cos /\ sleeper[k] # current
        BY <1>1, <4>1 DEF LiveIn
      <4> QED BY <1>5, <4>1, <4>2
    <3> QED BY <3>1, <3>2
  <2>3. tr \subseteq Cos
    BY <1>2, <1>4, <1>7 DEF SleepOK
  <2> QED BY <1>6, <2>1, <2>2, <2>3 DEF SleepOK
<1>10. "sleep" \in Blocked
  BY DEF Blocked
<1> QED BY <1>1, <1>3, <1>9, <1>10, BlockKeeps DEF b

LEMMA SleepReturnsKeeps ==
  ASSUME IInv, SleepReturns
  PROVE  IInv'
<1> DEFINE b == [at EXCEPT ![current] = "user"]
           s == [sleeper EXCEPT ![Top] = None]
<1>1. /\ current # 0 /\ at[current] = "sleep"
      /\ sleeper' = s /\ tree' = tree \ {current} /\ at' = b
      /\ UNCHANGED <<ring, current, made, exit, callVars, when, eventVars, room,
                     polling, now, ops>>
  BY DEF SleepReturns, IInv, Consistent, PlacesOK
<1>2. /\ PlacesOK(ring, at, child) /\ CallsOK(at, parent, child, top, made)
      /\ SleepOK(at, top, tree, sleeper) /\ EventsOK(at, parent, fd, watch, edge)
  BY DEF IInv, Consistent
<1>3. /\ current \in Cos /\ current \in LiveIn(at) /\ Top \in LiveIn(at) /\ Top \in Cos
      /\ top[current] = Top
  BY <1>1, Running DEF LiveIn, Top
<1>4. /\ \A k \in Cos : k # current => b[k] = at[k]
      /\ LiveIn(b) = LiveIn(at)
  <2>1. Cos \subseteq 0..MaxCo
    BY CoroutineAssumption DEF Cos
  <2>2. b[current] = "user" /\ \A k \in Cos : k # current => b[k] = at[k]
    BY <1>2, <1>3, <2>1 DEF PlacesOK
  <2> HIDE DEF b
  <2> QED BY <1>1, <2>2, <1>3 DEF LiveIn
<1>5. /\ s \in [Cos -> Cos \cup {None}] /\ s[Top] = None
      /\ \A k \in Cos : k # Top => s[k] = sleeper[k]
  BY <1>2, <1>3 DEF SleepOK
<1> HIDE DEF b, s
<1>6. SleepOK(b, top, tree \ {current}, s)
  <2>1. ASSUME NEW k \in tree \ {current}
        PROVE  k \in LiveIn(b) /\ b[k] = "sleep" /\ s[top[k]] = k
    <3>1. k \in LiveIn(at) /\ at[k] = "sleep" /\ sleeper[top[k]] = k /\ k \in Cos
      BY <1>2 DEF SleepOK
    <3>2. child[k] = None /\ top[k] \in Cos
      BY <1>2, <3>1 DEF PlacesOK, CallsOK
    <3>3. top[k] # Top
      BY <1>1, <3>1, <3>2, LastOfItsCalls
    <3> QED BY <1>4, <1>5, <3>1, <3>2, <3>3
  <2>2. ASSUME NEW k \in Cos, s[k] # None
        PROVE  k \in LiveIn(b) /\ s[k] \in LiveIn(b) /\ top[s[k]] = k /\ b[s[k]] = "sleep"
    <3>1. k # Top
      BY <1>5, <2>2
    <3>2. /\ s[k] = sleeper[k] /\ k \in LiveIn(at) /\ sleeper[k] \in LiveIn(at)
          /\ top[sleeper[k]] = k /\ at[sleeper[k]] = "sleep"
      BY <1>2, <1>5, <2>2, <3>1 DEF SleepOK
    <3>3. sleeper[k] \in Cos /\ sleeper[k] # current
      BY <1>3, <3>1, <3>2 DEF LiveIn
    <3> QED BY <1>4, <3>2, <3>3
  <2>3. tree \ {current} \subseteq Cos
    BY <1>2 DEF SleepOK
  <2> QED BY <1>5, <2>1, <2>2, <2>3 DEF SleepOK
<1>7. Consistent(ring, exit, b, parent, child, top, made, tree \ {current}, s, fd, watch, edge)
  BY <1>1, <1>2, <1>6, GoesOn DEF b
<1> QED BY <1>1, <1>7 DEF IInv, CountersOK, callVars, eventVars

-----------------------------------------------------------------------------
(* Makers: new coroutines and calls.                                       *)

\* The next id names nobody yet, and is the greatest.
LEMMA Fresh ==
  ASSUME IInv, made < MaxCo
  PROVE  /\ made + 1 \in Cos /\ made \in Nat /\ at[made + 1] = "unused"
         /\ made + 1 \notin LiveIn(at) /\ ~Contains(ring, made + 1)
         /\ parent[made + 1] = None /\ child[made + 1] = None /\ top[made + 1] = made + 1
         /\ fd[made + 1] = None /\ sleeper[made + 1] = None
         /\ \A k \in LiveIn(at) : k < made + 1 /\ k # made + 1
<1> DEFINE m == made + 1
<1>1. /\ PlacesOK(ring, at, child) /\ CallsOK(at, parent, child, top, made)
      /\ SleepOK(at, top, tree, sleeper) /\ EventsOK(at, parent, fd, watch, edge)
  BY DEF IInv, Consistent
<1>2. m \in Cos /\ made \in Nat /\ m > made
  BY <1>1, CoroutineAssumption DEF CallsOK, Cos
<1>3. \A k \in LiveIn(at) : k < m /\ k # m
  <2> SUFFICES ASSUME NEW k \in LiveIn(at)
               PROVE  k < m /\ k # m
    OBVIOUS
  <2>1. k \in Cos /\ ~(k > made)
    BY <1>1 DEF CallsOK, LiveIn
  <2> QED BY <1>2, <2>1 DEF Cos
<1> HIDE DEF m
<1>4. at[m] = "unused"
  BY <1>1, <1>2 DEF CallsOK
<1>5. m \notin LiveIn(at)
  BY <1>4 DEF LiveIn
<1>6. ~Contains(ring, m)
  BY <1>1, <1>2, <1>5 DEF PlacesOK
<1>7. parent[m] = None /\ child[m] = None /\ top[m] = m
  BY <1>1, <1>2, <1>4 DEF CallsOK
<1>8. fd[m] = None /\ sleeper[m] = None
  BY <1>1, <1>2, <1>5 DEF SleepOK, EventsOK
<1> QED BY <1>2, <1>3, <1>4, <1>5, <1>6, <1>7, <1>8 DEF m

LEMMA CreateKeeps ==
  ASSUME IInv, NEW f \in Fds \cup {None}, Create(f)
  PROVE  IInv'
<1>1. /\ made < MaxCo /\ made' = made + 1
      /\ at' = [at EXCEPT ![made'] = "new"] /\ ring' = Append(ring, made')
      /\ fd' = [fd EXCEPT ![made'] = f]
      /\ UNCHANGED <<current, exit, callVars, when, tree, sleeper, watch, data,
                     edge, room, polling, now>>
      /\ f # None => \A n \in Cos : fd[n] # f
  BY DEF Create
<1>2. ops' \in 0..MaxOps
  BY CoroutineAssumption DEF Create, User, IInv, CountersOK
<1>3. /\ RingOf(ring) /\ PlacesOK(ring, at, child) /\ CallsOK(at, parent, child, top, made)
      /\ ExitOK(exit, at, parent) /\ SleepOK(at, top, tree, sleeper)
      /\ EventsOK(at, parent, fd, watch, edge) /\ Contains(ring, current)
  BY DEF IInv, Consistent
<1>4. PICK m \in Cos : m = made + 1
  BY <1>1, Fresh
<1>5. /\ made \in Nat /\ at[m] = "unused" /\ m \notin LiveIn(at) /\ ~Contains(ring, m)
      /\ parent[m] = None /\ child[m] = None /\ top[m] = m /\ fd[m] = None
      /\ sleeper[m] = None /\ \A k \in LiveIn(at) : k < m /\ k # m
  BY <1>1, <1>4, Fresh
<1>6. RingOf(ring') /\ \A k : Contains(ring', k) <=> Contains(ring, k) \/ k = m
  BY <1>1, <1>3, <1>4, <1>5, Appended
<1>7. /\ at' \in [0..MaxCo -> Places] /\ at'[m] = "new"
      /\ \A k \in 0..MaxCo : k # m => at'[k] = at[k]
      /\ Cos \subseteq 0..MaxCo /\ m # 0
  BY <1>1, <1>3, <1>4, CoroutineAssumption DEF PlacesOK, Places, Cos
<1>8. LiveIn(at') = LiveIn(at) \cup {m}
  BY <1>5, <1>7 DEF LiveIn
<1>9. PlacesOK(ring', at', child')
  <2>1. child' = child
    BY <1>1 DEF callVars
  <2>2. at'[0] \in {"user", "poll", "wakeup", "end"}
    BY <1>3, <1>7, CoroutineAssumption DEF PlacesOK
  <2>3. \A k \in Cos : at'[k] \notin {"poll", "wakeup", "end"}
    BY <1>3, <1>7 DEF PlacesOK
  <2>4. \A k \in LiveIn(at) : k \in Cos /\ k # m /\ at'[k] = at[k]
    BY <1>5, <1>7 DEF LiveIn
  <2>5. \A k \in LiveIn(at') : child[k] # None => at'[k] = "call" /\ ~Contains(ring', k)
    BY <1>3, <1>5, <1>6, <1>8, <2>4 DEF PlacesOK
  <2>6. \A k \in LiveIn(at') : child[k] = None =>
                                 at'[k] # "call" /\ (Contains(ring', k) \/ at'[k] \in Blocked)
    BY <1>3, <1>5, <1>6, <1>7, <1>8, <2>4 DEF PlacesOK
  <2>7. \A k \in Cos : Contains(ring', k) => k \in LiveIn(at')
    BY <1>3, <1>6, <1>8 DEF PlacesOK
  <2> QED BY <1>7, <2>1, <2>2, <2>3, <2>5, <2>6, <2>7 DEF PlacesOK
<1>10. CallsOK(at', parent', child', top', made')
  <2>1. parent' = parent /\ child' = child /\ top' = top /\ made' = m
    BY <1>1, <1>4 DEF callVars
  <2>2. m \in 0..MaxCo
    BY <1>7
  <2>3. \A k \in Cos : (at'[k] = "unused") <=> (k > m)
    <3>1. \A k \in Cos : k # m => ((k > m) <=> (k > made))
      BY <1>4, <1>5 DEF Cos
    <3>2. \A k \in Cos : k # m => ((at'[k] = "unused") <=> (k > m))
      BY <1>3, <1>7, <3>1 DEF CallsOK
    <3>3. ~(m > m)
      BY <1>4 DEF Cos
    <3> QED BY <1>7, <3>2, <3>3
  <2>4. \A k \in Cos : at'[k] = "unused" => parent[k] = None /\ child[k] = None
    BY <1>3, <1>7 DEF CallsOK
  <2>5. \A k \in LiveIn(at') : top[k] \in LiveIn(at')
    BY <1>3, <1>5, <1>8 DEF CallsOK
  <2>6. \A k \in LiveIn(at') : parent[k] # None =>
                                 parent[k] \in LiveIn(at') /\ child[parent[k]] = k
    BY <1>3, <1>5, <1>8 DEF CallsOK
  <2>7. ASSUME NEW n \in LiveIn(at'), NEW k \in LiveIn(at'), top[n] = top[k], n < k
        PROVE  child[n] # None /\ child[n] <= k
    <3>1. CASE n \in LiveIn(at) /\ k \in LiveIn(at)
      BY <1>3, <2>7, <3>1 DEF CallsOK
    <3>2. CASE k = m
      <4>1. n \in LiveIn(at)
        BY <1>4, <1>8, <2>7, <3>2 DEF Cos
      <4>2. top[n] \in LiveIn(at)
        BY <1>3, <4>1 DEF CallsOK
      <4> QED BY <1>5, <2>7, <3>2, <4>2
    <3>3. CASE n = m
      <4>1. k \in LiveIn(at)
        BY <1>4, <1>8, <2>7, <3>3 DEF Cos
      <4>2. top[k] \in LiveIn(at)
        BY <1>3, <4>1 DEF CallsOK
      <4> QED BY <1>5, <2>7, <3>3, <4>2
    <3> QED BY <1>8, <3>1, <3>2, <3>3
  <2> QED BY <1>3, <2>1, <2>2, <2>3, <2>4, <2>5, <2>6, <2>7 DEF CallsOK
<1>11. ExitOK(exit', at', parent')
  BY <1>1, <1>3, <1>5, <1>7 DEF ExitOK, callVars
<1>12. SleepOK(at', top', tree', sleeper')
  <2>1. \A k \in LiveIn(at) : at'[k] = at[k] /\ k \in LiveIn(at')
    BY <1>5, <1>7, <1>8 DEF LiveIn
  <2> QED BY <1>1, <1>3, <2>1 DEF SleepOK, callVars
<1>13. EventsOK(at', parent', fd', watch', edge')
  <2>1. /\ fd' \in [Cos -> Fds \cup {None}] /\ fd'[m] = f
        /\ \A k \in Cos : k # m => fd'[k] = fd[k]
    BY <1>1, <1>3, <1>4 DEF EventsOK
  <2>2. watch' = watch /\ edge' = edge /\ parent' = parent
    BY <1>1 DEF callVars
  <2>3. \A k \in Cos : fd'[k] # None => k \in LiveIn(at') /\ parent[k] = None
    BY <1>3, <1>5, <1>8, <2>1 DEF EventsOK
  <2>4. \A g \in Fds : watch[g] # None => fd'[watch[g]] = g
    <3> SUFFICES ASSUME NEW g \in Fds, watch[g] # None PROVE fd'[watch[g]] = g
      OBVIOUS
    <3>1. watch[g] \in Cos /\ fd[watch[g]] = g /\ g # None
      BY <1>3, CoroutineAssumption DEF EventsOK
    <3> QED BY <1>5, <2>1, <3>1
  <2> QED BY <1>3, <2>1, <2>2, <2>3, <2>4 DEF EventsOK
<1>14. Contains(ring', current')
  BY <1>1, <1>3, <1>6
<1> QED BY <1>1, <1>2, <1>6, <1>9, <1>10, <1>11, <1>12, <1>13, <1>14 DEF IInv, Consistent, CountersOK

\* The chain of calls grows by one at its end.
LEMMA ChainGrows ==
  ASSUME IInv, current # 0, made < MaxCo, NEW m \in Cos, m = made + 1,
         NEW a, LiveIn(a) = LiveIn(at) \cup {m},
         \A k \in Cos : (a[k] = "unused") <=> (at[k] = "unused" /\ k # m)
  PROVE  CallsOK(a, [parent EXCEPT ![m] = current], [child EXCEPT ![current] = m],
                 [top EXCEPT ![m] = Top], m)
<1> DEFINE p == [parent EXCEPT ![m] = current]
           c == [child EXCEPT ![current] = m]
           t == [top EXCEPT ![m] = Top]
<1>1. CallsOK(at, parent, child, top, made)
  BY DEF IInv, Consistent
<1>2. /\ made \in Nat /\ at[m] = "unused" /\ m \notin LiveIn(at)
      /\ parent[m] = None /\ child[m] = None /\ top[m] = m
      /\ \A k \in LiveIn(at) : k < m /\ k # m
  BY Fresh
<1>3. /\ current \in Cos /\ current \in LiveIn(at) /\ child[current] = None /\ current # m
      /\ Top \in LiveIn(at) /\ parent[Top] = None /\ Top \in Cos /\ top[current] = Top
      /\ current < m /\ Top < m /\ Top # m
  BY <1>2, Running DEF LiveIn, Top
<1>4. /\ p \in [Cos -> Cos \cup {None}] /\ p[m] = current
      /\ \A k \in Cos : k # m => p[k] = parent[k]
  BY <1>1, <1>3 DEF CallsOK
<1>5. /\ c \in [Cos -> Cos \cup {None}] /\ c[current] = m
      /\ \A k \in Cos : k # current => c[k] = child[k]
  BY <1>1, <1>3 DEF CallsOK
<1>6. /\ t \in [Cos -> Cos] /\ t[m] = Top
      /\ \A k \in Cos : k # m => t[k] = top[k]
  BY <1>1, <1>3 DEF CallsOK
<1>7. \A k \in LiveIn(at) : k \in Cos
  BY DEF LiveIn
<1>8. \A k \in Cos : k \in Nat
  BY DEF Cos
<1>9. None \notin Cos
  BY CoroutineAssumption DEF Cos
<1> HIDE DEF p, c, t
<1>10. \A k \in Cos : (a[k] = "unused") <=> (k > m)
  <2>1. made \in Nat /\ m = made + 1
    BY <1>2
  <2>2. ASSUME NEW k \in Nat
        PROVE  (k > m) <=> (k > made /\ k # m)
    BY <2>1
  <2>3. \A k \in Cos : (k > m) <=> (k > made /\ k # m)
    BY <1>8, <2>2
  <2> QED BY <1>1, <2>3 DEF CallsOK
<1>11. \A k \in Cos : a[k] = "unused" => p[k] = None /\ c[k] = None
  <2>1. \A k \in LiveIn(at) : a[k] # "unused"
    BY <1>7 DEF LiveIn
  <2> QED BY <1>1, <1>3, <1>4, <1>5, <2>1 DEF CallsOK
<1>12. \A k \in Cos : k # m => parent[k] # m /\ top[k] # m
  <2> SUFFICES ASSUME NEW k \in Cos, k # m
               PROVE  parent[k] # m /\ top[k] # m
    OBVIOUS
  <2>1. CASE k < m
    <3>1. parent[k] # None => parent[k] < k
      BY <1>1 DEF CallsOK
    <3>2. top[k] <= k /\ top[k] \in Nat
      BY <1>1, <1>8 DEF CallsOK
    <3>3. parent[k] # m
      BY <1>8, <1>9, <2>1, <3>1
    <3> QED BY <1>8, <2>1, <3>2, <3>3
  <2>2. CASE k > m
    <3>1. k > made
      BY <1>2, <1>8, <2>2
    <3>2. parent[k] = None /\ top[k] = k
      BY <1>1, <3>1 DEF CallsOK
    <3> QED BY <1>9, <3>2
  <2> QED BY <1>8, <2>1, <2>2
<1>13. \A k \in Cos : p[k] = None => t[k] = k
  BY <1>1, <1>3, <1>4, <1>6, <1>9 DEF CallsOK
<1>14. ASSUME NEW k \in Cos, p[k] # None
       PROVE  p[k] < k /\ t[k] = t[p[k]]
  <2>1. CASE k = m
    BY <1>3, <1>4, <1>6, <2>1
  <2>2. CASE k # m
    <3>1. parent[k] < k /\ top[k] = top[parent[k]] /\ parent[k] # m /\ p[k] = parent[k]
      BY <1>1, <1>4, <1>12, <1>14, <2>2 DEF CallsOK
    <3>2. parent[k] \in Cos
      BY <1>1, <1>14, <3>1 DEF CallsOK
    <3> QED BY <1>6, <2>2, <3>1, <3>2
  <2> QED BY <2>1, <2>2
<1>15. ASSUME NEW k \in Cos
       PROVE  t[k] <= k /\ p[t[k]] = None
  <2>1. CASE k = m
    <3>1. Top <= m
      BY <1>3, <1>8
    <3> QED BY <1>3, <1>4, <1>6, <2>1, <3>1
  <2>2. CASE k # m
    <3>1. top[k] <= k /\ parent[top[k]] = None /\ top[k] # m /\ top[k] \in Cos
      BY <1>1, <1>12, <2>2 DEF CallsOK
    <3> QED BY <1>4, <1>6, <2>2, <3>1
  <2> QED BY <2>1, <2>2
<1>16. \A k \in LiveIn(a) : t[k] \in LiveIn(a)
  BY <1>1, <1>2, <1>3, <1>6, <1>7 DEF CallsOK
<1>17. \A k \in LiveIn(a) : p[k] # None => p[k] \in LiveIn(a) /\ c[p[k]] = k
  <2> SUFFICES ASSUME NEW k \in LiveIn(a), p[k] # None
               PROVE  p[k] \in LiveIn(a) /\ c[p[k]] = k
    OBVIOUS
  <2>1. CASE k = m
    BY <1>3, <1>4, <1>5, <2>1
  <2>2. CASE k # m
    <3>1. k \in LiveIn(at) /\ k \in Cos /\ p[k] = parent[k] /\ k # None
      BY <1>4, <1>7, <1>9, <2>2
    <3>2. parent[k] \in LiveIn(at) /\ child[parent[k]] = k
      BY <1>1, <3>1 DEF CallsOK
    <3>3. parent[k] # current /\ parent[k] \in Cos
      BY <1>3, <1>7, <3>1, <3>2
    <3> QED BY <1>5, <3>1, <3>2, <3>3
  <2> QED BY <2>1, <2>2
<1>18. ASSUME NEW n \in LiveIn(a), NEW k \in LiveIn(a), t[n] = t[k], n < k
       PROVE  c[n] # None /\ c[n] <= k
  <2>1. CASE n = m
    <3>1. k = m \/ k < m
      BY <1>2
    <3> QED BY <1>7, <1>8, <1>18, <2>1, <3>1
  <2>2. CASE n # m /\ k # m
    <3>1. n \in LiveIn(at) /\ k \in LiveIn(at) /\ top[n] = top[k]
      BY <1>6, <1>7, <1>18, <2>2
    <3>2. child[n] # None /\ child[n] <= k
      BY <1>1, <1>18, <3>1 DEF CallsOK
    <3> QED BY <1>3, <1>5, <1>7, <3>1, <3>2
  <2>3. CASE n = current /\ k = m
    BY <1>5, <1>8, <1>9, <2>3
  <2>4. CASE n # m /\ n # current /\ k = m
    <3>1. n \in LiveIn(at) /\ n \in Cos /\ top[n] = Top
      BY <1>6, <1>7, <1>18, <2>4
    <3>2. child[n] # None
      BY <2>4, <3>1, LastOfItsCalls
    <3>3. ~(current < n)
      BY <1>1, <1>3, <3>1 DEF CallsOK
    <3>4. n < current
      BY <1>3, <1>8, <2>4, <3>1, <3>3
    <3>5. child[n] <= current /\ child[n] \in Cos
      BY <1>1, <1>3, <3>1, <3>2, <3>4 DEF CallsOK
    <3>6. child[n] <= m
      <4>1. child[n] \in Nat /\ current \in Nat /\ m \in Nat /\ current < m
        BY <1>3, <1>8, <3>5
      <4> QED BY <3>5, <4>1
    <3> QED BY <1>5, <2>4, <3>1, <3>2, <3>6
  <2> QED BY <2>1, <2>2, <2>3, <2>4
<1>19. m \in 0..MaxCo
  BY CoroutineAssumption DEF Cos
<1>20. CallsOK(a, p, c, t, m)
  BY <1>4, <1>5, <1>6, <1>10, <1>11, <1>13, <1>14, <1>15, <1>16, <1>17, <1>18, <1>19 DEF CallsOK
<1> QED BY <1>20 DEF p, c, t

\* What a coroutine that calls leaves to SwitchTo.
LEMMA CallLeaves ==
  ASSUME IInv, Call, NEW m, m = made + 1
  PROVE  /\ m \in Cos /\ made' = m /\ current \in LiveIn(at) /\ at[current] = "user"
         /\ Consistent(Replaced(current, m), exit,
                       [at EXCEPT ![m] = "user", ![current] = "call"],
                       parent', child', top', m, tree, sleeper, fd, watch, edge)
         /\ Contains(Replaced(current, m), m) /\ ~Contains(Replaced(current, m), current)
         /\ parent'[m] = current /\ child'[current] = m
         /\ SwitchTo(m, Replaced(current, m), exit,
                     [at EXCEPT ![m] = "user", ![current] = "call"], tree, sleeper)
         /\ UNCHANGED <<when, room, polling, now>> /\ ops' \in 0..MaxOps
<1>1. /\ current # 0 /\ at[current] = "user" /\ made < MaxCo
      /\ made' = m /\ parent' = [parent EXCEPT ![m] = current]
      /\ child' = [child EXCEPT ![current] = m] /\ top' = [top EXCEPT ![m] = Top]
      /\ SwitchTo(m, Replaced(current, m), exit,
                  [at EXCEPT ![m] = "user", ![current] = "call"], tree, sleeper)
      /\ UNCHANGED <<when, room, polling, now>>
  BY DEF Call, UserCoroutine, User
<1>2. ops' \in 0..MaxOps
  BY CoroutineAssumption DEF Call, UserCoroutine, User, IInv, CountersOK
<1>3. /\ RingOf(ring) /\ PlacesOK(ring, at, child) /\ CallsOK(at, parent, child, top, made)
      /\ ExitOK(exit, at, parent) /\ SleepOK(at, top, tree, sleeper)
      /\ EventsOK(at, parent, fd, watch, edge) /\ Contains(ring, current)
  BY DEF IInv, Consistent
<1>4. m \in Cos
  BY <1>1, Fresh
<1>5. /\ m \notin LiveIn(at) /\ ~Contains(ring, m) /\ child[m] = None /\ fd[m] = None
      /\ sleeper[m] = None
  BY <1>1, <1>4, Fresh
<1>6. /\ current \in Cos /\ current \in LiveIn(at) /\ child[current] = None /\ current # m
  BY <1>1, <1>5, Running
<1>7. at[m] = "unused"
  BY <1>1, Fresh
<1> DEFINE r == Replaced(current, m)
           a == [at EXCEPT ![m] = "user", ![current] = "call"]
           p == [parent EXCEPT ![m] = current]
           c == [child EXCEPT ![current] = m]
           t == [top EXCEPT ![m] = Top]
<1>8. parent' = p /\ child' = c /\ top' = t
  BY <1>1
<1>9. RingOf(r) /\ \A k : Contains(r, k) <=> (Contains(ring, k) /\ k # current) \/ k = m
  BY <1>3, <1>4, <1>5, <1>6, OneReplaced
<1>10. /\ a \in [0..MaxCo -> Places] /\ a[m] = "user" /\ a[current] = "call"
       /\ \A k \in 0..MaxCo : k # m /\ k # current => a[k] = at[k]
       /\ Cos \subseteq 0..MaxCo /\ 0 \notin Cos /\ 0 \in 0..MaxCo
  BY <1>3, <1>4, <1>6, CoroutineAssumption DEF PlacesOK, Places, Blocked, Cos
<1>11. c[current] = m /\ \A k \in Cos : k # current => c[k] = child[k]
  BY <1>3, <1>6 DEF CallsOK
<1>12. \A k \in Cos : k # m => p[k] = parent[k] /\ t[k] = top[k]
  BY <1>3 DEF CallsOK
<1> HIDE DEF a, c, p, t, r
<1>13. LiveIn(a) = LiveIn(at) \cup {m}
  BY <1>4, <1>6, <1>10 DEF LiveIn
<1>14. m # None /\ \A k \in LiveIn(at) : k \in Cos /\ k # m
  BY <1>4, <1>5, CoroutineAssumption DEF LiveIn, Cos
<1>15. PlacesOK(r, a, c)
  <2>1. a[0] \in {"user", "poll", "wakeup", "end"}
    BY <1>3, <1>6, <1>10 DEF PlacesOK
  <2>2. \A k \in Cos : a[k] \notin {"poll", "wakeup", "end"}
    BY <1>3, <1>10 DEF PlacesOK
  <2>3. \A k \in LiveIn(at) : k # current => a[k] = at[k] /\ c[k] = child[k]
    BY <1>10, <1>11, <1>14
  <2>4. ASSUME NEW k \in LiveIn(a)
        PROVE  /\ c[k] # None => a[k] = "call" /\ ~Contains(r, k)
               /\ c[k] = None => a[k] # "call" /\ (Contains(r, k) \/ a[k] \in Blocked)
    <3>1. CASE k = m
      BY <1>4, <1>5, <1>6, <1>9, <1>10, <1>11, <3>1
    <3>2. CASE k = current
      BY <1>6, <1>9, <1>10, <1>11, <1>14, <3>2
    <3>3. CASE k # m /\ k # current
      <4>1. k \in LiveIn(at) /\ a[k] = at[k] /\ c[k] = child[k]
        BY <1>13, <2>3, <3>3
      <4> QED BY <1>3, <1>9, <3>3, <4>1 DEF PlacesOK
    <3> QED BY <3>1, <3>2, <3>3
  <2>5. \A k \in Cos : Contains(r, k) => k \in LiveIn(a)
    BY <1>3, <1>9, <1>13 DEF PlacesOK
  <2> QED BY <1>10, <2>1, <2>2, <2>4, <2>5 DEF PlacesOK
<1>16. CallsOK(a, p, c, t, m)
  <2>1. \A k \in Cos : (a[k] = "unused") <=> (at[k] = "unused" /\ k # m)
    BY <1>6, <1>10 DEF LiveIn
  <2> QED BY <1>1, <1>4, <1>13, <2>1, ChainGrows DEF p, c, t
<1>17. ExitOK(exit, a, p)
  BY <1>3, <1>5, <1>6, <1>10, <1>12, <1>7 DEF ExitOK
<1>18. SleepOK(a, t, tree, sleeper)
  <2>1. \A k \in LiveIn(at) : at[k] = "sleep" => a[k] = "sleep" /\ t[k] = top[k]
    BY <1>1, <1>10, <1>12, <1>14
  <2> QED BY <1>3, <1>13, <2>1 DEF SleepOK
<1>19. EventsOK(a, p, fd, watch, edge)
  BY <1>3, <1>5, <1>12, <1>13 DEF EventsOK
<1>20. p[m] = current
  BY <1>3, <1>4 DEF p, CallsOK
<1>21. Consistent(r, exit, a, p, c, t, m, tree, sleeper, fd, watch, edge)
  BY <1>9, <1>15, <1>16, <1>17, <1>18, <1>19 DEF Consistent
<1>22. Contains(r, m) /\ ~Contains(r, current)
  BY <1>6, <1>9
<1> QED BY <1>1, <1>2, <1>4, <1>6, <1>8, <1>11, <1>20, <1>21, <1>22 DEF r, a

LEMMA CallKeeps ==
  ASSUME IInv, Call, current \notin exit
  PROVE  IInv'
<1> DEFINE m == made + 1
           r == Replaced(current, m)
           a == [at EXCEPT ![m] = "user", ![current] = "call"]
<1>1. /\ m \in Cos /\ made' = m /\ Contains(r, m) /\ SwitchTo(m, r, exit, a, tree, sleeper)
      /\ Consistent(r, exit, a, parent', child', top', m, tree, sleeper, fd, watch, edge)
      /\ UNCHANGED <<when, room, polling, now>> /\ ops' \in 0..MaxOps
  BY CallLeaves
<1> HIDE DEF m, r, a
<1>2. /\ ring' = r /\ exit' = exit /\ at' = a /\ current' = m /\ tree' = tree
      /\ sleeper' = sleeper /\ UNCHANGED <<watch, data, edge, fd>>
  BY <1>1 DEF SwitchTo, eventVars
<1>3. m \in 0..MaxCo
  BY <1>1, CoroutineAssumption DEF Cos
<1> QED BY <1>1, <1>2, <1>3 DEF IInv, CountersOK

\* A caller that was killed is destroyed, but nothing else is lost.
LEMMA KilledCalls ==
  ASSUME IInv, Call, current \in exit
  PROVE  Lost'
<1> DEFINE m == made + 1
           r == Replaced(current, m)
           a == [at EXCEPT ![m] = "user", ![current] = "call"]
<1>1. /\ m \in Cos /\ made' = m /\ Contains(r, m) /\ ~Contains(r, current)
      /\ SwitchTo(m, r, exit, a, tree, sleeper)
      /\ Consistent(r, exit, a, parent', child', top', m, tree, sleeper, fd, watch, edge)
      /\ current \in LiveIn(at) /\ at[current] = "user"
      /\ parent'[m] = current /\ child'[current] = m
      /\ UNCHANGED <<when, room, polling, now>> /\ ops' \in 0..MaxOps
  BY CallLeaves
<1>2. a[m] = "user" /\ 0 \notin Cos /\ Cos \subseteq 0..MaxCo /\ None \notin Cos /\ m # current
  BY <1>1, CoroutineAssumption DEF IInv, Consistent, PlacesOK, Cos
<1> HIDE DEF m, r, a
<1>3. /\ ring' = Unlinked(r, current) /\ exit' = exit /\ at' = [a EXCEPT ![current] = "dead"]
      /\ current' = m /\ tree' = tree \ {sleeper[current]}
      /\ sleeper' = [sleeper EXCEPT ![current] = None]
      /\ watch' = [g \in Fds |-> IF g = fd[current] THEN None ELSE watch[g]]
      /\ data' = data \ {fd[current]} /\ edge' = edge \ {fd[current]}
      /\ fd' = [fd EXCEPT ![current] = None]
  BY <1>1 DEF SwitchTo, EraseTimer, EventCleanup
<1>4. ring' = r
  BY <1>1, <1>3 DEF Unlinked
<1>5. /\ RingOf(r) /\ PlacesOK(r, a, child') /\ CallsOK(a, parent', child', top', m)
      /\ ExitOK(exit, a, parent') /\ SleepOK(a, top', tree, sleeper)
      /\ EventsOK(a, parent', fd, watch, edge) /\ CountersOK
  BY <1>1 DEF Consistent, IInv
<1>6. current \in Cos /\ m \in LiveIn(a) /\ current \in LiveIn(a) /\ a[current] = "call"
  <2>1. current \in Cos /\ m \in LiveIn(a)
    BY <1>1, <1>5 DEF LiveIn, PlacesOK
  <2>2. current \in LiveIn(a)
    BY <1>1, <1>2, <1>5, <2>1 DEF CallsOK
  <2> QED BY <1>1, <1>2, <1>5, <2>1, <2>2 DEF PlacesOK
<1>7. sleeper[current] = None
  <2> SUFFICES ASSUME sleeper[current] # None
               PROVE  FALSE
    OBVIOUS
  <2>1. PICK x : x = sleeper[current]
    OBVIOUS
  <2>2. x \in LiveIn(a) /\ top'[x] = current /\ a[x] = "sleep" /\ x \in Cos /\ x # m
    BY <1>2, <1>5, <1>6, <2>1 DEF SleepOK, LiveIn
  <2>3. child'[x] = None /\ child'[m] = None
    BY <1>1, <1>5, <1>6, <2>2 DEF PlacesOK
  <2>4. top'[current] = current /\ top'[m] = current
    BY <1>1, <1>2, <1>5, <1>6 DEF CallsOK, ExitOK
  <2>5. ~(x < m) /\ ~(m < x)
    BY <1>5, <1>6, <2>2, <2>3, <2>4 DEF CallsOK
  <2> QED BY <1>1, <2>2, <2>5 DEF Cos
<1>8. tree' = tree /\ sleeper' = sleeper
  BY <1>2, <1>3, <1>5, <1>7 DEF SleepOK
<1>9. /\ at' \in [0..MaxCo -> Places] /\ at'[current] = "dead"
      /\ \A k \in 0..MaxCo : k # current => at'[k] = a[k]
  BY <1>2, <1>3, <1>5, <1>6 DEF PlacesOK, Places
<1>10. /\ Alive' = LiveIn(a) \ {current}
       /\ \A k \in Alive' : k \in Cos /\ k # current /\ at'[k] = a[k]
  BY <1>2, <1>9 DEF Alive, LiveIn
<1>11. CallerFreed'
  BY <1>1, <1>2, <1>6, <1>10 DEF CallerFreed
<1>12. TypeOK'
  <2>1. ring' \in Seq(0..MaxCo) /\ exit' \subseteq Cos /\ current' \in 0..MaxCo
    BY <1>1, <1>2, <1>3, <1>4, <1>5 DEF RingOf, ExitOK
  <2>2. /\ fd' \in [Cos -> Fds \cup {None}] /\ watch' \in [Fds -> Cos \cup {None}]
        /\ edge' \subseteq Fds /\ data' \subseteq Fds
    BY <1>3, <1>5, <1>6 DEF EventsOK, CountersOK
  <2>3. /\ tree' \subseteq Cos /\ sleeper' \in [Cos -> Cos \cup {None}]
    BY <1>5, <1>8 DEF SleepOK
  <2> QED BY <1>1, <1>5, <1>9, <2>1, <2>2, <2>3 DEF TypeOK, CallsOK, CountersOK, Places
<1>13. RingIsRunnable'
  <2>1. \A i, j \in DOMAIN r : r[i] = r[j] => i = j
    BY <1>5 DEF RingOf
  <2>2. r[1] = 0 /\ Contains(r, m)
    BY <1>1, <1>5 DEF RingOf
  <2>3. ASSUME NEW n \in Alive'
        PROVE  IF child'[n] # None THEN at'[n] = "call" /\ ~Contains(r, n)
                                   ELSE Contains(r, n) \/ at'[n] \in Blocked
    BY <1>5, <1>10 DEF PlacesOK
  <2>4. ASSUME NEW i \in DOMAIN r, r[i] # 0
        PROVE  r[i] \in Alive'
    <3>1. r[i] \in 0..MaxCo /\ Contains(r, r[i])
      <4>1. r \in Seq(0..MaxCo) /\ i \in 1..Len(r)
        BY <1>5 DEF RingOf
      <4> QED BY <2>4, <4>1, ElementOfSeq DEF Contains
    <3>2. r[i] \in Cos /\ r[i] # current
      BY <1>1, <2>4, <3>1, CoroutineAssumption DEF Cos
    <3> QED BY <1>5, <1>10, <3>1, <3>2 DEF PlacesOK
  <2> QED BY <1>3, <1>4, <1>12, <2>1, <2>2, <2>3, <2>4 DEF RingIsRunnable
<1>14. NothingDangles'
  <2>1. ASSUME NEW n \in tree
        PROVE  n \in Alive' /\ at'[n] = "sleep" /\ sleeper[top'[n]] = n
    BY <1>5, <1>6, <1>10 DEF SleepOK
  <2>2. ASSUME NEW f \in Fds, watch'[f] # None
        PROVE  watch'[f] \in Alive' /\ fd'[watch'[f]] = f
    <3>1. f # fd[current] /\ watch'[f] = watch[f] /\ watch[f] # None
      BY <1>3, <2>2
    <3>2. watch[f] \in Cos /\ fd[watch[f]] = f /\ f # None
      BY <1>5, <3>1, CoroutineAssumption DEF EventsOK
    <3>3. watch[f] # current /\ watch[f] \in LiveIn(a)
      BY <1>5, <3>1, <3>2 DEF EventsOK
    <3>4. fd'[watch[f]] = fd[watch[f]]
      BY <1>3, <1>5, <3>2, <3>3 DEF EventsOK
    <3> QED BY <1>10, <3>1, <3>2, <3>3, <3>4
  <2>3. ASSUME NEW n \in Cos, sleeper[n] # None
        PROVE  n \in Alive' /\ sleeper[n] \in Alive'
    BY <1>5, <1>6, <1>7, <1>10, <2>3 DEF SleepOK
  <2> QED BY <1>8, <2>1, <2>2, <2>3 DEF NothingDangles, Watched
<1>15. ASSUME NEW n \in Alive', parent'[n] # None
       PROVE  child'[parent'[n]] = n /\ (parent'[n] \in Alive' \/ parent'[n] \in exit')
  BY <1>3, <1>5, <1>10, <1>15 DEF CallsOK
<1>16. NobodyIsFreedEarly'
  BY <1>14, <1>15 DEF NobodyIsFreedEarly
<1> QED BY <1>11, <1>13, <1>16 DEF Lost

LEMMA ReturnKeeps ==
  ASSUME IInv, Return
  PROVE  IInv'
<1>1. /\ current # 0 /\ at[current] = "user" /\ parent[current] # None
      /\ child' = [child EXCEPT ![parent[current]] = None]
      /\ ring' = Replaced(current, parent[current])
      /\ at' = [at EXCEPT ![parent[current]] = "user", ![current] = "dead"]
      /\ current' = parent[current]
      /\ UNCHANGED <<made, exit, parent, top, when, tree, sleeper, eventVars, room,
                     polling, now, ops>>
  BY DEF Return
<1>2. /\ RingOf(ring) /\ PlacesOK(ring, at, child) /\ CallsOK(at, parent, child, top, made)
      /\ ExitOK(exit, at, parent) /\ SleepOK(at, top, tree, sleeper)
      /\ EventsOK(at, parent, fd, watch, edge) /\ Contains(ring, current)
  BY DEF IInv, Consistent
<1>3. current \in Cos /\ current \in LiveIn(at) /\ child[current] = None
  BY <1>1, Running
<1>4. PICK q \in LiveIn(at) : q = parent[current]
  BY <1>1, <1>2, <1>3 DEF CallsOK
<1>5. /\ q \in Cos /\ child[q] = current /\ q # current /\ top[q] = top[current]
      /\ None \notin Cos
  BY <1>1, <1>2, <1>3, <1>4, CoroutineAssumption DEF CallsOK, LiveIn, Cos
<1>6. child[q] # None /\ at[q] = "call" /\ ~Contains(ring, q)
  BY <1>2, <1>3, <1>5 DEF PlacesOK
<1> DEFINE r == Replaced(current, q)
           a == [at EXCEPT ![q] = "user", ![current] = "dead"]
           c == [child EXCEPT ![q] = None]
<1>7. ring' = r /\ at' = a /\ child' = c /\ current' = q
  BY <1>1, <1>4
<1>8. RingOf(r) /\ \A k : Contains(r, k) <=> (Contains(ring, k) /\ k # current) \/ k = q
  BY <1>2, <1>3, <1>5, <1>6, OneReplaced
<1>9. /\ a \in [0..MaxCo -> Places] /\ a[q] = "user" /\ a[current] = "dead"
      /\ \A k \in 0..MaxCo : k # q /\ k # current => a[k] = at[k]
      /\ Cos \subseteq 0..MaxCo /\ 0 \notin Cos /\ 0 \in 0..MaxCo
  BY <1>2, <1>3, <1>5, CoroutineAssumption DEF PlacesOK, Places, Blocked, Cos
<1>10. /\ c \in [Cos -> Cos \cup {None}] /\ c[q] = None
       /\ \A k \in Cos : k # q => c[k] = child[k]
  BY <1>2, <1>5 DEF CallsOK
<1> HIDE DEF a, c, r
<1>11. LiveIn(a) = LiveIn(at) \ {current}
  BY <1>5, <1>9 DEF LiveIn
<1>12. \A k \in LiveIn(at) : k \in Cos
  BY DEF LiveIn
<1>13. PlacesOK(r, a, c)
  <2>1. a[0] \in {"user", "poll", "wakeup", "end"}
    BY <1>2, <1>3, <1>5, <1>9 DEF PlacesOK
  <2>2. \A k \in Cos : a[k] \notin {"poll", "wakeup", "end"}
    BY <1>2, <1>9 DEF PlacesOK
  <2>3. ASSUME NEW k \in LiveIn(a)
        PROVE  /\ c[k] # None => a[k] = "call" /\ ~Contains(r, k)
               /\ c[k] = None => a[k] # "call" /\ (Contains(r, k) \/ a[k] \in Blocked)
    <3>1. CASE k = q
      BY <1>8, <1>9, <1>10, <3>1
    <3>2. CASE k # q
      <4>1. k \in LiveIn(at) /\ k # current /\ a[k] = at[k] /\ c[k] = child[k]
        BY <1>9, <1>10, <1>11, <1>12, <3>2
      <4> QED BY <1>2, <1>8, <3>2, <4>1 DEF PlacesOK
    <3> QED BY <3>1, <3>2
  <2>4. \A k \in Cos : Contains(r, k) => k \in LiveIn(a)
    BY <1>2, <1>5, <1>8, <1>11 DEF PlacesOK
  <2> QED BY <1>9, <2>1, <2>2, <2>3, <2>4 DEF PlacesOK
<1>14. CallsOK(a, parent, c, top, made)
  <2>1. \A k \in Cos : (a[k] = "unused") <=> (at[k] = "unused")
    BY <1>5, <1>6, <1>3, <1>9 DEF LiveIn
  <2>2. \A k \in Cos : at[k] = "unused" => parent[k] = None /\ c[k] = None
    BY <1>2, <1>10 DEF CallsOK
  <2>3. \A k \in LiveIn(a) : top[k] \in LiveIn(a)
    BY <1>1, <1>2, <1>11, <1>12 DEF CallsOK
  <2>4. ASSUME NEW k \in LiveIn(a), parent[k] # None
        PROVE  parent[k] \in LiveIn(a) /\ c[parent[k]] = k
    <3>1. /\ k \in LiveIn(at) /\ k # current /\ k # None
          /\ parent[k] \in LiveIn(at) /\ child[parent[k]] = k
      BY <1>2, <1>5, <1>11, <1>12, <2>4 DEF CallsOK
    <3>2. parent[k] # current /\ parent[k] # q
      BY <1>3, <1>5, <3>1
    <3> QED BY <1>10, <1>11, <1>12, <3>1, <3>2
  <2>5. ASSUME NEW n \in LiveIn(a), NEW k \in LiveIn(a), top[n] = top[k], n < k
        PROVE  c[n] # None /\ c[n] <= k
    <3>1. n \in LiveIn(at) /\ k \in LiveIn(at) /\ k # current /\ n \in Cos /\ k \in Cos
      BY <1>11, <1>12
    <3>2. child[n] # None /\ child[n] <= k
      BY <1>2, <2>5, <3>1 DEF CallsOK
    <3>3. n # q
      <4> SUFFICES ASSUME n = q
                   PROVE  FALSE
        OBVIOUS
      <4>1. current < k
        BY <1>3, <1>5, <3>1, <3>2 DEF Cos
      <4>2. top[current] = top[k]
        BY <1>5, <2>5
      <4> QED BY <1>2, <1>3, <3>1, <4>1, <4>2 DEF CallsOK
    <3> QED BY <1>10, <3>1, <3>2, <3>3
  <2> QED BY <1>2, <1>10, <2>1, <2>2, <2>3, <2>4, <2>5 DEF CallsOK
<1>15. ExitOK(exit, a, parent)
  BY <1>2, <1>9 DEF ExitOK
<1>16. SleepOK(a, top, tree, sleeper)
  <2>1. \A k \in LiveIn(at) : at[k] = "sleep" => k \in LiveIn(a) /\ a[k] = "sleep"
    BY <1>1, <1>6, <1>9, <1>11, <1>12
  <2>2. ASSUME NEW k \in Cos, sleeper[k] # None
        PROVE  k \in LiveIn(a)
    <3>1. k \in LiveIn(at) /\ sleeper[k] \in Cos /\ top[sleeper[k]] = k
      BY <1>2, <1>12, <2>2 DEF SleepOK
    <3>2. parent[k] = None
      BY <1>2, <3>1 DEF CallsOK
    <3> QED BY <1>1, <1>11, <3>1, <3>2
  <2> QED BY <1>2, <2>1, <2>2 DEF SleepOK
<1>17. EventsOK(a, parent, fd, watch, edge)
  BY <1>1, <1>2, <1>11 DEF EventsOK
<1>18. Contains(r, q) /\ q \in 0..MaxCo
  BY <1>5, <1>8, <1>9
<1>19. Consistent(ring', exit', at', parent', child', top', made', tree', sleeper', fd', watch', edge')
  BY <1>1, <1>7, <1>8, <1>13, <1>14, <1>15, <1>16, <1>17 DEF Consistent, eventVars
<1> QED BY <1>1, <1>7, <1>18, <1>19 DEF IInv, CountersOK, eventVars

-----------------------------------------------------------------------------
(* The main thread's loop, the peers and the clock.                        *)

LEMMA MainSchedulesKeeps ==
  ASSUME IInv, MainSchedules
  PROVE  IInv'
<1>1. /\ Len(ring) > 1 /\ current' = ring[2]
      /\ UNCHANGED <<ring, made, at, exit, callVars, when, tree, sleeper, eventVars,
                     room, polling, now, ops>>
  BY DEF MainSchedules
<1>2. ring \in Seq(0..MaxCo) /\ Len(ring) \in Nat /\ DOMAIN ring = 1..Len(ring)
  BY DEF IInv, Consistent, RingOf
<1>3. 2 \in 1..Len(ring)
  BY <1>1, <1>2
<1>4. ring[2] \in 0..MaxCo /\ Contains(ring, ring[2])
  BY <1>2, <1>3, ElementOfSeq DEF Contains
<1> QED BY <1>1, <1>4 DEF IInv, Consistent, CountersOK, callVars, eventVars

\* Coroutines of S that are not in the ring yet are put there, in any order.
LEMMA SleepersJoin ==
  ASSUME IInv, NEW S \in SUBSET LiveIn(at), NEW q \in SetToSeqs(Asleep(S))
  PROVE  /\ RingOf(ring \o q) /\ PlacesOK(ring \o q, at, child)
         /\ Contains(ring, 0) => Contains(ring \o q, 0)
<1>1. PICK T : T = Asleep(S)
  OBVIOUS
<1>2. /\ T \in SUBSET LiveIn(at) /\ T \subseteq Cos
      /\ \A n \in T : child[n] = None /\ ~Contains(ring, n)
  BY <1>1 DEF Asleep, Woken, LiveIn
<1>3. RingOf(ring) /\ q \in SetToSeqs(T)
  BY <1>1 DEF IInv, Consistent
<1>4. /\ RingOf(ring \o q)
      /\ \A k : Contains(ring, k) => Contains(ring \o q, k)
      /\ \A k : Contains(ring \o q, k) => Contains(ring, k) \/ k \in T
  BY <1>2, <1>3, Joined
<1>5. PlacesOK(ring \o q, at, child)
  BY <1>2, <1>4, MayJoin
<1> QED BY <1>4, <1>5

\* The main thread goes from one part of its loop to another.
LEMMA MainKeeps ==
  ASSUME IInv, NEW from, NEW to \in {"user", "poll", "wakeup", "end"}, Main(from, to),
         RingOf(ring'), PlacesOK(ring', at, child), Contains(ring, 0) => Contains(ring', 0),
         edge' \subseteq edge, polling' \in 0..MaxPolling
  PROVE  IInv'
<1>1. /\ current = 0 /\ at' = [at EXCEPT ![0] = to]
      /\ UNCHANGED <<current, made, exit, callVars, when, tree, sleeper, watch, data,
                     fd, room, now, ops>>
  BY DEF Main
<1>2. /\ CallsOK(at, parent, child, top, made) /\ ExitOK(exit, at, parent)
      /\ SleepOK(at, top, tree, sleeper) /\ EventsOK(at, parent, fd, watch, edge)
  BY DEF IInv, Consistent
<1>3. 0 \in 0..MaxCo /\ 0 \notin Cos /\ Cos \subseteq 0..MaxCo /\ to \in Places
  BY CoroutineAssumption DEF Cos, Places
<1>4. /\ at' \in [0..MaxCo -> Places] /\ at'[0] = to /\ \A k \in Cos : at'[k] = at[k]
  BY <1>1, <1>3 DEF PlacesOK
<1>5. LiveIn(at') = LiveIn(at) /\ \A k \in LiveIn(at) : at'[k] = at[k]
  BY <1>4 DEF LiveIn
<1>6. PlacesOK(ring', at', child)
  BY <1>4, <1>5 DEF PlacesOK
<1>7. CallsOK(at', parent, child, top, made)
  BY <1>2, <1>4, <1>5 DEF CallsOK
<1>8. ExitOK(exit, at', parent)
  BY <1>2, <1>4 DEF ExitOK
<1>9. SleepOK(at', top, tree, sleeper)
  BY <1>2, <1>5 DEF SleepOK
<1>10. EventsOK(at', parent, fd, watch, edge')
  BY <1>2, <1>5 DEF EventsOK
<1> QED BY <1>1, <1>6, <1>7, <1>8, <1>9, <1>10 DEF IInv, Consistent, CountersOK, callVars

LEMMA LoopsKeep ==
  ASSUME IInv, Loops
  PROVE  IInv'
<1>1. /\ RingOf(ring) /\ PlacesOK(ring, at, child) /\ SleepOK(at, top, tree, sleeper)
      /\ EventsOK(at, parent, fd, watch, edge) /\ polling \in 0..MaxPolling
      /\ MaxPolling \in Nat
  BY CoroutineAssumption DEF IInv, Consistent, CountersOK
<1>2. CASE MainSchedules
  BY <1>2, MainSchedulesKeeps
<1>3. CASE MainIdle
  <2>1. Main("user", "poll") /\ UNCHANGED <<ring, edge, polling>>
    BY <1>3 DEF MainIdle
  <2> QED BY <1>1, <2>1, MainKeeps
<1>4. CASE PollEvents
  <2> DEFINE S == {watch[f] : f \in edge}
  <2>1. Main("poll", "wakeup") /\ edge' = {} /\ polling' = MaxPolling
    BY <1>4 DEF PollEvents
  <2>2. PICK q \in SetToSeqs(Asleep(S)) : ring' = ring \o q
    BY <1>4 DEF PollEvents
  <2>3. S \in SUBSET LiveIn(at)
    <3> SUFFICES ASSUME NEW f \in edge
                 PROVE  watch[f] \in LiveIn(at)
      OBVIOUS
    <3>1. f \in Fds /\ watch[f] \in Cos /\ f # None
      BY <1>1, CoroutineAssumption DEF EventsOK
    <3>2. fd[watch[f]] = f
      BY <1>1, <3>1, CoroutineAssumption DEF EventsOK, Cos
    <3> QED BY <1>1, <3>1, <3>2 DEF EventsOK
  <2> HIDE DEF S
  <2>4. /\ RingOf(ring') /\ PlacesOK(ring', at, child)
        /\ Contains(ring, 0) => Contains(ring', 0)
    BY <2>2, <2>3, SleepersJoin
  <2>5. edge' \subseteq edge /\ polling' \in 0..MaxPolling
    BY <1>1, <2>1
  <2> QED BY <2>1, <2>4, <2>5, MainKeeps
<1>5. CASE PollNothing
  <2>1. /\ Main("poll", "wakeup") /\ UNCHANGED <<ring, edge>> /\ DoesNotWait
        /\ polling' = IF Watched = {} THEN polling
                      ELSE IF tree # {} THEN MaxPolling ELSE polling - 1
    BY <1>5 DEF PollNothing
  <2>2. Watched # {} /\ tree = {} => polling > 0
    BY <2>1 DEF DoesNotWait
  <2>3. polling' \in 0..MaxPolling
    <3>1. CASE Watched # {} /\ tree = {}
      BY <1>1, <2>1, <2>2, <3>1
    <3>2. CASE ~(Watched # {} /\ tree = {})
      BY <1>1, <2>1, <3>2
    <3> QED BY <3>1, <3>2
  <2> QED BY <1>1, <2>1, <2>3, MainKeeps
<1>6. CASE WakeSleepers
  <2>1. UNCHANGED <<edge, polling>>
    BY <1>6 DEF WakeSleepers
  <2>2. PICK q \in SetToSeqs(Asleep(Due)) : ring' = ring \o q
    BY <1>6 DEF WakeSleepers
  <2>3. Due \in SUBSET LiveIn(at)
    BY <1>1 DEF Due, SleepOK
  <2>4. /\ RingOf(ring') /\ PlacesOK(ring', at, child)
        /\ Contains(ring, 0) => Contains(ring', 0)
    BY <2>2, <2>3, SleepersJoin
  <2>5. PICK to \in {"user", "end"} : Main("wakeup", to)
    BY <1>6 DEF WakeSleepers
  <2>6. to \in {"user", "poll", "wakeup", "end"} /\ edge' \subseteq edge
        /\ polling' \in 0..MaxPolling
    BY <1>1, <2>1
  <2> QED BY <2>4, <2>5, <2>6, MainKeeps
<1> QED BY <1>2, <1>3, <1>4, <1>5, <1>6 DEF Loops

LEMMA OthersKeep ==
  ASSUME IInv, (\E f \in Fds : PeerSends(f) \/ PeerReads(f)) \/ Tick
  PROVE  IInv'
<1>1. EventsOK(at, parent, fd, watch, edge) /\ CountersOK
  BY DEF IInv, Consistent
<1>2. ASSUME Other, EventsOK(at, parent, fd, watch, edge'), when' = when,
             data' \subseteq Fds, room' \subseteq Fds, now' \in 0..MaxTime
      PROVE  IInv'
  BY <1>1, <1>2 DEF IInv, Consistent, CountersOK, Other, callVars
<1>3. ASSUME NEW f \in Fds, PeerSends(f)
      PROVE  IInv'
  <2>1. /\ Other /\ data' = data \cup {f} /\ edge' = edge \cup ({f} \cap Watched)
        /\ UNCHANGED <<room, now>>
    BY <1>3 DEF PeerSends
  <2>2. EventsOK(at, parent, fd, watch, edge')
    BY <1>1, <2>1 DEF EventsOK, Watched
  <2> QED BY <1>1, <1>2, <2>1, <2>2 DEF CountersOK, Other
<1>4. ASSUME NEW f \in Fds, PeerReads(f)
      PROVE  IInv'
  <2>1. Other /\ room' = room \cup {f} /\ UNCHANGED <<data, edge, now>>
    BY <1>4 DEF PeerReads
  <2> QED BY <1>1, <1>2, <2>1 DEF CountersOK, Other
<1>5. CASE Tick
  <2>1. Other /\ now < MaxTime /\ now' = now + 1 /\ UNCHANGED <<data, edge, room>>
    BY <1>5 DEF Tick
  <2>2. now' \in 0..MaxTime
    BY <1>1, <2>1, CoroutineAssumption DEF CountersOK
  <2> QED BY <1>1, <1>2, <2>1, <2>2 DEF CountersOK, Other
<1> QED BY <1>3, <1>4, <1>5

-----------------------------------------------------------------------------
(* The invariant.                                                          *)

LEMMA InitHolds == Init => IInv
<1> SUFFICES ASSUME Init
             PROVE  IInv
  OBVIOUS
<1>1. /\ ring = <<0>> /\ current = 0 /\ made = 0 /\ exit = {}
      /\ at = [n \in 0..MaxCo |-> IF n = 0 THEN "user" ELSE "unused"]
      /\ parent = [n \in Cos |-> None] /\ child = [n \in Cos |-> None]
      /\ top = [n \in Cos |-> n] /\ when = [n \in Cos |-> 0] /\ tree = {}
      /\ sleeper = [n \in Cos |-> None] /\ fd = [n \in Cos |-> None]
      /\ watch = [f \in Fds |-> None] /\ data = {} /\ room = Fds /\ edge = {}
      /\ polling = MaxPolling /\ now = 0 /\ ops = 0
  BY DEF Init
<1>2. /\ 0 \in 0..MaxCo /\ 0 \notin Cos /\ Cos \subseteq 0..MaxCo
      /\ \A n \in Cos : n \in Nat /\ n > 0 /\ n <= n
  BY CoroutineAssumption DEF Cos
<1>3. RingOf(ring)
  BY <1>1, <1>2 DEF RingOf
<1>4. \A k : Contains(ring, k) <=> k = 0
  BY <1>1 DEF Contains
<1>5. at[0] = "user" /\ \A n \in Cos : at[n] = "unused"
  BY <1>1, <1>2
<1>6. LiveIn(at) = {}
  BY <1>5 DEF LiveIn
<1>7. PlacesOK(ring, at, child)
  <2>1. at \in [0..MaxCo -> Places]
    BY <1>1 DEF Places
  <2> QED BY <1>2, <1>4, <1>5, <1>6, <2>1 DEF PlacesOK
<1>8. CallsOK(at, parent, child, top, made)
  BY <1>1, <1>2, <1>5, <1>6 DEF CallsOK
<1>9. ExitOK(exit, at, parent) /\ SleepOK(at, top, tree, sleeper)
  BY <1>1 DEF ExitOK, SleepOK
<1>10. EventsOK(at, parent, fd, watch, edge)
  BY <1>1 DEF EventsOK
<1>11. CountersOK
  BY <1>1, CoroutineAssumption DEF CountersOK
<1> QED BY <1>1, <1>2, <1>3, <1>4, <1>7, <1>8, <1>9, <1>10, <1>11 DEF IInv, Consistent

LEMMA StepKeeps ==
  ASSUME IInv, [Step]_vars
  PROVE  Reached'
<1> USE DEF Reached
<1>1. ASSUME NEW f \in Fds \cup {None}, Create(f)
      PROVE  IInv'
  BY <1>1, CreateKeeps
<1>2. ASSUME NEW n \in Cos, Wakeup(n) \/ Kill(n)
      PROVE  IInv'
  BY <1>2, WakeupKeeps, KillKeeps
<1>3. ASSUME NEW d \in Delays, Sleep(d)
      PROVE  IInv'
  BY <1>3, SleepKeeps
<1>4. CASE Yield \/ Wait \/ Call
  BY <1>4, YieldKeeps, WaitKeeps, CallKeeps, KilledCalls
<1>5. CASE Ends
  BY <1>5, FinishKeeps, ReturnKeeps DEF Ends
<1>6. CASE Resumes
  BY <1>6, StartKeeps, WaitReturnsKeeps, SleepReturnsKeeps, ReadKeeps, WriteKeeps DEF Resumes
<1>7. CASE Loops
  BY <1>7, LoopsKeep
<1>8. CASE (\E f \in Fds : PeerSends(f) \/ PeerReads(f)) \/ Tick
  BY <1>8, OthersKeep
<1>9. CASE UNCHANGED vars
  BY <1>9 DEF vars, IInv, Consistent, CountersOK, callVars, eventVars
<1> QED BY <1>1, <1>2, <1>3, <1>4, <1>5, <1>6, <1>7, <1>8, <1>9 DEF Step

LEMMA NextKeeps ==
  ASSUME Reached, [Next]_vars
  PROVE  Reached'
<1>1. CASE IInv
  BY <1>1, StepKeeps DEF Next
<1>2. CASE Lost /\ UNCHANGED vars
  <2>1. vars' = vars /\ CallerFreed /\ RingIsRunnable /\ NobodyIsFreedEarly
    BY <1>2 DEF Lost
  <2>2. Alive' = Alive /\ CallerFreed'
    BY <2>1 DEF vars, callVars, CallerFreed, Alive
  <2>3. RingIsRunnable'
    BY <2>1, <2>2 DEF vars, callVars, eventVars, RingIsRunnable, TypeOK
  <2>4. NobodyIsFreedEarly'
    BY <2>1, <2>2 DEF vars, callVars, eventVars, NobodyIsFreedEarly, NothingDangles, Watched
  <2> QED BY <2>2, <2>3, <2>4 DEF Reached, Lost
<1>3. CASE Lost /\ Next
  BY <1>3 DEF Lost, Next
<1> QED BY <1>1, <1>2, <1>3 DEF Reached

\* Between two steps of sched.c, call.c, event.c and syscall.c, whichever
\* coroutine runs and whoever was killed, the ring, the places, the chains of
\* calls, the exit flags, the timers and the event tree agree; or a killed
\* coroutine has just called and is freed (sched.c:200), all else being right.
THEOREM Invariance == Spec => []Reached
<1>1. Init => Reached
  BY InitHolds DEF Reached
<1>2. Reached /\ [Next]_vars => Reached'
  BY NextKeeps
<1> QED BY <1>1, <1>2, PTL DEF Spec

\* The run queue of sched.c: everyone has one node in it, whoever can go on is in
\* it, and a caller is not, whatever creations, calls, kills, sleeps and events
\* came before.
THEOREM QueueIsRight == Spec => []RingIsRunnable
<1>1. IInv => RingIsRunnable
  <2> SUFFICES ASSUME IInv
               PROVE  RingIsRunnable
    OBVIOUS
  <2>1. /\ RingOf(ring) /\ PlacesOK(ring, at, child) /\ CallsOK(at, parent, child, top, made)
        /\ ExitOK(exit, at, parent) /\ SleepOK(at, top, tree, sleeper)
        /\ EventsOK(at, parent, fd, watch, edge) /\ CountersOK
        /\ current \in 0..MaxCo /\ Contains(ring, current)
    BY DEF IInv, Consistent
  <2>2. TypeOK
    <3>1. exit \subseteq Cos
      BY <2>1 DEF ExitOK
    <3>2. /\ at \in [0..MaxCo -> Blocked \cup {"unused", "new", "user", "call", "dead", "poll",
                                               "wakeup", "end"}]
          /\ ring \in Seq(0..MaxCo)
      BY <2>1 DEF PlacesOK, Places, RingOf
    <3> QED BY <2>1, <3>1, <3>2 DEF TypeOK, CallsOK, SleepOK, EventsOK, CountersOK
  <2>3. ASSUME NEW n \in Alive
        PROVE  IF child[n] # None THEN at[n] = "call" /\ ~Contains(ring, n)
                                  ELSE Contains(ring, n) \/ at[n] \in Blocked
    BY <2>1, AliveIs DEF PlacesOK
  <2>4. ASSUME NEW i \in DOMAIN ring, ring[i] # 0
        PROVE  ring[i] \in Alive
    <3>1. ring[i] \in 0..MaxCo /\ Contains(ring, ring[i])
      <4>1. ring \in Seq(0..MaxCo) /\ i \in 1..Len(ring)
        BY <2>1 DEF RingOf
      <4> QED BY <2>4, <4>1, ElementOfSeq DEF Contains
    <3>2. ring[i] \in Cos
      BY <2>4, <3>1, CoroutineAssumption DEF Cos
    <3> QED BY <2>1, <3>1, <3>2, AliveIs DEF PlacesOK
  <2> QED BY <2>1, <2>2, <2>3, <2>4 DEF RingIsRunnable, RingOf
<1>2. Reached => RingIsRunnable
  BY <1>1 DEF Reached, Lost
<1> QED BY <1>2, Invariance, PTL

\* No timer or event names a coroutine whose memory is freed, although one can be
\* destroyed while it sleeps and while its descriptor is registered (syscall.c:22,
\* event.c:76).  call.c:21 finds its caller alive, unless the caller was killed
\* and then called.
THEOREM MemoryIsKept == Spec => []NobodyIsFreedEarly
<1>1. IInv => NobodyIsFreedEarly
  <2> SUFFICES ASSUME IInv
               PROVE  NobodyIsFreedEarly
    OBVIOUS
  <2>1. /\ CallsOK(at, parent, child, top, made) /\ SleepOK(at, top, tree, sleeper)
        /\ EventsOK(at, parent, fd, watch, edge)
    BY DEF IInv, Consistent
  <2>2. ASSUME NEW f \in Watched
        PROVE  watch[f] \in Alive /\ fd[watch[f]] = f
    <3>1. f \in Fds /\ watch[f] \in Cos /\ fd[watch[f]] = f /\ f # None
      BY <2>1, CoroutineAssumption DEF Watched, EventsOK
    <3> QED BY <2>1, <3>1, AliveIs DEF EventsOK
  <2>3. NothingDangles
    BY <2>1, <2>2, AliveIs DEF NothingDangles, SleepOK
  <2>4. \A n \in Alive : parent[n] # None => child[parent[n]] = n /\ parent[n] \in Alive
    BY <2>1, AliveIs DEF CallsOK
  <2> QED BY <2>3, <2>4 DEF NobodyIsFreedEarly
<1>2. Reached => NobodyIsFreedEarly
  BY <1>1 DEF Reached, Lost
<1> QED BY <1>2, Invariance, PTL
=============================================================================
