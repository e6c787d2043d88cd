---------------------------- MODULE AeLoopProofs ----------------------------
(***************************************************************************)
(* Proofs about AeLoop.tla, for any number of descriptors, functions,      *)
(* delays and time events: the tables of the loop and the kernel agree, no *)
(* callback is called for a descriptor that is closed, and time events are *)
(* neither lost nor freed twice.                                           *)
(*                                                                         *)
(* The invariant has three parts, about the file tables, the events under  *)
(* way and the list of time events.  An action of one part leaves the      *)
(* variables of the other two alone.                                       *)
(***************************************************************************)
EXTENDS AeLoop, FiniteSetTheorems, SequenceTheorems, TLAPS

-----------------------------------------------------------------------------
(* The file tables.                                                        *)

FilesTypeOK ==
  /\ mask \in [Fds -> SUBSET {"r", "w", "b"}]
  /\ proc \in [Fds -> [Kinds -> Procs]]
  /\ maxfd \in Fds /\ setsize \in 1..Cardinality(Fds)
  /\ poll \in [Fds -> (SUBSET Kinds) \cup {NoPoll}]
  /\ open \subseteq Fds

\* The listening socket is never given up: the search for maxfd finds one.
Listening == 0 \in open /\ mask[0] # {}

FilesInv == FilesTypeOK /\ EpollAgrees /\ MaxFdIsLargest /\ Listening

-----------------------------------------------------------------------------
(* The events under way.                                                   *)

LoopTypeOK ==
  /\ phase \in {"before", "poll", "fire", "timers"}
  /\ wait \in 0..MaxTime \cup {NoTimeout}
  /\ fired \in Seq([fd : Fds, mask : SUBSET Kinds])
  /\ stage \in {"first", "second", "last", "next"}
  /\ invert \in BOOLEAN /\ any \in BOOLEAN
  /\ callback \in {"none", "r", "w", "timer", "finalizer"}

\* What runs when: callbacks for files while there are fired events, those for
\* time events in the pass.
CallbacksInPhase ==
  /\ phase # "fire" => fired = << >>
  /\ callback \in Kinds => phase = "fire" /\ fired # << >>
  /\ callback \in {"timer", "finalizer"} => phase = "timers"

\* The table is not cut while events are under way.
FiredInside == \A i \in DOMAIN fired : fired[i].fd < setsize

LoopInv == LoopTypeOK /\ CallbacksInPhase /\ FiredInside

-----------------------------------------------------------------------------
(* The list of time events.                                                *)

TimersTypeOK ==
  /\ list \in Seq(Timers)
  /\ when \in [Timers -> 0..MaxTime] /\ live \in [Timers -> BOOLEAN]
  /\ te \in 0..MaxTimers /\ nextId \in 1..(MaxTimers + 1)
  /\ lastTime \in 0..MaxTime
  /\ now \in 0..MaxTime
  /\ finalized \in [Timers -> Nat]
  /\ owed \subseteq Timers
  /\ spent \in [Spent -> Nat]

\* No event is in the list twice, and an event that was created is in the list
\* or finalized.
Unfinalized ==
  /\ \A i, j \in DOMAIN list : list[i] = list[j] => i = j
  /\ \A t \in Timers :
       /\ t \in ToSet(list) => t < nextId
       /\ finalized[t] = IF t < nextId /\ t \notin ToSet(list) THEN 1 ELSE 0

\* The pass has arrived at an event of the list.
TeInList ==
  /\ te # 0 => te \in ToSet(list)
  /\ callback = "timer" => te # 0 /\ te \notin owed

\* What the pass owes is ahead of it, and due.
OwedAhead ==
  /\ phase # "timers" => owed = {}
  /\ \A t \in owed :
       /\ live[t] /\ when[t] <= now
       /\ te # 0
       /\ \E i, j \in DOMAIN list : i <= j /\ list[i] = te /\ list[j] = t

TimersInv == /\ TimersTypeOK /\ Unfinalized /\ TeInList /\ OwedAhead
             /\ WaitCoversTimers

IInv == FilesInv /\ LoopInv /\ TimersInv

-----------------------------------------------------------------------------
(* Least and largest elements.                                             *)

LEMMA LeastExists ==
  ASSUME NEW S \in SUBSET Nat, S # {}
  PROVE  \E m \in S : \A x \in S : m <= x
<1> DEFINE Less == {p \in Nat \X Nat : p[1] < p[2]}
<1>1. IsWellFoundedOn(Less, Nat)
  BY NatLessThanWellFounded DEF OpToRel
<1> HIDE DEF Less
<1>2. PICK m \in S : \A y \in S : <<y, m>> \notin Less
  BY <1>1, WFMin
<1>3. ASSUME NEW x \in S
      PROVE  m <= x
  <2>1. x \in Nat /\ m \in Nat
    OBVIOUS
  <2>2. x < m => <<x, m>> \in Less
    BY <2>1 DEF Less
  <2>3. ~(x < m)
    BY <1>2, <2>2
  <2> QED BY <2>1, <2>3
<1> QED BY <1>3

LEMMA MinProperties ==
  ASSUME NEW S \in SUBSET Nat, S # {}
  PROVE  Min(S) \in S /\ \A x \in S : Min(S) <= x
BY LeastExists DEF Min

LEMMA MaxProperties ==
  ASSUME NEW n \in Nat, NEW S \in SUBSET (0..n), S # {}
  PROVE  Max(S) \in S /\ \A x \in S : Max(S) >= x
<1> DEFINE D == {n - x : x \in S}
<1>1. D \in SUBSET Nat /\ D # {}
  <2>1. \A x \in S : n - x \in Nat
    OBVIOUS
  <2> QED BY <2>1
<1>2. PICK m \in D : \A d \in D : m <= d
  BY <1>1, LeastExists
<1>3. PICK y \in S : m = n - y
  OBVIOUS
<1>4. ASSUME NEW x \in S
      PROVE  y >= x
  <2>1. n - x \in D
    OBVIOUS
  <2>2. n - y <= n - x
    BY <1>2, <1>3, <2>1
  <2> QED BY <2>2
<1>5. \E z \in S : \A x \in S : z >= x
  BY <1>4
<1> QED BY <1>5 DEF Max

\* The largest element is known by what it is.
LEMMA MaxIs ==
  ASSUME NEW S \in SUBSET Nat, NEW m \in S, \A x \in S : m >= x
  PROVE  Max(S) = m
<1>1. \E z \in S : \A x \in S : z >= x
  OBVIOUS
<1>2. Max(S) \in S /\ \A x \in S : Max(S) >= x
  BY <1>1 DEF Max
<1>3. Max(S) \in Nat /\ m \in Nat /\ Max(S) >= m /\ m >= Max(S)
  BY <1>2
<1> QED BY <1>3

-----------------------------------------------------------------------------
(* The file tables, one operation at a time.                               *)

LEMMA FdsAre ==
  /\ Fds = 0..MaxFd /\ MaxFd \in Nat
  /\ Cardinality(Fds) = MaxFd + 1
BY AeAssumption, FS_Interval DEF Fds

WithEvents == {fd \in 0..(setsize - 1) : mask[fd] # {}}

LEMMA MaxFdMeans ==
  ASSUME FilesTypeOK, MaxFdIsLargest, Listening
  PROVE  /\ maxfd \in Fds /\ maxfd < setsize /\ mask[maxfd] # {}
         /\ \A fd \in Fds : fd < setsize /\ mask[fd] # {} => fd <= maxfd
<1>1. setsize - 1 \in Nat /\ WithEvents \in SUBSET (0..(setsize - 1)) /\ 0 \in WithEvents
  BY FdsAre DEF FilesTypeOK, WithEvents, Listening
<1>2. maxfd = Max(WithEvents)
  BY DEF MaxFdIsLargest, WithEvents
<1>3. maxfd \in WithEvents /\ \A x \in WithEvents : maxfd >= x
  BY <1>1, <1>2, MaxProperties
<1>4. \A fd \in Fds : fd < setsize /\ mask[fd] # {} => fd \in WithEvents
  BY FdsAre DEF FilesTypeOK, WithEvents
<1>5. maxfd \in Fds /\ maxfd < setsize /\ mask[maxfd] # {}
  BY <1>3 DEF WithEvents, FilesTypeOK, MaxFdIsLargest
<1> QED BY <1>3, <1>4, <1>5, FdsAre

\* The other way round, for any table mk of ss descriptors and any number mf.
LEMMA MaxFdFrom ==
  ASSUME NEW mk, NEW ss \in 1..(MaxFd + 1), NEW mf \in Fds,
         mf < ss, mk[mf] # {},
         \A fd \in Fds : fd < ss /\ mk[fd] # {} => fd <= mf
  PROVE  mf = Max({fd \in 0..(ss - 1) : mk[fd] # {}})
<1> DEFINE S == {fd \in 0..(ss - 1) : mk[fd] # {}}
<1>1. S \in SUBSET Nat /\ mf \in S /\ S \subseteq Fds
  BY FdsAre
<1>2. \A x \in S : mf >= x
  BY <1>1, FdsAre
<1> HIDE DEF S
<1>3. Max(S) = mf
  BY <1>1, <1>2, MaxIs
<1> QED BY <1>3 DEF S

LEMMA EpollEventsAre ==
  ASSUME NEW m \in SUBSET {"r", "w", "b"}
  PROVE  /\ EpollEvents(m) \in (SUBSET Kinds) \cup {NoPoll}
         /\ EpollEvents(m) = NoPoll <=> m = {}
<1>1. "none" \in NoPoll /\ "none" \notin m \cap Kinds
  BY DEF NoPoll, Kinds
<1>2. m \cap Kinds # NoPoll
  BY <1>1
<1>3. m # {} => m \cap Kinds \in SUBSET Kinds /\ EpollEvents(m) = m \cap Kinds
  BY DEF EpollEvents
<1>4. m = {} => EpollEvents(m) = NoPoll
  BY DEF EpollEvents
<1> QED BY <1>2, <1>3, <1>4

\* Registering events of an open descriptor inside the table.
LEMMA AddKeeps ==
  ASSUME FilesInv,
         NEW fd \in Fds, fd < setsize, fd \in open', open' \in {open, open \cup {fd}},
         NEW m \in SUBSET {"r", "w", "b"}, m # {}, NEW p \in Procs,
         AddEvent(fd, m, p), setsize' = setsize
  PROVE  FilesInv'
<1> DEFINE both == mask[fd] \cup m
<1>1. FilesTypeOK /\ Fds = 0..MaxFd /\ maxfd \in Int /\ setsize \in Int
  BY FdsAre DEF FilesInv, FilesTypeOK
<1>2. both \in SUBSET {"r", "w", "b"} /\ both # {}
  BY DEF FilesInv, FilesTypeOK
<1>3. /\ mask' \in [Fds -> SUBSET {"r", "w", "b"}]
      /\ \A f \in Fds : mask'[f] = IF f = fd THEN both ELSE mask[f]
  BY <1>2 DEF AddEvent, FilesInv, FilesTypeOK
<1>4. /\ poll' \in [Fds -> (SUBSET Kinds) \cup {NoPoll}]
      /\ \A f \in Fds : poll'[f] = IF f = fd THEN EpollEvents(both) ELSE poll[f]
  BY <1>2, EpollEventsAre DEF AddEvent, FilesInv, FilesTypeOK
<1>5. proc' \in [Fds -> [Kinds -> Procs]]
  <2>1. [k \in Kinds |-> IF k \in m THEN p ELSE proc[fd][k]] \in [Kinds -> Procs]
    BY DEF FilesInv, FilesTypeOK
  <2> QED BY <2>1 DEF AddEvent, FilesInv, FilesTypeOK
<1>6. maxfd' = IF fd > maxfd THEN fd ELSE maxfd
  BY DEF AddEvent
<1>7. FilesTypeOK'
  BY <1>3, <1>4, <1>5, <1>6 DEF FilesInv, FilesTypeOK
<1>8. EpollAgrees'
  <2> SUFFICES ASSUME NEW f \in Fds
               PROVE  /\ f < setsize => poll'[f] = EpollEvents(mask'[f])
                      /\ f >= setsize \/ f \notin open' => poll'[f] = NoPoll
    BY DEF EpollAgrees
  <2>1. f \in Int
    BY <1>1
  <2>3. /\ f < setsize => poll[f] = EpollEvents(mask[f])
        /\ f >= setsize \/ f \notin open => poll[f] = NoPoll
    BY DEF FilesInv, EpollAgrees
  <2>4. CASE f # fd
    <3>1. poll'[f] = poll[f] /\ mask'[f] = mask[f]
      BY <1>3, <1>4, <2>4
    <3> QED BY <2>3, <2>4, <3>1
  <2>5. CASE f = fd
    <3>1. poll'[f] = EpollEvents(both) /\ mask'[f] = both
      BY <1>3, <1>4, <2>5
    <3>2. f \in open' /\ ~(f >= setsize)
      BY <1>1, <2>1, <2>5
    <3> HIDE DEF both
    <3> QED BY <3>1, <3>2
  <2> QED BY <2>4, <2>5
<1>9. Listening'
  BY <1>2, <1>3, FdsAre DEF FilesInv, Listening
<1>10. MaxFdIsLargest'
  <2>1. /\ maxfd < setsize /\ mask[maxfd] # {} /\ maxfd \in Fds
        /\ \A f \in Fds : f < setsize /\ mask[f] # {} => f <= maxfd
    BY MaxFdMeans DEF FilesInv
  <2>2. maxfd' < setsize' /\ mask'[maxfd'] # {}
    BY <1>2, <1>3, <1>6, <2>1
  <2>3. \A f \in Fds : f < setsize' /\ mask'[f] # {} => f <= maxfd'
    BY <1>1, <1>3, <1>6, <2>1
  <2>4. maxfd' \in Fds /\ setsize' \in 1..(MaxFd + 1)
    BY <1>7, FdsAre DEF FilesTypeOK
  <2> QED BY <2>2, <2>3, <2>4, MaxFdFrom DEF MaxFdIsLargest
<1> QED BY <1>7, <1>8, <1>9, <1>10 DEF FilesInv

\* Removing events of a descriptor that has some, and perhaps closing it.
LEMMA RemoveKeeps ==
  ASSUME FilesInv,
         NEW fd \in Fds, fd # 0, fd < setsize, mask[fd] # {},
         NEW m \in SUBSET Kinds,
         \/ open' = open
         \/ open' = open \ {fd} /\ m = Kinds,
         RemoveEvent(fd, m), UNCHANGED <<proc, setsize>>
  PROVE  FilesInv'
<1> DEFINE left == mask[fd] \ Removed(m)
           others == {f \in 0..(setsize - 1) : f < fd /\ mask[f] # {}}
<1>1. FilesTypeOK /\ Fds = 0..MaxFd /\ maxfd \in Int /\ setsize \in Int /\ setsize <= MaxFd + 1
  BY FdsAre DEF FilesInv, FilesTypeOK
<1>2. left \in SUBSET {"r", "w", "b"} /\ (m = Kinds => left = {})
  BY DEF FilesInv, FilesTypeOK, Removed, Kinds
<1>3. /\ mask' \in [Fds -> SUBSET {"r", "w", "b"}]
      /\ \A f \in Fds : mask'[f] = IF f = fd THEN left ELSE mask[f]
  BY <1>2 DEF RemoveEvent, FilesInv, FilesTypeOK
<1>4. /\ poll' \in [Fds -> (SUBSET Kinds) \cup {NoPoll}]
      /\ \A f \in Fds : poll'[f] = IF f = fd THEN EpollEvents(left) ELSE poll[f]
  BY <1>2, EpollEventsAre DEF RemoveEvent, FilesInv, FilesTypeOK
<1>5. maxfd' = IF fd = maxfd /\ left = {} THEN Max(others) ELSE maxfd
  BY DEF RemoveEvent
<1>6. /\ setsize - 1 \in Nat /\ others \in SUBSET (0..(setsize - 1)) /\ 0 \in others
  BY <1>1 DEF FilesInv, FilesTypeOK, Listening
<1>7. Max(others) \in others /\ \A f \in others : Max(others) >= f
  BY <1>6, MaxProperties
<1>8. maxfd' \in Fds
  <2>1. /\ maxfd \in Fds
        /\ \A f \in 0..(setsize - 1) : f \in Fds
    BY <1>1, FdsAre DEF FilesTypeOK
  <2>2. \A f \in others : f \in Fds
    BY <2>1
  <2> HIDE DEF others, left
  <2> QED BY <1>5, <1>7, <2>1, <2>2
<1>9. FilesTypeOK'
  BY <1>3, <1>4, <1>8 DEF FilesInv, FilesTypeOK
<1>10. EpollAgrees'
  <2>1. m = Kinds => EpollEvents(left) = NoPoll
    BY <1>2, EpollEventsAre
  <2> SUFFICES ASSUME NEW f \in Fds
               PROVE  /\ f < setsize => poll'[f] = EpollEvents(mask'[f])
                      /\ f >= setsize \/ f \notin open' => poll'[f] = NoPoll
    BY DEF EpollAgrees
  <2>2. f \in Int /\ fd \in Int
    BY <1>1
  <2>3. /\ f < setsize => poll[f] = EpollEvents(mask[f])
        /\ f >= setsize \/ f \notin open => poll[f] = NoPoll
    BY DEF FilesInv, EpollAgrees
  <2>4. fd \in open
    <3>1. poll[fd] = EpollEvents(mask[fd]) /\ EpollEvents(mask[fd]) # NoPoll
      BY EpollEventsAre DEF FilesInv, EpollAgrees, FilesTypeOK
    <3> QED BY <3>1 DEF FilesInv, EpollAgrees
  <2>5. CASE f # fd
    <3>1. poll'[f] = poll[f] /\ mask'[f] = mask[f] /\ (f \in open <=> f \in open')
      BY <1>3, <1>4, <2>5
    <3> QED BY <2>3, <3>1
  <2>6. CASE f = fd
    <3>1. poll'[f] = EpollEvents(left) /\ mask'[f] = left
      BY <1>3, <1>4, <2>6
    <3>2. f \notin open' => m = Kinds
      BY <2>4, <2>6
    <3> HIDE DEF left
    <3> QED BY <1>1, <2>1, <2>2, <2>6, <3>1, <3>2
  <2> QED BY <2>5, <2>6
<1>11. Listening'
  BY <1>3, FdsAre DEF FilesInv, Listening
<1>12. MaxFdIsLargest'
  <2>0. maxfd' \in Fds /\ setsize' \in 1..(MaxFd + 1)
    BY <1>9, FdsAre DEF FilesTypeOK
  <2>1. /\ maxfd < setsize /\ mask[maxfd] # {} /\ maxfd \in Fds
        /\ \A f \in Fds : f < setsize /\ mask[f] # {} => f <= maxfd
    BY MaxFdMeans DEF FilesInv
  <2>2. CASE fd = maxfd /\ left = {}
    <3>1. \A f \in Fds : f < setsize /\ mask'[f] # {} => f \in others
      BY <1>1, <1>3, <2>1, <2>2
    <3>2. maxfd' = Max(others)
      BY <1>5, <2>2
    <3>3. maxfd' < setsize' /\ mask'[maxfd'] # {}
      <4>1. maxfd' \in 0..(setsize - 1) /\ maxfd' < fd /\ mask[maxfd'] # {}
        BY <1>7, <3>2
      <4>2. mask'[maxfd'] = mask[maxfd']
        BY <1>1, <1>3, <1>8, <4>1
      <4> QED BY <1>1, <4>1, <4>2
    <3> HIDE DEF others
    <3>4. \A f \in Fds : f < setsize' /\ mask'[f] # {} => f <= maxfd'
      BY <1>1, <1>7, <1>8, <3>1, <3>2
    <3> QED BY <2>0, <3>3, <3>4, MaxFdFrom DEF MaxFdIsLargest
  <2>3. CASE ~(fd = maxfd /\ left = {})
    <3>1. maxfd' = maxfd
      BY <1>5, <2>3
    <3>2. maxfd' < setsize' /\ mask'[maxfd'] # {}
      BY <1>3, <2>1, <2>3, <3>1
    <3>3. \A f \in Fds : f < setsize' /\ mask'[f] # {} => f <= maxfd'
      BY <1>3, <2>1, <3>1
    <3> QED BY <2>0, <3>2, <3>3, MaxFdFrom DEF MaxFdIsLargest
  <2> QED BY <2>2, <2>3
<1> QED BY <1>9, <1>10, <1>11, <1>12 DEF FilesInv

\* aeResizeSetSize keeps what is in use, and the rest of the new table is clean.
LEMMA ResizeKeeps ==
  ASSUME FilesInv,
         NEW n \in 1..Cardinality(Fds), maxfd < n,
         setsize' = n, mask' = Slots(n), UNCHANGED <<proc, maxfd, poll, open>>
  PROVE  FilesInv'
<1>1. FilesTypeOK /\ Fds = 0..MaxFd /\ maxfd \in Fds /\ setsize \in Int /\ n \in 1..(MaxFd + 1)
  BY FdsAre DEF FilesInv, FilesTypeOK
<1>2. /\ maxfd < setsize /\ mask[maxfd] # {}
      /\ \A f \in Fds : f < setsize /\ mask[f] # {} => f <= maxfd
  BY MaxFdMeans DEF FilesInv
<1>3. /\ mask' \in [Fds -> SUBSET {"r", "w", "b"}]
      /\ \A f \in Fds : mask'[f] = IF f >= n THEN {"r", "w", "b"}
                                   ELSE IF f > maxfd THEN {} ELSE mask[f]
  BY DEF Slots, FilesInv, FilesTypeOK
<1>4. FilesTypeOK'
  BY <1>1, <1>3 DEF FilesTypeOK
<1>5. EpollAgrees'
  <2> SUFFICES ASSUME NEW f \in Fds
               PROVE  /\ f < n => poll[f] = EpollEvents(mask'[f])
                      /\ f >= n \/ f \notin open => poll[f] = NoPoll
    BY DEF EpollAgrees
  <2>1. f \in Int /\ n \in Int /\ maxfd \in Int
    BY <1>1
  <2>2. /\ f < setsize => poll[f] = EpollEvents(mask[f])
        /\ f >= setsize \/ f \notin open => poll[f] = NoPoll
    BY DEF FilesInv, EpollAgrees
  <2>3. EpollEvents({}) = NoPoll
    BY DEF EpollEvents
  <2>4. CASE f > maxfd
    <3>1. f < setsize => mask[f] = {}
      BY <1>2, <2>1, <2>4
    <3>2. poll[f] = NoPoll
      <4>1. CASE f < setsize
        BY <2>2, <2>3, <3>1, <4>1
      <4>2. CASE f >= setsize
        BY <2>2, <4>2
      <4> QED BY <1>1, <2>1, <4>1, <4>2
    <3>3. f < n => mask'[f] = {}
      BY <1>3, <2>1, <2>4
    <3> QED BY <2>3, <3>2, <3>3
  <2>5. CASE f <= maxfd
    <3>1. mask'[f] = mask[f] /\ f < n /\ f < setsize
      BY <1>1, <1>2, <1>3, <2>1, <2>5
    <3> QED BY <2>1, <2>2, <3>1
  <2> QED BY <2>1, <2>4, <2>5
<1>6. mask'[maxfd] # {} /\ \A f \in Fds : f < n /\ mask'[f] # {} => f <= maxfd
  BY <1>1, <1>2, <1>3
<1>7. MaxFdIsLargest'
  BY <1>1, <1>6, MaxFdFrom DEF MaxFdIsLargest
<1>8. Listening'
  <2>1. 0 \in Fds /\ ~(0 >= n) /\ ~(0 > maxfd)
    BY <1>1, FdsAre
  <2>2. mask'[0] = mask[0]
    BY <1>3, <2>1
  <2> QED BY <2>2 DEF FilesInv, Listening
<1> QED BY <1>4, <1>5, <1>7, <1>8 DEF FilesInv

\* Every operation on file events keeps the three records of them equal.
LEMMA FileOperations ==
  ASSUME FilesInv, Operations, ~UNCHANGED fileVars
  PROVE  FilesInv' /\ FileOperation
<1>1. Fds = 0..MaxFd
  BY FdsAre
<1>2. ASSUME NEW fd \in Fds, NEW p \in Procs, NEW m \in Masks, CreateFileEvent(fd, m, p)
      PROVE  FilesInv' /\ FileOperation
  <2>1. m \in SUBSET {"r", "w", "b"} /\ m # {}
    BY AeAssumption
  <2> QED BY <1>2, <2>1, AddKeeps DEF CreateFileEvent
<1>3. ASSUME NEW p \in Procs, Accept(p)
      PROVE  FilesInv' /\ FileOperation
  <2> DEFINE fd == Min(Fds \ open)
  <2>1. fd \in Fds
    BY <1>1, <1>3, MinProperties DEF Accept
  <2>2. /\ fd < setsize /\ open' = open \cup {fd} /\ AddEvent(fd, {"r"}, p)
        /\ setsize' = setsize
    BY <1>3 DEF Accept
  <2>3. {"r"} \in SUBSET {"r", "w", "b"} /\ {"r"} # {} /\ fd \in open'
    BY <2>2
  <2> HIDE DEF fd
  <2> QED BY <1>3, <2>1, <2>2, <2>3, AddKeeps DEF Accept
<1>4. ASSUME NEW fd \in Fds, NEW m \in (SUBSET Kinds) \ {{}}, DeleteFileEvent(fd, m)
      PROVE  FilesInv' /\ FileOperation
  BY <1>4, RemoveKeeps DEF DeleteFileEvent
<1>5. ASSUME NEW fd \in Fds, CloseFd(fd)
      PROVE  FilesInv' /\ FileOperation
  <2>1. CASE fd < setsize /\ mask[fd] # {}
    <3>1. /\ fd # 0 /\ RemoveEvent(fd, Kinds) /\ open' = open \ {fd}
          /\ UNCHANGED <<proc, setsize>>
      BY <1>5, <2>1 DEF CloseFd
    <3>2. FilesInv'
      BY <2>1, <3>1, RemoveKeeps
    <3> QED BY <1>5, <3>2 DEF CloseFd
  <2>2. CASE ~(fd < setsize /\ mask[fd] # {})
    <3>1. /\ fd # 0 /\ open' = open \ {fd}
          /\ UNCHANGED <<mask, poll, maxfd, proc, setsize>>
      BY <1>5, <2>2 DEF CloseFd
    <3>2. poll[fd] = NoPoll
      <4>1. fd \in Int /\ setsize \in Int
        BY <1>1 DEF FilesInv, FilesTypeOK
      <4>2. EpollEvents({}) = NoPoll
        BY DEF EpollEvents
      <4> QED BY <2>2, <4>1, <4>2 DEF FilesInv, EpollAgrees
    <3>3. FilesTypeOK' /\ MaxFdIsLargest' /\ Listening'
      BY <3>1 DEF FilesInv, FilesTypeOK, MaxFdIsLargest, Listening
    <3>4. EpollAgrees'
      BY <3>1, <3>2 DEF FilesInv, EpollAgrees
    <3> QED BY <1>5, <3>3, <3>4 DEF CloseFd, FilesInv
  <2> QED BY <2>1, <2>2
<1>6. ASSUME NEW n \in 1..Cardinality(Fds), ResizeSetSize(n)
      PROVE  FilesInv' /\ FileOperation
  BY <1>6, ResizeKeeps DEF ResizeSetSize
<1>7. ASSUME NEW d \in Delays, CreateTimeEvent(d)
      PROVE  UNCHANGED fileVars
  BY <1>7 DEF CreateTimeEvent, TimeOperation
<1>8. ASSUME NEW t \in Timers, DeleteTimeEvent(t)
      PROVE  UNCHANGED fileVars
  BY <1>8 DEF DeleteTimeEvent, TimeOperation
<1> QED BY <1>2, <1>3, <1>4, <1>5, <1>6, <1>7, <1>8 DEF Operations

LEMMA FilesKept ==
  ASSUME FilesInv, UNCHANGED fileVars
  PROVE  FilesInv'
BY DEF fileVars, FilesInv, FilesTypeOK, EpollAgrees, MaxFdIsLargest, Listening

-----------------------------------------------------------------------------
(* The events under way.                                                   *)

\* What a callback may do changes neither the events under way nor where the
\* loop is; the table is resized before the poll only.
LEMMA OperationsLeave ==
  ASSUME Operations
  PROVE  /\ UNCHANGED <<fireVars, now, phase, callback, te, finalized>>
         /\ setsize' = setsize \/ phase = "before"
<1>1. ASSUME NEW fd \in Fds, NEW p \in Procs, NEW m \in Masks, CreateFileEvent(fd, m, p)
      PROVE  Operation /\ setsize' = setsize
  BY <1>1 DEF CreateFileEvent, FileOperation
<1>2. ASSUME NEW p \in Procs, Accept(p)
      PROVE  Operation /\ setsize' = setsize
  BY <1>2 DEF Accept, FileOperation
<1>3. ASSUME NEW fd \in Fds, CloseFd(fd)
      PROVE  Operation /\ setsize' = setsize
  BY <1>3 DEF CloseFd, FileOperation
<1>4. ASSUME NEW fd \in Fds, NEW m \in (SUBSET Kinds) \ {{}}, DeleteFileEvent(fd, m)
      PROVE  Operation /\ setsize' = setsize
  BY <1>4 DEF DeleteFileEvent, FileOperation
<1>5. ASSUME NEW n \in 1..Cardinality(Fds), ResizeSetSize(n)
      PROVE  Operation /\ phase = "before"
  BY <1>5 DEF ResizeSetSize, FileOperation
<1>6. ASSUME NEW d \in Delays, CreateTimeEvent(d)
      PROVE  Operation /\ setsize' = setsize
  BY <1>6 DEF CreateTimeEvent, TimeOperation, fileVars
<1>7. ASSUME NEW t \in Timers, DeleteTimeEvent(t)
      PROVE  Operation /\ setsize' = setsize
  BY <1>7 DEF DeleteTimeEvent, TimeOperation, fileVars
<1> QED BY <1>1, <1>2, <1>3, <1>4, <1>5, <1>6, <1>7 DEF Operations, Operation

\* epoll_wait reports descriptors inside the table only.
LEMMA ReportedInside ==
  ASSUME FilesInv, LoopInv, PollReturns
  PROVE  LoopInv'
<1>0. PICK q \in Orders : \E m \in [DOMAIN q -> SUBSET Kinds] :
         /\ \A i \in DOMAIN q : m[i] \in Reports(q[i])
         /\ StartFiring([i \in DOMAIN q |-> [fd |-> q[i], mask |-> m[i]]])
  BY DEF PollReturns
<1>1. PICK m \in [DOMAIN q -> SUBSET Kinds] :
         /\ \A i \in DOMAIN q : m[i] \in Reports(q[i])
         /\ StartFiring([i \in DOMAIN q |-> [fd |-> q[i], mask |-> m[i]]])
  BY <1>0
<1>2. PICK n \in 0..MaxFired : q \in [1..n -> Fds]
  BY DEF Orders
<1>3. n \in Nat /\ DOMAIN q = 1..n
  BY <1>2, AeAssumption
<1>4. \A i \in 1..n : [fd |-> q[i], mask |-> m[i]] \in [fd : Fds, mask : SUBSET Kinds]
  BY <1>2, <1>3
<1>5. fired' = [i \in 1..n |-> [fd |-> q[i], mask |-> m[i]]]
  BY <1>1, <1>3 DEF StartFiring
<1>6. fired' \in Seq([fd : Fds, mask : SUBSET Kinds])
  BY <1>3, <1>4, <1>5
<1>7. \A i \in 1..n : q[i] < setsize
  <2> SUFFICES ASSUME NEW i \in 1..n
               PROVE  q[i] < setsize
    OBVIOUS
  <2>1. poll[q[i]] # NoPoll
    BY <1>1, <1>3 DEF Reports
  <2>2. q[i] \in Fds /\ q[i] \in Int /\ setsize \in Int
    BY <1>2, FdsAre DEF FilesInv, FilesTypeOK
  <2> QED BY <2>1, <2>2 DEF FilesInv, EpollAgrees
<1>8. FiredInside'
  <2>1. setsize' = setsize
    BY <1>1 DEF StartFiring, fileVars
  <2>2. DOMAIN fired' = 1..n /\ \A i \in 1..n : fired'[i].fd = q[i]
    BY <1>5
  <2> QED BY <1>7, <2>1, <2>2 DEF FiredInside
<1>9. LoopTypeOK' /\ CallbacksInPhase'
  <2>1. /\ phase = "poll" /\ phase' = "fire" /\ wait' = 0
        /\ UNCHANGED <<stage, invert, any, callback>>
    BY <1>1 DEF StartFiring
  <2>2. callback = "none"
    BY <2>1 DEF LoopInv, LoopTypeOK, CallbacksInPhase, Kinds
  <2> QED BY <1>6, <2>1, <2>2, AeAssumption DEF LoopInv, LoopTypeOK, CallbacksInPhase, Kinds
<1> QED BY <1>8, <1>9 DEF LoopInv

\* The time until the nearest event is no more than the clock can show.
LEMMA WaitFits ==
  ASSUME TimersTypeOK, list # << >>
  PROVE  Nearest \in 0..MaxTime /\ \A t \in ToSet(list) : t \in Timers /\ Nearest <= when[t]
<1> DEFINE S == {when[t] : t \in ToSet(list)}
<1>1. ToSet(list) \in SUBSET Timers /\ ToSet(list) # {}
  <2>1. DOMAIN list = 1..Len(list) /\ Len(list) \in Nat \ {0}
    BY LenProperties, EmptySeq DEF TimersTypeOK
  <2>2. list[1] \in ToSet(list)
    BY <2>1 DEF ToSet
  <2>3. \A i \in 1..Len(list) : list[i] \in Timers
    BY ElementOfSeq DEF TimersTypeOK
  <2> QED BY <2>1, <2>2, <2>3 DEF ToSet
<1>2. S \in SUBSET (0..MaxTime) /\ S \in SUBSET Nat /\ S # {}
  BY <1>1, AeAssumption DEF TimersTypeOK
<1>3. Min(S) \in S /\ \A x \in S : Min(S) <= x
  BY <1>2, MinProperties
<1> QED BY <1>1, <1>2, <1>3 DEF Nearest

\* Every step keeps what is known of the events under way.
LEMMA LoopStep ==
  ASSUME IInv, [Next]_vars
  PROVE  LoopInv'
<1> USE DEF LoopInv, LoopTypeOK, CallbacksInPhase, FiredInside, Kinds, fireVars, fileVars
<1> HIDE DEF LoopInv
<1> USE DEF IInv
<1>1. CASE Operations
  BY <1>1, OperationsLeave DEF LoopInv
<1>2. CASE StartPoll
  <2>1. wait' \in 0..MaxTime \cup {NoTimeout}
    <3>1. now \in 0..MaxTime /\ MaxTime \in Nat /\ TimersTypeOK
      BY AeAssumption DEF TimersInv, TimersTypeOK
    <3>2. list # << >> => Nearest \in 0..MaxTime
      BY <3>1, WaitFits
    <3> QED BY <1>2, <3>1, <3>2 DEF StartPoll
  <2> QED BY <1>2, <2>1 DEF StartPoll, LoopInv
<1>3. CASE PollReturns
  BY <1>3, ReportedInside
<1>4. CASE PollTimesOut
  <2>1. /\ phase = "poll" /\ phase' = "fire" /\ wait' = 0 /\ fired' = << >>
        /\ UNCHANGED <<stage, invert, any, callback, setsize>>
    BY <1>4 DEF PollTimesOut, StartFiring
  <2>2. fired' \in Seq([fd : Fds, mask : SUBSET Kinds]) /\ DOMAIN fired' = {}
    BY <2>1
  <2> QED BY <2>1, <2>2, AeAssumption DEF LoopInv
<1>5. CASE FireReadable \/ FireWritable \/ FireReadableLast \/ FileCallbackReturns
  <2>1. /\ UNCHANGED <<fired, phase, wait, setsize>>
        /\ phase = "fire" /\ (callback' # "none" => fired # << >>)
    BY <1>5 DEF FireReadable, FireWritable, FireReadableLast, FireStep, FileCallbackReturns,
                LoopInv
  <2>2. stage' \in {"first", "second", "last", "next"} /\ callback' \in {"none", "r", "w"}
    BY <1>5 DEF FireReadable, FireWritable, FireReadableLast, FireStep, FileCallbackReturns,
                LoopInv
  <2>3. invert' \in BOOLEAN
    <3>1. CASE FireReadable
      BY <3>1 DEF FireReadable
    <3>2. CASE ~FireReadable
      BY <1>5, <3>2 DEF FireWritable, FireReadableLast, FileCallbackReturns, LoopInv
    <3> QED BY <3>1, <3>2
  <2>4. any' \in BOOLEAN
    <3>1. ASSUME NEW from, NEW kind, NEW condition, NEW to, FireStep(from, kind, condition, to)
          PROVE  any' \in BOOLEAN
      BY <3>1 DEF FireStep
    <3>2. CASE FileCallbackReturns
      BY <3>2 DEF FileCallbackReturns, LoopInv
    <3> QED BY <1>5, <3>1, <3>2 DEF FireReadable, FireWritable, FireReadableLast
  <2> QED BY <2>1, <2>2, <2>3, <2>4 DEF LoopInv
<1>6. CASE FireNext
  <2>1. /\ fired # << >> /\ fired' = Tail(fired) /\ phase = "fire" /\ callback = "none"
        /\ stage' = "first" /\ invert' = FALSE /\ any' = FALSE
        /\ UNCHANGED <<phase, wait, callback, setsize>>
    BY <1>6 DEF FireNext
  <2>2. fired \in Seq([fd : Fds, mask : SUBSET Kinds])
    BY DEF LoopInv
  <2>3. /\ fired' \in Seq([fd : Fds, mask : SUBSET Kinds])
        /\ DOMAIN fired' = 1..(Len(fired) - 1) /\ DOMAIN fired = 1..Len(fired)
        /\ Len(fired) \in Nat
        /\ \A i \in DOMAIN fired' : fired'[i] = fired[i + 1]
    BY <2>1, <2>2, HeadTailProperties, LenProperties
  <2>4. FiredInside'
    BY <2>1, <2>3 DEF LoopInv
  <2> QED BY <2>1, <2>3, <2>4 DEF LoopInv
<1>7. CASE Pass
  BY <1>7 DEF Pass, StartTimers, RemoveTimeEvent, FinalizerReturns, CallTimeEvent,
              SkipTimeEvent, TimerReturns, EndPass, InPass, LoopInv
<1>8. CASE Tick
  <2>1. wait' \in 0..MaxTime \cup {NoTimeout}
    BY <1>8, AeAssumption DEF Tick, LoopInv
  <2> QED BY <1>8, <2>1 DEF Tick, LoopInv
<1>9. CASE SetClockBack
  BY <1>9 DEF SetClockBack, LoopInv
<1>10. CASE UNCHANGED vars
  BY <1>10 DEF vars, LoopInv
<1> QED BY <1>1, <1>2, <1>3, <1>4, <1>5, <1>6, <1>7, <1>8, <1>9, <1>10 DEF Next, Fire

\* A callback is called for a descriptor the kernel watches for that kind of
\* event, in the same iteration, whatever earlier callbacks have done.
LEMMA CallbackStep ==
  ASSUME IInv, [Next]_vars, NEW kind \in Kinds, callback' = kind, callback # kind
  PROVE  Head(fired).fd \in open /\ kind \in poll[Head(fired).fd]
<1> USE DEF Kinds
<1>1. \/ FireReadable /\ kind = "r" /\ Wants("r")
      \/ FireWritable /\ kind = "w" /\ Wants("w")
      \/ FireReadableLast /\ kind = "r" /\ Wants("r")
  <2>1. CASE Operations
    BY <2>1, OperationsLeave
  <2>2. CASE Pass
    BY <2>2 DEF Pass, StartTimers, RemoveTimeEvent, FinalizerReturns, CallTimeEvent,
                SkipTimeEvent, TimerReturns, EndPass, fireVars
  <2>3. CASE StartPoll \/ PollReturns \/ PollTimesOut \/ Tick \/ SetClockBack
             \/ FireNext \/ FileCallbackReturns \/ UNCHANGED vars
    BY <2>3 DEF StartPoll, PollReturns, PollTimesOut, StartFiring, Tick, SetClockBack,
                FireNext, FileCallbackReturns, vars
  <2>4. CASE FireReadable
    BY <2>4 DEF FireReadable, FireStep
  <2>5. CASE FireWritable
    BY <2>5 DEF FireWritable, FireStep
  <2>6. CASE FireReadableLast
    BY <2>6 DEF FireReadableLast, FireStep
  <2> QED BY <2>1, <2>2, <2>3, <2>4, <2>5, <2>6 DEF Next, Fire
<1> DEFINE fd == Head(fired).fd
<1>2. fired # << >> /\ kind \in mask[fd]
  BY <1>1 DEF FireReadable, FireWritable, FireReadableLast, FireStep, Wants
<1>3. fd \in Fds /\ fd < setsize
  <2> DEFINE Entries == [fd : Fds, mask : SUBSET Kinds]
  <2>1. fired \in Seq(Entries)
    BY DEF IInv, LoopInv, LoopTypeOK
  <2> HIDE DEF Entries
  <2>2. Len(fired) \in Nat \ {0} /\ DOMAIN fired = 1..Len(fired)
    BY <1>2, <2>1, EmptySeq, LenProperties
  <2>3. 1 \in DOMAIN fired /\ fired[1] \in Entries
    BY <2>1, <2>2, ElementOfSeq
  <2>4. Head(fired) = fired[1]
    OBVIOUS
  <2> QED BY <2>3, <2>4 DEF Entries, IInv, LoopInv, FiredInside
<1> HIDE DEF fd
<1>4. mask[fd] \in SUBSET {"r", "w", "b"} /\ setsize \in Int /\ fd \in Int
  BY <1>3, FdsAre DEF IInv, FilesInv, FilesTypeOK
<1>5. poll[fd] = EpollEvents(mask[fd])
  BY <1>3 DEF IInv, FilesInv, EpollAgrees
<1>6. kind \in poll[fd]
  BY <1>2, <1>5 DEF EpollEvents
<1>7. poll[fd] # NoPoll
  BY <1>6 DEF NoPoll
<1>8. fd \in open
  BY <1>3, <1>7 DEF IInv, FilesInv, EpollAgrees
<1> QED BY <1>6, <1>8 DEF fd

-----------------------------------------------------------------------------
(* The list of time events.                                                *)

\* The list as a function.
LEMMA ListIs ==
  ASSUME TimersTypeOK
  PROVE  /\ DOMAIN list = 1..Len(list) /\ Len(list) \in Nat
         /\ \A i \in 1..Len(list) : list[i] \in Timers
         /\ \A t : t \in ToSet(list) <=> \E i \in 1..Len(list) : list[i] = t
         /\ Timers = 1..MaxTimers /\ MaxTimers \in Nat /\ 0 \notin Timers
<1>1. DOMAIN list = 1..Len(list) /\ Len(list) \in Nat
  BY LenProperties DEF TimersTypeOK
<1>2. \A i \in 1..Len(list) : list[i] \in Timers
  BY ElementOfSeq DEF TimersTypeOK
<1>3. \A t : t \in ToSet(list) <=> \E i \in 1..Len(list) : list[i] = t
  BY <1>1 DEF ToSet
<1>4. Timers = 1..MaxTimers /\ MaxTimers \in Nat /\ 0 \notin Timers
  BY AeAssumption DEF Timers
<1> QED BY <1>1, <1>2, <1>3, <1>4

\* te->next is the next one in the list, or none.
LEMMA AfterIs ==
  ASSUME TimersInv, te # 0
  PROVE  \E k \in 1..Len(list) :
           /\ list[k] = te /\ Position(te) = k
           /\ After(te) = IF k = Len(list) THEN 0 ELSE list[k + 1]
           /\ After(te) \in 0..MaxTimers
           /\ After(te) # te
<1>1. PICK k \in 1..Len(list) : list[k] = te
  BY ListIs DEF TimersInv, TeInList
<1>2. \A i \in 1..Len(list) : list[i] = te => i = k
  BY <1>1, ListIs DEF TimersInv, Unfinalized
<1>3. Position(te) = k
  BY <1>1, <1>2, ListIs DEF Position, TimersInv
<1>4. After(te) = IF k = Len(list) THEN 0 ELSE list[k + 1]
  BY <1>3 DEF After
<1>5. Len(list) \in Nat /\ \A i \in 1..Len(list) : list[i] \in 1..MaxTimers
  BY ListIs DEF TimersInv
<1>6. After(te) \in 0..MaxTimers
  BY <1>4, <1>5, AeAssumption
<1>7. After(te) # te
  <2>1. CASE k = Len(list)
    BY <1>4, <2>1
  <2>2. CASE k # Len(list)
    <3>1. k + 1 \in 1..Len(list) /\ k + 1 # k
      BY <1>5, <2>2
    <3> QED BY <1>2, <1>4, <2>2, <3>1
  <2> QED BY <2>1, <2>2
<1> QED BY <1>1, <1>3, <1>4, <1>6, <1>7

\* Whatever is owed and is not te itself comes after it.
LEMMA OwedAfter ==
  ASSUME TimersInv, te # 0, NEW t \in owed, t # te
  PROVE  /\ After(te) # 0
         /\ \E i, j \in 1..Len(list) : i <= j /\ list[i] = After(te) /\ list[j] = t
<1>1. PICK k \in 1..Len(list) :
         list[k] = te /\ After(te) = IF k = Len(list) THEN 0 ELSE list[k + 1]
  BY AfterIs
<1>2. PICK i \in 1..Len(list), j \in 1..Len(list) : i <= j /\ list[i] = te /\ list[j] = t
  BY ListIs DEF TimersInv, OwedAhead
<1>3. i = k
  BY <1>1, <1>2, ListIs DEF TimersInv, Unfinalized
<1>4. Len(list) \in Nat
  BY ListIs DEF TimersInv
<1>5. k + 1 \in 1..Len(list) /\ k + 1 <= j /\ k # Len(list)
  BY <1>1, <1>2, <1>3, <1>4
<1>6. list[k + 1] # 0
  BY <1>5, ListIs DEF TimersInv
<1> QED BY <1>1, <1>2, <1>5, <1>6

\* Steps that leave the time events alone.
LEMMA TimersKept ==
  ASSUME TimersInv, UNCHANGED <<timerVars, now, te, finalized, owed>>,
         spent' \in [Spent -> Nat],
         callback' = "timer" => callback = "timer",
         phase' # "timers" => owed = {},
         phase' = "poll" => phase = "poll" /\ wait' = wait
  PROVE  TimersInv'
<1>1. TimersTypeOK'
  BY DEF TimersInv, TimersTypeOK, timerVars
<1>2. Unfinalized'
  BY DEF TimersInv, Unfinalized, timerVars
<1>3. TeInList' /\ OwedAhead'
  BY DEF TimersInv, TeInList, OwedAhead, timerVars
<1>4. WaitCoversTimers'
  BY DEF TimersInv, WaitCoversTimers, timerVars
<1> QED BY <1>1, <1>2, <1>3, <1>4 DEF TimersInv

LEMMA SpendTypes ==
  ASSUME TimersTypeOK, NEW what \in Spent, Spend(what)
  PROVE  spent' \in [Spent -> Nat]
<1>1. spent' = [spent EXCEPT ![what] = @ + 1] /\ spent[what] + 1 \in Nat
  BY DEF Spend, TimersTypeOK
<1> QED BY <1>1 DEF TimersTypeOK

\* A new event goes to the head of the list, before what the pass has to do.
LEMMA CreateStep ==
  ASSUME IInv, NEW d \in Delays, CreateTimeEvent(d)
  PROVE  TimersInv'
<1> DEFINE n == Len(list)
<1>1. /\ nextId <= MaxTimers /\ now + d <= MaxTime
      /\ list' = <<nextId>> \o list /\ nextId' = nextId + 1
      /\ when' = [when EXCEPT ![nextId] = now + d]
      /\ live' = [live EXCEPT ![nextId] = TRUE]
      /\ UNCHANGED <<lastTime, owed, wait, now, phase, callback, te, finalized>>
  BY DEF CreateTimeEvent, TimeOperation, Operation, fireVars
<1>2. spent' \in [Spent -> Nat]
  BY SpendTypes DEF CreateTimeEvent, TimeOperation, IInv, TimersInv, Spent
<1>3. TimersTypeOK /\ nextId \in Timers /\ nextId \in Nat /\ n \in Nat /\ 0 \notin Timers
  BY <1>1, ListIs DEF IInv, TimersInv, TimersTypeOK
<1>4. now + d \in 0..MaxTime
  BY <1>1, AeAssumption DEF IInv, TimersInv, TimersTypeOK
<1>5. /\ list' \in Seq(Timers) /\ Len(list') = n + 1 /\ DOMAIN list' = 1..(n + 1)
      /\ \A i \in 1..(n + 1) : list'[i] = IF i = 1 THEN nextId ELSE list[i - 1]
  <2>1. <<nextId>> \in Seq(Timers) /\ Len(<<nextId>>) = 1 /\ <<nextId>>[1] = nextId
    BY <1>3
  <2>2. list \in Seq(Timers)
    BY <1>3 DEF TimersTypeOK
  <2>3. /\ list' \in Seq(Timers) /\ Len(list') = 1 + n
        /\ \A i \in 1..(1 + n) : list'[i] = IF i <= 1 THEN <<nextId>>[i] ELSE list[i - 1]
    BY <1>1, <2>1, <2>2, ConcatProperties
  <2>4. DOMAIN list' = 1..Len(list')
    BY <2>3, LenProperties
  <2> QED BY <1>3, <2>1, <2>3, <2>4
<1>6. TimersTypeOK'
  <2>1. nextId' \in 1..(MaxTimers + 1)
    BY <1>1, <1>3, AeAssumption
  <2> QED BY <1>1, <1>2, <1>3, <1>4, <1>5, <2>1 DEF TimersTypeOK
<1>7. /\ \A i \in 1..n : list[i] \in Timers /\ list[i] < nextId
      /\ \A t : t \in ToSet(list) <=> \E i \in 1..n : list[i] = t
  BY <1>3, ListIs DEF IInv, TimersInv, Unfinalized
<1>8. ToSet(list') = ToSet(list) \cup {nextId}
  <2>1. ToSet(list') \subseteq ToSet(list) \cup {nextId}
    BY <1>3, <1>5, <1>7 DEF ToSet
  <2>2. nextId \in ToSet(list')
    BY <1>3, <1>5 DEF ToSet
  <2>3. ASSUME NEW i \in 1..n
        PROVE  list[i] \in ToSet(list')
    <3>1. i + 1 \in 1..(n + 1) /\ i + 1 # 1 /\ (i + 1) - 1 = i
      BY <1>3
    <3>2. list'[i + 1] = list[i]
      BY <1>5, <3>1
    <3> QED BY <1>5, <3>1, <3>2 DEF ToSet
  <2> QED BY <1>7, <2>1, <2>2, <2>3
<1> HIDE DEF n
<1>9. Unfinalized'
  <2>1. \A i, j \in 1..(n + 1) : list'[i] = list'[j] => i = j
    <3> SUFFICES ASSUME NEW i \in 1..(n + 1), NEW j \in 1..(n + 1), list'[i] = list'[j]
                 PROVE  i = j
      OBVIOUS
    <3>1. i # 1 => i - 1 \in 1..n /\ list'[i] = list[i - 1] /\ list'[i] # nextId
      BY <1>3, <1>5, <1>7
    <3>2. j # 1 => j - 1 \in 1..n /\ list'[j] = list[j - 1] /\ list'[j] # nextId
      BY <1>3, <1>5, <1>7
    <3>3. list'[1] = nextId
      BY <1>3, <1>5
    <3>4. i # 1 /\ j # 1 => i - 1 = j - 1
      <4>1. \A k, l \in 1..n : list[k] = list[l] => k = l
        BY <1>3, ListIs DEF IInv, TimersInv, Unfinalized, n
      <4> QED BY <3>1, <3>2, <4>1
    <3> QED BY <1>3, <3>1, <3>2, <3>3, <3>4
  <2>2. \A t \in Timers : t \in Nat
    BY ListIs, <1>3
  <2>3. \A t \in Timers :
          /\ t \in ToSet(list) => t < nextId
          /\ finalized[t] = IF t < nextId /\ t \notin ToSet(list) THEN 1 ELSE 0
    BY DEF IInv, TimersInv, Unfinalized
  <2>4. \A t \in Timers :
          /\ t \in ToSet(list') => t < nextId'
          /\ finalized'[t] = IF t < nextId' /\ t \notin ToSet(list') THEN 1 ELSE 0
    BY <1>1, <1>3, <1>8, <2>2, <2>3
  <2> QED BY <1>5, <2>1, <2>4 DEF Unfinalized
<1>10. TeInList'
  BY <1>1, <1>8 DEF IInv, TimersInv, TeInList
<1>11. OwedAhead'
  <2> SUFFICES ASSUME NEW t \in owed
               PROVE  /\ live'[t] /\ when'[t] <= now
                      /\ te # 0
                      /\ \E i, j \in DOMAIN list' : i <= j /\ list'[i] = te /\ list'[j] = t
    BY <1>1 DEF IInv, TimersInv, OwedAhead
  <2>1. PICK i \in 1..n, j \in 1..n : i <= j /\ list[i] = te /\ list[j] = t
    BY <1>3, ListIs DEF IInv, TimersInv, OwedAhead, n
  <2>2. t # nextId /\ t \in Timers
    BY <1>3, <1>7, <2>1
  <2>3. live'[t] = live[t] /\ when'[t] = when[t]
    BY <1>1, <1>3, <2>2 DEF TimersTypeOK
  <2>4. /\ i + 1 \in 1..(n + 1) /\ j + 1 \in 1..(n + 1) /\ i + 1 <= j + 1
        /\ list'[i + 1] = te /\ list'[j + 1] = t
    BY <1>3, <1>5, <2>1
  <2> QED BY <1>5, <2>3, <2>4 DEF IInv, TimersInv, OwedAhead
<1>12. WaitCoversTimers'
  <2>1. phase # "poll"
    BY DEF CreateTimeEvent, TimeOperation, Operation, IInv, LoopInv, LoopTypeOK,
           CallbacksInPhase, Kinds
  <2> QED BY <1>1, <2>1 DEF WaitCoversTimers
<1> QED BY <1>6, <1>9, <1>10, <1>11, <1>12 DEF TimersInv

\* A deleted event stays in the list, and is owed no more.
LEMMA DeleteStep ==
  ASSUME IInv, NEW t \in Timers, DeleteTimeEvent(t)
  PROVE  TimersInv'
<1>1. /\ live' = [live EXCEPT ![t] = FALSE] /\ owed' = owed \ {t}
      /\ UNCHANGED <<list, when, nextId, lastTime, wait, now, phase, callback, te, finalized>>
  BY DEF DeleteTimeEvent, TimeOperation, Operation, fireVars
<1>2. spent' \in [Spent -> Nat]
  BY SpendTypes DEF DeleteTimeEvent, TimeOperation, IInv, TimersInv, Spent
<1>3. live' \in [Timers -> BOOLEAN] /\ \A u \in Timers : u # t => live'[u] = live[u]
  BY <1>1 DEF IInv, TimersInv, TimersTypeOK
<1>4. TimersTypeOK'
  BY <1>1, <1>2, <1>3 DEF IInv, TimersInv, TimersTypeOK
<1>5. Unfinalized' /\ TeInList'
  BY <1>1 DEF IInv, TimersInv, Unfinalized, TeInList
<1>6. OwedAhead'
  BY <1>1, <1>3 DEF IInv, TimersInv, TimersTypeOK, OwedAhead
<1>7. WaitCoversTimers'
  <2>1. phase # "poll"
    BY DEF DeleteTimeEvent, TimeOperation, Operation, IInv, LoopInv, LoopTypeOK,
           CallbacksInPhase, Kinds
  <2> QED BY <1>1, <2>1 DEF WaitCoversTimers
<1> QED BY <1>4, <1>5, <1>6, <1>7 DEF TimersInv

\* The wait is that until the nearest event: no live one is passed over.
LEMMA StartPollStep ==
  ASSUME IInv, StartPoll
  PROVE  TimersInv'
<1>1. UNCHANGED <<timerVars, now, te, finalized, owed, spent, callback>>
      /\ phase = "before" /\ phase' = "poll"
  BY DEF StartPoll
<1>2. owed = {}
  BY <1>1 DEF IInv, TimersInv, OwedAhead
<1>3. TimersTypeOK' /\ Unfinalized' /\ TeInList' /\ OwedAhead'
  BY <1>1, <1>2 DEF IInv, TimersInv, TimersTypeOK, Unfinalized, TeInList, OwedAhead, timerVars
<1>4. WaitCoversTimers'
  <2> SUFFICES ASSUME NEW t \in ToSet(list)
               PROVE  wait' # NoTimeout /\ wait' <= IF when[t] > now THEN when[t] - now ELSE 0
    BY <1>1 DEF WaitCoversTimers, timerVars
  <2>1. list # << >>
    BY DEF ToSet
  <2>2. Nearest \in 0..MaxTime /\ t \in Timers /\ Nearest <= when[t]
    BY <2>1, WaitFits DEF IInv, TimersInv
  <2>3. wait' = IF Nearest > now THEN Nearest - now ELSE 0
    BY <2>1 DEF StartPoll
  <2>4. now \in Nat /\ when[t] \in Nat /\ Nearest \in Nat
    BY <2>2, AeAssumption DEF IInv, TimersInv, TimersTypeOK
  <2> HIDE DEF Nearest
  <2> QED BY <2>2, <2>3, <2>4, AeAssumption
<1> QED BY <1>3, <1>4 DEF TimersInv

\* A pass begins: what is due is in the list, from its head on.
LEMMA StartTimersStep ==
  ASSUME IInv, StartTimers
  PROVE  TimersInv'
<1>1. /\ phase' = "timers" /\ phase = "fire" /\ fired = << >>
      /\ UNCHANGED <<now, list, live, nextId, callback, finalized, spent>>
      /\ te' = First(list) /\ lastTime' = now \div Second
  BY DEF StartTimers
<1> DEFINE skewed == now \div Second < lastTime
<1>2. /\ when' = [t \in Timers |-> IF skewed /\ t \in ToSet(list) THEN 0 ELSE when[t]]
      /\ owed' = {t \in ToSet(list) : live[t] /\ (skewed \/ when[t] <= now)}
  BY DEF StartTimers
<1> HIDE DEF skewed
<1>3. /\ TimersTypeOK /\ DOMAIN list = 1..Len(list) /\ Len(list) \in Nat
      /\ \A t \in ToSet(list) : t \in Timers
      /\ \A t : t \in ToSet(list) <=> \E i \in 1..Len(list) : list[i] = t
      /\ \A t \in Timers : t \in 1..MaxTimers
  BY ListIs DEF IInv, TimersInv
<1>4. now \in 0..MaxTime /\ MaxTime \in Nat
  BY <1>3, AeAssumption DEF TimersTypeOK
<1>5. list # << >> => te' = list[1] /\ 1 \in 1..Len(list) /\ te' \in ToSet(list)
  <2>1. list # << >> => Len(list) # 0
    BY <1>3, EmptySeq DEF TimersTypeOK
  <2>2. list # << >> => First(list) = list[1]
    BY DEF First
  <2> QED BY <1>1, <1>3, <2>1, <2>2
<1>6. list = << >> => te' = 0 /\ ToSet(list) = {}
  BY <1>1 DEF First, ToSet
<1>7. TimersTypeOK'
  <2>1. when' \in [Timers -> 0..MaxTime]
    BY <1>2, <1>3, <1>4 DEF TimersTypeOK
  <2>2. te' \in 0..MaxTimers
    BY <1>3, <1>5, <1>6, AeAssumption
  <2>3. now \div Second \in 0..MaxTime
    BY <1>4, AeAssumption
  <2>4. owed' \subseteq Timers
    BY <1>2, <1>3
  <2> QED BY <1>1, <1>3, <2>1, <2>2, <2>3, <2>4 DEF TimersTypeOK
<1>8. Unfinalized'
  BY <1>1 DEF IInv, TimersInv, Unfinalized
<1>9. TeInList'
  <2>1. callback # "timer"
    BY <1>1 DEF IInv, LoopInv, CallbacksInPhase
  <2> QED BY <1>1, <1>5, <1>6, <2>1 DEF TeInList
<1>10. OwedAhead'
  <2> SUFFICES ASSUME NEW t \in owed'
               PROVE  /\ live[t] /\ when'[t] <= now /\ te' # 0
                      /\ \E i, j \in 1..Len(list) : i <= j /\ list[i] = te' /\ list[j] = t
    BY <1>1, <1>3 DEF OwedAhead
  <2>1. t \in ToSet(list) /\ t \in Timers /\ live[t] /\ (skewed \/ when[t] <= now)
    BY <1>2, <1>3
  <2>2. when'[t] <= now
    BY <1>2, <1>4, <2>1
  <2>3. list # << >>
    BY <1>6, <2>1
  <2>4. te' # 0
    BY <1>3, <1>5, <2>3, AeAssumption
  <2>5. \E i, j \in 1..Len(list) : i <= j /\ list[i] = te' /\ list[j] = t
    BY <1>3, <1>5, <2>1, <2>3
  <2> QED BY <2>1, <2>2, <2>4, <2>5
<1>11. WaitCoversTimers'
  BY <1>1 DEF WaitCoversTimers
<1> QED BY <1>7, <1>8, <1>9, <1>10, <1>11 DEF TimersInv

\* A deleted event leaves the list, is finalized, and the pass goes on behind it.
LEMMA RemoveStep ==
  ASSUME IInv, RemoveTimeEvent
  PROVE  TimersInv'
<1> DEFINE n == Len(list)
<1>1. /\ phase = "timers" /\ te # 0 /\ ~live[te]
      /\ UNCHANGED <<now, when, live, nextId, lastTime, phase, owed, spent>>
      /\ list' = RemoveAt(list, Position(te)) /\ te' = After(te)
      /\ finalized' = [finalized EXCEPT ![te] = @ + 1]
      /\ callback' = "finalizer"
  BY DEF RemoveTimeEvent, InPass, Without
<1>2. /\ TimersTypeOK /\ n \in Nat
      /\ \A i \in 1..n : list[i] \in Timers
      /\ \A t : t \in ToSet(list) <=> \E i \in 1..n : list[i] = t
      /\ \A i, j \in 1..n : list[i] = list[j] => i = j
  BY ListIs DEF IInv, TimersInv, Unfinalized
<1>3. PICK k \in 1..n :
        /\ list[k] = te /\ Position(te) = k
        /\ After(te) = IF k = n THEN 0 ELSE list[k + 1]
        /\ After(te) \in 0..MaxTimers /\ After(te) # te
  BY <1>1, AfterIs DEF IInv
<1>4. /\ list' \in Seq(Timers) /\ Len(list') = n - 1
      /\ \A i \in 1..(n - 1) : list'[i] = IF i < k THEN list[i] ELSE list[i + 1]
  <2> DEFINE a == SubSeq(list, 1, k - 1)
             b == SubSeq(list, k + 1, n)
  <2>1. /\ a \in Seq(Timers) /\ Len(a) = k - 1
        /\ \A i \in 1..(k - 1) : a[i] = list[i]
    <3>1. 1 \in Int /\ k - 1 \in Int /\ \A i \in 1..(k - 1) : list[i] \in Timers
      BY <1>2
    <3>2. /\ a \in Seq(Timers) /\ Len(a) = IF 1 <= k - 1 THEN (k - 1) - 1 + 1 ELSE 0
          /\ \A i \in 1..((k - 1) - 1 + 1) : a[i] = list[1 + i - 1]
      BY <3>1, SubSeqProperties
    <3> QED BY <1>2, <3>2
  <2>2. /\ b \in Seq(Timers) /\ Len(b) = n - k
        /\ \A i \in 1..(n - k) : b[i] = list[k + i]
    <3>1. k + 1 \in Int /\ n \in Int /\ \A i \in (k + 1)..n : list[i] \in Timers
      BY <1>2
    <3>2. /\ b \in Seq(Timers) /\ Len(b) = IF k + 1 <= n THEN n - (k + 1) + 1 ELSE 0
          /\ \A i \in 1..(n - (k + 1) + 1) : b[i] = list[(k + 1) + i - 1]
      BY <3>1, SubSeqProperties
    <3> QED BY <1>2, <3>2
  <2>3. list' = a \o b
    BY <1>1, <1>3 DEF RemoveAt
  <2> HIDE DEF a, b
  <2>4. /\ a \o b \in Seq(Timers) /\ Len(a \o b) = Len(a) + Len(b)
        /\ \A i \in 1..(Len(a) + Len(b)) :
             (a \o b)[i] = IF i <= Len(a) THEN a[i] ELSE b[i - Len(a)]
    BY <2>1, <2>2, ConcatProperties
  <2>5. Len(a) + Len(b) = n - 1
    BY <1>2, <2>1, <2>2
  <2>6. ASSUME NEW i \in 1..(n - 1)
        PROVE  list'[i] = IF i < k THEN list[i] ELSE list[i + 1]
    <3>1. CASE i < k
      BY <1>2, <2>1, <2>3, <2>4, <2>5, <3>1
    <3>2. CASE i >= k
      <4>1. i - (k - 1) \in 1..(n - k) /\ k + (i - (k - 1)) = i + 1 /\ ~(i <= k - 1)
        BY <1>2, <3>2
      <4>2. list'[i] = b[i - (k - 1)]
        BY <2>1, <2>3, <2>4, <2>5, <4>1
      <4> QED BY <1>2, <2>2, <3>2, <4>1, <4>2
    <3> QED BY <1>2, <3>1, <3>2
  <2> QED BY <2>3, <2>4, <2>5, <2>6
<1>5. DOMAIN list' = 1..(n - 1)
  BY <1>4, LenProperties
<1> HIDE DEF n
\* where the entries went
<1>6. \A i \in 1..n : i # k =>
        \E j \in 1..(n - 1) : j = (IF i < k THEN i ELSE i - 1) /\ list'[j] = list[i]
  BY <1>2, <1>4
<1>7. \A i \in 1..(n - 1) :
        \E j \in 1..n : j = (IF i < k THEN i ELSE i + 1) /\ j # k /\ list'[i] = list[j]
  BY <1>2, <1>4
<1>8. ToSet(list') = ToSet(list) \ {te}
  <2>1. \A t : t \in ToSet(list') <=> \E i \in 1..(n - 1) : list'[i] = t
    BY <1>5 DEF ToSet
  <2>2. ASSUME NEW t \in ToSet(list')
        PROVE  t \in ToSet(list) /\ t # te
    BY <1>2, <1>3, <1>7, <2>1
  <2>3. ASSUME NEW t \in ToSet(list), t # te
        PROVE  t \in ToSet(list')
    BY <1>2, <1>3, <1>6, <2>1, <2>3
  <2> QED BY <2>2, <2>3
<1>9. te \in Timers /\ te \in ToSet(list)
  BY <1>2, <1>3
<1>10. TimersTypeOK'
  <2>1. finalized' \in [Timers -> Nat]
    BY <1>1, <1>2, <1>9 DEF TimersTypeOK
  <2>2. te' \in 0..MaxTimers
    BY <1>1, <1>3
  <2> QED BY <1>1, <1>2, <1>4, <2>1, <2>2 DEF TimersTypeOK
<1>11. Unfinalized'
  <2>1. \A i, j \in 1..(n - 1) : list'[i] = list'[j] => i = j
    <3> SUFFICES ASSUME NEW i \in 1..(n - 1), NEW j \in 1..(n - 1), list'[i] = list'[j]
                 PROVE  i = j
      OBVIOUS
    <3>1. PICK x \in 1..n : x = (IF i < k THEN i ELSE i + 1) /\ list'[i] = list[x]
      BY <1>7
    <3>2. PICK y \in 1..n : y = (IF j < k THEN j ELSE j + 1) /\ list'[j] = list[y]
      BY <1>7
    <3>3. x = y
      BY <1>2, <3>1, <3>2
    <3> QED BY <1>2, <3>1, <3>2, <3>3
  <2>2. \A t \in Timers : t # te => finalized'[t] = finalized[t]
    BY <1>1, <1>2 DEF TimersTypeOK
  <2>3. finalized'[te] = finalized[te] + 1
    BY <1>1, <1>2, <1>9 DEF TimersTypeOK
  <2>4. \A t \in Timers :
          /\ t \in ToSet(list) => t < nextId
          /\ finalized[t] = IF t < nextId /\ t \notin ToSet(list) THEN 1 ELSE 0
    BY DEF IInv, TimersInv, Unfinalized
  <2>5. \A t \in Timers :
          /\ t \in ToSet(list') => t < nextId
          /\ finalized'[t] = IF t < nextId /\ t \notin ToSet(list') THEN 1 ELSE 0
    BY <1>8, <1>9, <2>2, <2>3, <2>4
  <2> QED BY <1>1, <1>5, <2>1, <2>5 DEF Unfinalized
<1>12. TeInList'
  <2>1. te' # 0 => te' \in ToSet(list) /\ te' # te
    <3>1. te' # 0 => k # n /\ te' = list[k + 1]
      BY <1>1, <1>3
    <3>2. k # n => k + 1 \in 1..n
      BY <1>2
    <3> QED BY <1>1, <1>2, <1>3, <3>1, <3>2
  <2> QED BY <1>1, <1>8, <2>1 DEF TeInList
<1>13. OwedAhead'
  <2> SUFFICES ASSUME NEW t \in owed
               PROVE  /\ live[t] /\ when[t] <= now /\ te' # 0
                      /\ \E i, j \in 1..(n - 1) : i <= j /\ list'[i] = te' /\ list'[j] = t
    BY <1>1, <1>5 DEF OwedAhead
  <2>1. live[t] /\ when[t] <= now /\ t # te
    BY <1>1 DEF IInv, TimersInv, OwedAhead
  <2>2. te' # 0 /\ \E i, j \in 1..n : i <= j /\ list[i] = te' /\ list[j] = t
    BY <1>1, <2>1, OwedAfter DEF IInv, n
  <2>3. PICK i \in 1..n, j \in 1..n : i <= j /\ list[i] = te' /\ list[j] = t
    BY <2>2
  <2>4. i # k /\ j # k
    BY <1>1, <1>3, <2>1, <2>3
  <2>5. PICK x \in 1..(n - 1) : x = (IF i < k THEN i ELSE i - 1) /\ list'[x] = list[i]
    BY <1>6, <2>4
  <2>6. PICK y \in 1..(n - 1) : y = (IF j < k THEN j ELSE j - 1) /\ list'[y] = list[j]
    BY <1>6, <2>4
  <2>7. x <= y
    BY <1>2, <2>3, <2>4, <2>5, <2>6
  <2> QED BY <2>1, <2>2, <2>3, <2>5, <2>6, <2>7
<1>14. WaitCoversTimers'
  BY <1>1 DEF WaitCoversTimers
<1> QED BY <1>10, <1>11, <1>12, <1>13, <1>14 DEF TimersInv

\* The pass goes on to the next event when it owes nothing for this one.
LEMMA AdvanceStep ==
  ASSUME IInv, phase = "timers", te # 0, te \notin owed, te' = After(te),
         UNCHANGED <<list, now, nextId, lastTime, finalized, phase, owed, spent>>,
         callback' = "none",
         when' \in [Timers -> 0..MaxTime], live' \in [Timers -> BOOLEAN],
         \A t \in Timers : t # te => when'[t] = when[t] /\ live'[t] = live[t]
  PROVE  TimersInv'
<1>1. PICK k \in 1..Len(list) :
        /\ list[k] = te
        /\ After(te) = IF k = Len(list) THEN 0 ELSE list[k + 1]
        /\ After(te) \in 0..MaxTimers
  BY AfterIs DEF IInv
<1>2. /\ TimersTypeOK /\ Len(list) \in Nat /\ DOMAIN list = 1..Len(list)
      /\ \A t : t \in ToSet(list) <=> \E i \in 1..Len(list) : list[i] = t
  BY ListIs DEF IInv, TimersInv
<1>3. TimersTypeOK'
  BY <1>1, <1>2 DEF TimersTypeOK
<1>4. Unfinalized'
  BY DEF IInv, TimersInv, Unfinalized
<1>5. TeInList'
  <2>1. te' # 0 => te' \in ToSet(list)
    <3>1. CASE k = Len(list)
      BY <1>1, <3>1
    <3>2. CASE k # Len(list)
      <4>0. Len(list) \in Nat
        BY <1>2
      <4>1. k + 1 \in 1..Len(list)
        BY <3>2, <4>0
      <4>2. te' = list[k + 1]
        BY <1>1, <3>2
      <4> QED BY <1>2, <4>1, <4>2
    <3> QED BY <3>1, <3>2
  <2> QED BY <2>1 DEF TeInList
<1>6. OwedAhead'
  <2> SUFFICES ASSUME NEW t \in owed
               PROVE  /\ live'[t] /\ when'[t] <= now /\ te' # 0
                      /\ \E i, j \in 1..Len(list) : i <= j /\ list[i] = te' /\ list[j] = t
    BY <1>2 DEF OwedAhead
  <2>1. t # te /\ t \in Timers /\ live[t] /\ when[t] <= now
    BY <1>2 DEF IInv, TimersInv, OwedAhead, TimersTypeOK
  <2>2. te' # 0 /\ \E i, j \in 1..Len(list) : i <= j /\ list[i] = te' /\ list[j] = t
    BY <2>1, OwedAfter DEF IInv
  <2> QED BY <2>1, <2>2
<1>7. WaitCoversTimers'
  BY DEF WaitCoversTimers
<1> QED BY <1>3, <1>4, <1>5, <1>6, <1>7 DEF TimersInv

\* Every step of the pass keeps what is known of the time events.
LEMMA PassStep ==
  ASSUME IInv, Pass
  PROVE  TimersInv'
<1> USE DEF IInv
<1>1. CASE StartTimers
  BY <1>1, StartTimersStep
<1>2. CASE RemoveTimeEvent
  BY <1>2, RemoveStep
<1>3. CASE FinalizerReturns
  <2>1. spent' \in [Spent -> Nat]
    BY <1>3 DEF FinalizerReturns, TimersInv, TimersTypeOK
  <2>2. phase' # "timers" => owed = {}
    BY <1>3 DEF FinalizerReturns, TimersInv, OwedAhead
  <2> QED BY <1>3, <2>1, <2>2, TimersKept DEF FinalizerReturns, fireVars
<1>4. CASE CallTimeEvent
  <2>1. /\ phase = "timers" /\ te # 0 /\ owed' = owed \ {te}
        /\ UNCHANGED <<timerVars, now, phase, te, finalized, spent>>
    BY <1>4 DEF CallTimeEvent, InPass
  <2>2. TimersTypeOK' /\ Unfinalized' /\ TeInList' /\ WaitCoversTimers'
    BY <2>1 DEF TimersInv, TimersTypeOK, Unfinalized, TeInList, WaitCoversTimers, timerVars
  <2>3. OwedAhead'
    BY <2>1 DEF TimersInv, OwedAhead, timerVars
  <2> QED BY <2>2, <2>3 DEF TimersInv
<1>5. CASE SkipTimeEvent
  <2>1. te \notin owed
    <3>1. te \in owed => when[te] <= now
      BY DEF TimersInv, OwedAhead
    <3>2. te \in ToSet(list) /\ when[te] > now
      BY <1>5 DEF SkipTimeEvent, InPass, TimersInv, TeInList
    <3>3. te \in Timers
      BY <3>2, ListIs DEF TimersInv
    <3>4. when[te] \in Int /\ now \in Int
      BY <3>3, AeAssumption DEF TimersInv, TimersTypeOK
    <3> QED BY <3>1, <3>2, <3>4
  <2>2. when' \in [Timers -> 0..MaxTime] /\ live' \in [Timers -> BOOLEAN]
    BY <1>5 DEF SkipTimeEvent, timerVars, TimersInv, TimersTypeOK
  <2> QED BY <1>5, <2>1, <2>2, AdvanceStep DEF SkipTimeEvent, InPass, timerVars
<1>6. CASE TimerReturns
  <2>1. te # 0 /\ te \notin owed /\ phase = "timers" /\ te' = After(te) /\ callback' = "none"
    BY <1>6 DEF TimerReturns, TimersInv, TeInList, LoopInv, CallbacksInPhase
  <2>2. UNCHANGED <<list, now, nextId, lastTime, finalized, phase, owed, spent>>
    BY <1>6 DEF TimerReturns
  <2>3. /\ when' \in [Timers -> 0..MaxTime]
        /\ \A t \in Timers : t # te => when'[t] = when[t]
    <3>1. CASE UNCHANGED when
      BY <3>1 DEF TimersInv, TimersTypeOK
    <3>2. ASSUME NEW d \in Delays, now + d <= MaxTime, when' = [when EXCEPT ![te] = now + d]
          PROVE  /\ when' \in [Timers -> 0..MaxTime]
                 /\ \A t \in Timers : t # te => when'[t] = when[t]
      <4>1. now + d \in 0..MaxTime
        BY <3>2, AeAssumption DEF TimersInv, TimersTypeOK
      <4> QED BY <3>2, <4>1 DEF TimersInv, TimersTypeOK
    <3> QED BY <1>6, <3>1, <3>2 DEF TimerReturns
  <2>4. /\ live' \in [Timers -> BOOLEAN]
        /\ \A t \in Timers : t # te => live'[t] = live[t]
    BY <1>6 DEF TimerReturns, TimersInv, TimersTypeOK
  <2> QED BY <2>1, <2>2, <2>3, <2>4, AdvanceStep
<1>7. CASE EndPass
  <2>1. owed = {}
    BY <1>7 DEF EndPass, TimersInv, OwedAhead
  <2>2. spent' \in [Spent -> Nat]
    BY <1>7 DEF EndPass, TimersInv, TimersTypeOK
  <2> QED BY <1>7, <2>1, <2>2, TimersKept DEF EndPass, fireVars
<1> QED BY <1>1, <1>2, <1>3, <1>4, <1>5, <1>6, <1>7 DEF Pass

\* Time goes on: what was due stays due, and the wait gets shorter with it.
LEMMA TickStep ==
  ASSUME IInv, Tick
  PROVE  TimersInv'
<1>1. /\ now' = now + 1 /\ now < MaxTime
      /\ UNCHANGED <<timerVars, phase, callback, te, finalized, owed, spent>>
      /\ wait' = IF wait \in {0, NoTimeout} THEN wait ELSE wait - 1
  BY DEF Tick
<1>2. now \in Nat /\ MaxTime \in Nat /\ when \in [Timers -> 0..MaxTime] /\ owed \subseteq Timers
  BY AeAssumption DEF IInv, TimersInv, TimersTypeOK
<1>3. TimersTypeOK' /\ Unfinalized' /\ TeInList'
  BY <1>1, <1>2 DEF IInv, TimersInv, TimersTypeOK, Unfinalized, TeInList, timerVars
<1>4. OwedAhead'
  <2>1. \A t \in owed : when[t] <= now + 1
    <3> SUFFICES ASSUME NEW t \in owed
                 PROVE  when[t] <= now + 1
      OBVIOUS
    <3>1. when[t] <= now /\ when[t] \in Int
      BY <1>2 DEF IInv, TimersInv, OwedAhead
    <3> QED BY <1>2, <3>1
  <2> QED BY <1>1, <2>1 DEF IInv, TimersInv, OwedAhead, timerVars
<1>5. WaitCoversTimers'
  <2> SUFFICES ASSUME phase = "poll", NEW t \in ToSet(list)
               PROVE  /\ wait' # NoTimeout
                      /\ live[t] => wait' <= IF when[t] > now + 1 THEN when[t] - (now + 1) ELSE 0
    BY <1>1 DEF WaitCoversTimers, timerVars
  <2>1. /\ wait # NoTimeout
        /\ live[t] => wait <= IF when[t] > now THEN when[t] - now ELSE 0
    BY DEF IInv, TimersInv, WaitCoversTimers
  <2>2. wait \in Nat /\ NoTimeout \notin Nat
    BY <2>1, AeAssumption DEF IInv, LoopInv, LoopTypeOK
  <2>3. t \in Timers /\ when[t] \in Nat
    BY <1>2, ListIs DEF IInv, TimersInv
  <2>4. wait' = IF wait = 0 THEN 0 ELSE wait - 1
    BY <1>1, <2>1
  <2> QED BY <1>2, <2>1, <2>2, <2>3, <2>4
<1> QED BY <1>3, <1>4, <1>5 DEF TimersInv

\* The clock is set back: the wait is still short enough.
LEMMA SetBackStep ==
  ASSUME IInv, SetClockBack
  PROVE  TimersInv'
<1>1. PICK n \in 0..(now - 1) : now' = n
  BY DEF SetClockBack
<1>2. /\ now > 0 /\ owed' = {}
      /\ UNCHANGED <<timerVars, wait, phase, callback, te, finalized>>
  BY DEF SetClockBack, fireVars
<1>3. now \in 0..MaxTime /\ MaxTime \in Nat /\ when \in [Timers -> 0..MaxTime]
  BY AeAssumption DEF IInv, TimersInv, TimersTypeOK
<1>4. spent' \in [Spent -> Nat]
  BY SpendTypes DEF SetClockBack, IInv, TimersInv, Spent
<1>5. n \in 0..MaxTime /\ n < now
  BY <1>1, <1>3
<1>6. TimersTypeOK' /\ Unfinalized' /\ TeInList' /\ OwedAhead'
  BY <1>1, <1>2, <1>4, <1>5 DEF IInv, TimersInv, TimersTypeOK, Unfinalized, TeInList, OwedAhead,
                                timerVars
<1>7. WaitCoversTimers'
  <2> SUFFICES ASSUME phase = "poll", NEW t \in ToSet(list)
               PROVE  /\ wait # NoTimeout
                      /\ live[t] => wait <= IF when[t] > n THEN when[t] - n ELSE 0
    BY <1>1, <1>2 DEF WaitCoversTimers, timerVars
  <2>1. /\ wait # NoTimeout
        /\ live[t] => wait <= IF when[t] > now THEN when[t] - now ELSE 0
    BY DEF IInv, TimersInv, WaitCoversTimers
  <2>2. wait \in Nat
    BY <2>1, AeAssumption DEF IInv, LoopInv, LoopTypeOK
  <2>3. t \in Timers /\ when[t] \in Nat
    BY <1>3, ListIs DEF IInv, TimersInv
  <2> QED BY <1>3, <1>5, <2>1, <2>2, <2>3
<1> QED BY <1>6, <1>7 DEF TimersInv

-----------------------------------------------------------------------------
LEMMA TypesAreTyped == FilesTypeOK /\ LoopTypeOK /\ TimersTypeOK <=> TypeOK
BY DEF FilesTypeOK, LoopTypeOK, TimersTypeOK, TypeOK

LEMMA InitInv == Init => IInv
<1> SUFFICES ASSUME Init
             PROVE  IInv
  OBVIOUS
<1> USE AeAssumption
<1>1. FilesInv
  <2>1. PICK n \in Fds : open = 0..n
    BY DEF Init
  <2>2. /\ Fds = 0..MaxFd /\ Cardinality(Fds) = MaxFd + 1 /\ n \in 0..MaxFd
        /\ open \in SUBSET Nat /\ n \in open /\ \A x \in open : n >= x
    BY <2>1, FdsAre
  <2>3. maxfd = n /\ setsize = MaxFd + 1
    BY <2>2, MaxIs DEF Init
  <2>4. /\ mask = [fd \in Fds |-> IF fd \in open THEN {"r"} ELSE {}]
        /\ poll = [fd \in Fds |-> IF fd \in open THEN {"r"} ELSE NoPoll]
        /\ proc = [fd \in Fds |-> [k \in Kinds |-> CHOOSE p \in Procs : TRUE]]
    BY DEF Init
  <2>5. FilesTypeOK
    <3>1. mask \in [Fds -> SUBSET {"r", "w", "b"}]
      BY <2>4
    <3>2. poll \in [Fds -> (SUBSET Kinds) \cup {NoPoll}]
      BY <2>4 DEF Kinds
    <3>3. (CHOOSE p \in Procs : TRUE) \in Procs
      OBVIOUS
    <3>4. proc \in [Fds -> [Kinds -> Procs]]
      BY <2>4, <3>3
    <3> QED BY <2>1, <2>2, <2>3, <3>1, <3>2, <3>4 DEF FilesTypeOK
  <2>6. EpollAgrees
    <3> SUFFICES ASSUME NEW fd \in Fds
                 PROVE  /\ fd < setsize => poll[fd] = EpollEvents(mask[fd])
                        /\ fd >= setsize \/ fd \notin open => poll[fd] = NoPoll
      BY DEF EpollAgrees
    <3>1. EpollEvents({"r"}) = {"r"} /\ EpollEvents({}) = NoPoll
      BY DEF EpollEvents, Kinds
    <3>2. ~(fd >= setsize)
      BY <2>2, <2>3
    <3> QED BY <2>4, <3>1, <3>2
  <2>7. MaxFdIsLargest
    <3>1. \A fd \in Fds : mask[fd] # {} <=> fd <= n
      BY <2>1, <2>2, <2>4
    <3>2. n \in Fds /\ setsize \in 1..(MaxFd + 1) /\ n < setsize /\ mask[n] # {}
      BY <2>2, <2>3, <3>1
    <3>3. n = Max({fd \in 0..(setsize - 1) : mask[fd] # {}})
      BY <3>1, <3>2, MaxFdFrom
    <3> QED BY <2>3, <3>2, <3>3 DEF MaxFdIsLargest
  <2>8. Listening
    BY <2>1, <2>2, <2>4 DEF Listening
  <2> QED BY <2>5, <2>6, <2>7, <2>8 DEF FilesInv
<1>2. LoopInv
  <2>1. /\ phase = "before" /\ callback = "none" /\ wait = 0 /\ fired = << >>
        /\ stage = "first" /\ invert = FALSE /\ any = FALSE
    BY DEF Init
  <2>2. fired \in Seq([fd : Fds, mask : SUBSET Kinds]) /\ DOMAIN fired = {}
    BY <2>1
  <2>3. wait \in 0..MaxTime \cup {NoTimeout}
    <3>1. MaxTime \in Nat
      BY DEF AeAssumption
    <3>2. 0 \in 0..MaxTime
      BY <3>1
    <3> QED BY <2>1, <3>2
  <2>4. LoopTypeOK
    BY <2>1, <2>2, <2>3 DEF LoopTypeOK
  <2>5. CallbacksInPhase /\ FiredInside
    BY <2>1, <2>2 DEF CallbacksInPhase, FiredInside, Kinds
  <2> QED BY <2>4, <2>5 DEF LoopInv
<1>3. TimersInv
  <2>1. /\ list = <<1>> /\ nextId = 2 /\ te = 0 /\ lastTime = 0 /\ now = 0 /\ owed = {}
        /\ finalized = [t \in Timers |-> 0] /\ phase = "before" /\ callback = "none"
        /\ live = [t \in Timers |-> t = 1]
        /\ when = [t \in Timers |-> IF t = 1 THEN 1 ELSE 0]
        /\ spent = [k \in Spent |-> 0]
    BY DEF Init
  <2>2. 1 \in Timers /\ DOMAIN list = {1} /\ ToSet(list) = {1} /\ list \in Seq(Timers)
    BY <2>1 DEF Timers, ToSet
  <2>3. TimersTypeOK
    <3>1. when \in [Timers -> 0..MaxTime]
      BY <2>1
    <3>2. live \in [Timers -> BOOLEAN] /\ finalized \in [Timers -> Nat] /\ spent \in [Spent -> Nat]
      BY <2>1
    <3> QED BY <2>1, <2>2, <3>1, <3>2 DEF TimersTypeOK
  <2>4. Unfinalized
    BY <2>1, <2>2 DEF Unfinalized, Timers
  <2>5. TeInList /\ OwedAhead /\ WaitCoversTimers
    BY <2>1 DEF TeInList, OwedAhead, WaitCoversTimers
  <2> QED BY <2>3, <2>4, <2>5 DEF TimersInv
<1> QED BY <1>1, <1>2, <1>3 DEF IInv

LEMMA NextInv == IInv /\ [Next]_vars => IInv'
<1> SUFFICES ASSUME IInv, [Next]_vars
             PROVE  IInv'
  OBVIOUS
<1>1. LoopInv'
  BY LoopStep
<1>2. FilesInv'
  <2>1. CASE UNCHANGED fileVars
    BY <2>1, FilesKept DEF IInv
  <2>2. CASE ~UNCHANGED fileVars
    <3>1. Operations
      BY <2>2 DEF Next, Fire, Pass, StartPoll, PollReturns, PollTimesOut, StartFiring,
                  FireReadable, FireWritable, FireReadableLast, FireStep, FireNext,
                  FileCallbackReturns, StartTimers, RemoveTimeEvent, FinalizerReturns,
                  CallTimeEvent, SkipTimeEvent, TimerReturns, EndPass, Tick, SetClockBack, vars
    <3> QED BY <2>2, <3>1, FileOperations DEF IInv
  <2> QED BY <2>1, <2>2
<1>3. TimersInv'
  <2>1. TimersInv /\ spent \in [Spent -> Nat] /\ (phase # "timers" => owed = {})
    BY DEF IInv, TimersInv, TimersTypeOK, OwedAhead
  <2>2. CASE Operations
    <3>1. CASE UNCHANGED fileVars
      <4>1. CASE \E d \in Delays : CreateTimeEvent(d)
        BY <4>1, CreateStep
      <4>2. CASE \E t \in Timers : DeleteTimeEvent(t)
        BY <4>2, DeleteStep
      <4>3. CASE FileOperation
        <5>1. spent' \in [Spent -> Nat]
          BY <2>1, <4>3, SpendTypes DEF FileOperation, TimersInv, Spent
        <5> QED BY <2>1, <4>3, <5>1, TimersKept DEF FileOperation, Operation, fireVars
      <4> QED BY <2>2, <4>1, <4>2, <4>3 DEF Operations, CreateFileEvent, Accept, CloseFd,
                                            DeleteFileEvent, ResizeSetSize
    <3>2. CASE ~UNCHANGED fileVars
      <4>1. FileOperation
        BY <2>2, <3>2, FileOperations DEF IInv
      <4>2. spent' \in [Spent -> Nat]
        BY <2>1, <4>1, SpendTypes DEF FileOperation, TimersInv, Spent
      <4> QED BY <2>1, <4>1, <4>2, TimersKept DEF FileOperation, Operation, fireVars
    <3> QED BY <3>1, <3>2
  <2>3. CASE StartPoll
    BY <2>3, StartPollStep
  <2>4. CASE PollReturns \/ PollTimesOut
    BY <2>1, <2>4, TimersKept DEF PollReturns, PollTimesOut, StartFiring
  <2>5. CASE Fire
    <3>1. /\ UNCHANGED <<timerVars, now, te, finalized, owed, spent, phase>>
          /\ callback' # "timer"
      BY <2>5 DEF Fire, FireReadable, FireWritable, FireReadableLast, FireStep, FireNext,
                  FileCallbackReturns
    <3>2. phase = "fire"
      BY <2>5 DEF Fire, FireReadable, FireWritable, FireReadableLast, FireStep, FireNext,
                  FileCallbackReturns, IInv, LoopInv, CallbacksInPhase
    <3> QED BY <2>1, <3>1, <3>2, TimersKept
  <2>6. CASE Pass
    BY <2>6, PassStep
  <2>7. CASE Tick
    BY <2>7, TickStep
  <2>8. CASE SetClockBack
    BY <2>8, SetBackStep
  <2>9. CASE UNCHANGED vars
    BY <2>1, <2>9, TimersKept DEF vars, fireVars
  <2> QED BY <2>2, <2>3, <2>4, <2>5, <2>6, <2>7, <2>8, <2>9 DEF Next
<1> QED BY <1>1, <1>2, <1>3 DEF IInv

\* Every reachable state of the event loop satisfies the invariant.
THEOREM Invariance == Spec => []IInv
<1>1. Init => IInv
  BY InitInv
<1>2. IInv /\ [Next]_vars => IInv'
  BY NextInv
<1> QED BY <1>1, <1>2, PTL DEF Spec

\* The loop's tables, maxfd and the kernel's interest list always record the same
\* registrations, whatever callbacks register, remove, close and accept.
THEOREM TablesAlwaysAgree == Spec => []TablesAgree
<1>1. IInv => TablesAgree
  BY TypesAreTyped DEF IInv, FilesInv, LoopInv, TimersInv, TablesAgree
<1> QED BY <1>1, Invariance, PTL

\* No callback is called for a descriptor that is closed or for an event that was
\* removed in the same iteration.
THEOREM CallbacksAreForOpenFiles == Spec => NoDeadCallback
<1>1. IInv /\ [Next]_vars =>
        [\A kind \in Kinds : (callback' = kind /\ callback # kind) =>
           Head(fired).fd \in open /\ kind \in poll[Head(fired).fd]]_vars
  BY CallbackStep
<1> QED BY <1>1, Invariance, PTL DEF Spec, NoDeadCallback

\* Time events are in the list once until they are finalized once, the loop does
\* not sleep past them, and a pass leaves nothing behind that was due.
THEOREM TimersAlwaysKept == Spec => []TimersAreKept
<1>1. IInv => TimersAreKept
  <2> SUFFICES ASSUME IInv
               PROVE  TimersAreKept
    OBVIOUS
  <2>1. OneLifePerTimer
    <3> SUFFICES ASSUME NEW t \in Timers
                 PROVE  Cardinality({i \in DOMAIN list : list[i] = t}) + finalized[t]
                          = IF t < nextId THEN 1 ELSE 0
      BY DEF OneLifePerTimer
    <3> DEFINE S == {i \in DOMAIN list : list[i] = t}
    <3>1. /\ t \in ToSet(list) => t < nextId
          /\ finalized[t] = IF t < nextId /\ t \notin ToSet(list) THEN 1 ELSE 0
          /\ \A i, j \in DOMAIN list : list[i] = list[j] => i = j
      BY DEF IInv, TimersInv, Unfinalized
    <3>2. CASE t \in ToSet(list)
      <4>1. PICK i \in DOMAIN list : list[i] = t
        BY <3>2 DEF ToSet
      <4>2. S = {i}
        BY <3>1, <4>1
      <4>3. Cardinality(S) = 1
        BY <4>2, FS_Singleton
      <4> QED BY <3>1, <3>2, <4>3
    <3>3. CASE t \notin ToSet(list)
      <4>1. S = {}
        BY <3>3 DEF ToSet
      <4>2. Cardinality(S) = 0
        BY <4>1, FS_EmptySet
      <4> QED BY <3>1, <3>3, <4>2
    <3> QED BY <3>2, <3>3
  <2>2. WaitCoversTimers /\ DueTimersRun
    BY DEF IInv, TimersInv, OwedAhead, DueTimersRun
  <2> QED BY <2>1, <2>2 DEF TimersAreKept
<1> QED BY <1>1, Invariance, PTL

=============================================================================
