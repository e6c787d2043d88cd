------------------------------ MODULE Skiplist ------------------------------
(***************************************************************************)
(* src/Skiplist_KV/skiplist.h: inserts and deletes hold the mutex and      *)
(* change one pointer after the other; searches do not hold it, and read   *)
(* every pointer anew each time the code names it (the Makefile builds     *)
(* without optimisation). A deleted node is never freed.                   *)
(***************************************************************************)
EXTENDS Integers, FiniteSetsExt

CONSTANTS SkipKeys,   \* a set of positive numbers
          TopLevel,   \* max_level_
          MaxSkip,    \* bound: nodes ever created
          NULL        \* the null pointer

ASSUME SkipAssumption ==
  /\ SkipKeys \subseteq Nat \ {0} /\ TopLevel \in Nat \ {0} /\ MaxSkip \in Nat
  /\ NULL \notin Nat

VARIABLES key, forward,     \* of the nodes; 0 is header_
          skip_list_level, element_count,
          writer,           \* who holds the mutex: its work still to be done
          search            \* a search_element that runs

skipVars == <<key, forward, skip_list_level, element_count, writer, search>>

Levels == 0..TopLevel
SkipNodes == DOMAIN key
Idle == [op |-> "none"]

\* header_ and the nodes that pointers f link at a level: the least set with
\* header_ and with whatever its nodes point to
LinkedBy(f, i) ==
  LET linked(S) == 0 \in S /\ \A n \in S : f[n][i] \in S \cup {NULL}
  IN  {n \in DOMAIN f : \A S \in SUBSET DOMAIN f : linked(S) => n \in S}

OnLevel(i) == LinkedBy(forward, i)

Present == {key[n] : n \in OnLevel(0) \ {0}}

SkipTypeOK ==
  /\ SkipNodes = 0..Cardinality(SkipNodes) - 1 /\ key[0] = 0
  /\ \A n \in SkipNodes \ {0} : key[n] \in SkipKeys
  /\ forward \in [SkipNodes -> [Levels -> SkipNodes \cup {NULL}]]
  /\ skip_list_level \in Levels /\ element_count \in Nat
  /\ writer.op \in {"none", "insert", "delete", "lower"}
  /\ search.pc \in {"none", "test", "compare", "move", "last", "found", "missed", "crashed"}

SkipInit ==
  /\ key = [n \in {0} |-> 0] /\ forward = [n \in {0} |-> [i \in Levels |-> NULL]]
  /\ skip_list_level = 0 /\ element_count = 0
  /\ writer = Idle /\ search = [pc |-> "none"]

-----------------------------------------------------------------------------
(* Writers. Nobody else writes, so what they read to find their place is   *)
(* one step with the first thing they write.                               *)

\* update[i], of the levels in use and of the others
Update(k) ==
  [i \in Levels |->
     IF i > skip_list_level THEN 0
     ELSE CHOOSE n \in OnLevel(i) :
            key[n] < k /\ \A m \in OnLevel(i) : key[m] < k => key[m] <= key[n]]

Searching == search.pc \in {"test", "compare", "move", "last"}

\* What a search must answer for: whether its key was there, at any time while
\* it ran, and what was done meanwhile: deletes, and inserts of smaller keys.
Smaller(w) == w.op = "insert" /\ key[w.node] < search.key

Witnessed(deletes) ==
  search' = IF ~Searching THEN search
            ELSE [search EXCEPT !.was = @ \cup {\E n \in LinkedBy(forward', 0) : key'[n] = search.key},
                                !.deletes = @ \/ deletes, !.inserts = @ \/ Smaller(writer)]

\* insert_element of a key that is not there, up to the node, of level `top'
InsertNew(k, top) ==
  /\ writer = Idle /\ k \notin Present /\ Cardinality(SkipNodes) <= MaxSkip
  /\ LET node == Cardinality(SkipNodes)
     IN  /\ key' = [n \in SkipNodes \cup {node} |-> IF n = node THEN k ELSE key[n]]
         /\ forward' = [n \in SkipNodes \cup {node} |->
                          IF n = node THEN [i \in Levels |-> NULL] ELSE forward[n]]
         /\ writer' = [op |-> "insert", node |-> node, top |-> top, level |-> 0, update |-> Update(k)]
  /\ skip_list_level' = Max({top, skip_list_level})
  /\ UNCHANGED element_count /\ Witnessed(FALSE)

\* Mutant: the levels are linked from the top down.
LinkedTopDown(w) == w.top - w.level

\* the level that a writer links or unlinks next
Linked(w) == w.level

\* one level of its loop
LinkLevel ==
  /\ writer.op = "insert" /\ writer.level <= writer.top
  /\ LET i == Linked(writer)
         before == writer.update[i]
     IN  forward' = [forward EXCEPT ![writer.node][i] = forward[before][i], ![before][i] = writer.node]
  /\ writer' = [writer EXCEPT !.level = @ + 1]
  /\ UNCHANGED <<key, skip_list_level, element_count>> /\ Witnessed(FALSE)

Inserted ==
  /\ writer.op = "insert" /\ writer.level > writer.top
  /\ element_count' = element_count + 1 /\ writer' = Idle
  /\ UNCHANGED <<key, forward, skip_list_level>> /\ Witnessed(FALSE)

\* Mutant: the highest level is left out of the loop of delete_element.
InUseBelow(i) == i < skip_list_level

InUse(i) == i <= skip_list_level

\* delete_element of a key that is there, up to its first pointer: level 0
DeleteStart(k) ==
  /\ writer = Idle /\ k \in Present
  /\ LET node == CHOOSE n \in OnLevel(0) : key[n] = k
     IN  /\ forward' = [forward EXCEPT ![Update(k)[0]][0] = forward[node][0]]
         /\ writer' = [op |-> "delete", node |-> node, level |-> 1, update |-> Update(k)]
  /\ UNCHANGED <<key, skip_list_level, element_count>> /\ Witnessed(TRUE)

UnlinkLevel ==
  /\ writer.op = "delete"
  /\ LET i == writer.level
     IN  IF InUse(i) /\ forward[writer.update[i]][i] = writer.node
         THEN /\ forward' = [forward EXCEPT ![writer.update[i]][i] = forward[writer.node][i]]
              /\ writer' = [writer EXCEPT !.level = @ + 1]
         ELSE writer' = [op |-> "lower"] /\ UNCHANGED forward
  /\ UNCHANGED <<key, skip_list_level, element_count>> /\ Witnessed(TRUE)

TopIsEmpty == skip_list_level > 0 /\ forward[0][skip_list_level] = NULL

\* the empty levels go one by one, then the count and the mutex
Lower ==
  /\ writer.op = "lower"
  /\ IF TopIsEmpty
     THEN skip_list_level' = skip_list_level - 1 /\ UNCHANGED <<element_count, writer>>
     ELSE element_count' = element_count - 1 /\ writer' = Idle /\ UNCHANGED skip_list_level
  /\ UNCHANGED <<key, forward>> /\ Witnessed(TRUE)

-----------------------------------------------------------------------------
(* search_element: the test for NULL, the comparison and the assignment    *)
(* each read current->forward_[i].                                         *)

Reading(pc) == search.pc = pc /\ UNCHANGED <<key, forward, skip_list_level, element_count, writer>>

Read == forward[search.current][search.level]

SearchStart(k) ==
  /\ search.pc = "none" /\ UNCHANGED <<key, forward, skip_list_level, element_count, writer>>
  /\ search' = [pc |-> "test", key |-> k, level |-> skip_list_level, current |-> 0,
                was |-> {\E n \in OnLevel(0) : key[n] = k}, deletes |-> writer.op \in {"delete", "lower"}, inserts |-> FALSE]

GoesDown ==
  IF search.level = 0 THEN [search EXCEPT !.pc = "last"]
  ELSE [search EXCEPT !.pc = "test", !.level = @ - 1]

Test ==
  /\ Reading("test")
  /\ search' = IF Read = NULL THEN GoesDown ELSE [search EXCEPT !.pc = "compare"]

Compare ==
  /\ Reading("compare")
  /\ search' = IF Read = NULL THEN [search EXCEPT !.pc = "crashed"]
               ELSE IF key[Read] < search.key THEN [search EXCEPT !.pc = "move"] ELSE GoesDown

Move ==
  /\ Reading("move")
  /\ search' = IF Read = NULL THEN [search EXCEPT !.pc = "crashed"]
               ELSE [search EXCEPT !.pc = "test", !.current = Read]

\* the node right of current at level 0, read once
LastNode ==
  /\ Reading("last")
  /\ LET found == Read # NULL /\ key[Read] = search.key
     IN  search' = [search EXCEPT !.pc = IF found THEN "found" ELSE "missed"]

SearchEnds ==
  /\ search.pc \in {"found", "missed"} /\ search' = [pc |-> "none"]
  /\ UNCHANGED <<key, forward, skip_list_level, element_count, writer>>

SkipNext ==
  \/ \E k \in SkipKeys, top \in 1..TopLevel : InsertNew(k, top)
  \/ \E k \in SkipKeys : DeleteStart(k) \/ SearchStart(k)
  \/ LinkLevel \/ Inserted \/ UnlinkLevel \/ Lower
  \/ Test \/ Compare \/ Move \/ LastNode \/ SearchEnds

SkipSpec == SkipInit /\ [][SkipNext]_skipVars

-----------------------------------------------------------------------------

\* A key that is found was there at some time while the search ran. A key that
\* is missed was not, unless a delete or the insert of a smaller key ran
\* meanwhile: the node that skiplist.h:290 stopped before is read again at 296.
\* Only a delete makes the search dereference NULL (290 and 291).
SearchesAreLinearizable ==
  /\ search.pc = "found" => TRUE \in search.was
  /\ search.pc = "missed" => search.deletes \/ search.inserts \/ FALSE \in search.was
  /\ search.pc = "crashed" => search.deletes

\* What a search without the mutex meets after any pointer that a writer changed:
\* every level is sorted, those above skip_list_level_ are empty, and a node of a
\* level is on the level below, unless it is the one that is being deleted. Between
\* two writers the highest level is not empty, and size() is right.
LevelsAreSorted ==
  /\ SkipTypeOK
  /\ \A i \in Levels :
       LET on == OnLevel(i)
       IN  /\ \A n \in on : forward[n][i] # NULL => key[n] < key[forward[n][i]]
           /\ i > skip_list_level => on = {0}
           /\ i > 0 => \A n \in on \ OnLevel(i - 1) : writer.op = "delete" /\ n = writer.node
  /\ writer = Idle =>
       /\ skip_list_level > 0 => OnLevel(skip_list_level) # {0}
       /\ element_count = Cardinality(OnLevel(0)) - 1
=============================================================================
