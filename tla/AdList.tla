------------------------------- MODULE AdList -------------------------------
(***************************************************************************)
(* src/asyn_network/adlist.c: doubly linked lists and an iterator.  Nodes  *)
(* come from a bounded memory, so that every zmalloc can fail; what a      *)
(* freed node held is wiped.  Values are pointers, a new one per call, and *)
(* named after the node.  Two lists: one that is worked on (1), and a      *)
(* copy of it (2).                                                         *)
(***************************************************************************)
EXTENDS Integers, Sequences, FiniteSetsExt, SequencesExt

CONSTANTS MaxNodes,   \* bound: the memory
          Null

ASSUME ListAssumption == MaxNodes \in Nat /\ Null \notin 1..MaxNodes

VARIABLES
  head, tail, len,          \* struct list, of both lists
  prev, next, value, used,  \* the nodes, and which are allocated
  iter,                     \* listIter of list 1: next and direction
  current,                  \* the node it returned last, if it is still there
  watched,                  \* history: nodes in the list ever since it started
  left                      \* history: those of them it has not returned yet

listVars == <<head, tail, len, prev, next, value, used, iter,
              current, watched, left>>
history == <<current, watched, left>>

Lists == {1, 2}
Nodes == 1..MaxNodes
Iterating == iter.direction # "none"

ListTypeOK ==
  /\ head \in [Lists -> Nodes \cup {Null}] /\ tail \in [Lists -> Nodes \cup {Null}]
  /\ len \in [Lists -> 0..MaxNodes] /\ used \subseteq Nodes
  /\ prev \in [Nodes -> Nodes \cup {Null}] /\ next \in [Nodes -> Nodes \cup {Null}]
  /\ value \in [Nodes -> Nodes \cup {Null}]
  /\ iter \in [next : Nodes \cup {Null}, direction : {"head", "tail", "none"}]
  /\ current \in Nodes \cup {Null} /\ watched \subseteq Nodes /\ left \subseteq watched

NoIter == [next |-> Null, direction |-> "none"]

ListInit ==
  /\ head = [l \in Lists |-> Null] /\ tail = [l \in Lists |-> Null]
  /\ len = [l \in Lists |-> 0] /\ used = {}
  /\ prev = [n \in Nodes |-> Null] /\ next = [n \in Nodes |-> Null]
  /\ value = [n \in Nodes |-> Null]
  /\ iter = NoIter /\ current = Null /\ watched = {} /\ left = {}

\* k links on from n, or Null
Along(link, n, k) ==
  LET walk[i \in 0..k] ==
        IF i = 0 THEN n
        ELSE LET m == walk[i - 1] IN IF m = Null THEN Null ELSE link[m]
  IN  walk[k]

\* what while ((node = listNext(iter)) != NULL) goes through
Chain(link, n) ==
  LET k == Min({k \in 0..MaxNodes : Along(link, n, k) = Null} \cup {MaxNodes})
  IN  [i \in 1..k |-> Along(link, n, i - 1)]

ListContents == Chain(next, head[1])

\* zmalloc: a node, unless memory is out
Fresh == CHOOSE n \in Nodes \ used : TRUE
Memory(k) == Cardinality(Nodes \ used) >= k

AddNodeHead ==
  /\ Memory(1)
  /\ used' = used \cup {Fresh} /\ value' = [value EXCEPT ![Fresh] = Fresh]
  /\ head' = [head EXCEPT ![1] = Fresh]
  /\ tail' = IF len[1] = 0 THEN [tail EXCEPT ![1] = Fresh] ELSE tail
  /\ next' = [next EXCEPT ![Fresh] = IF len[1] = 0 THEN Null ELSE head[1]]
  /\ prev' = [n \in Nodes |-> IF n = Fresh THEN Null
                              ELSE IF len[1] # 0 /\ n = head[1] THEN Fresh ELSE prev[n]]
  /\ len' = [len EXCEPT ![1] = @ + 1]
  /\ UNCHANGED <<iter, history>>

AddNodeTail ==
  /\ Memory(1)
  /\ used' = used \cup {Fresh} /\ value' = [value EXCEPT ![Fresh] = Fresh]
  /\ tail' = [tail EXCEPT ![1] = Fresh]
  /\ head' = IF len[1] = 0 THEN [head EXCEPT ![1] = Fresh] ELSE head
  /\ prev' = [prev EXCEPT ![Fresh] = IF len[1] = 0 THEN Null ELSE tail[1]]
  /\ next' = [n \in Nodes |-> IF n = Fresh THEN Null
                              ELSE IF len[1] # 0 /\ n = tail[1] THEN Fresh ELSE next[n]]
  /\ len' = [len EXCEPT ![1] = @ + 1]
  /\ UNCHANGED <<iter, history>>

\* node->prev = p; node->next->prev = node
BackLink(n, p, s) ==
  [m \in Nodes |-> IF m = n THEN p ELSE IF m = s THEN n ELSE prev[m]]

InsertNode(old, after) ==
  /\ Memory(1) /\ Contains(ListContents, old)
  /\ used' = used \cup {Fresh} /\ value' = [value EXCEPT ![Fresh] = Fresh]
  /\ LET p == IF after THEN old ELSE prev[old]
         s == IF after THEN next[old] ELSE old
     IN  /\ prev' = BackLink(Fresh, p, s)
         /\ next' = [m \in Nodes |-> IF m = Fresh THEN s
                                     ELSE IF m = p THEN Fresh ELSE next[m]]
  /\ tail' = IF after /\ tail[1] = old THEN [tail EXCEPT ![1] = Fresh] ELSE tail
  /\ head' = IF ~after /\ head[1] = old THEN [head EXCEPT ![1] = Fresh] ELSE head
  /\ len' = [len EXCEPT ![1] = @ + 1]
  /\ UNCHANGED <<iter, history>>

\* listDelNode; while an iterator is in use, of the node it returned last only
\* (adlist.c:307).
DelNode(n) ==
  /\ Contains(ListContents, n) /\ (Iterating => n = current)
  /\ next' = [m \in Nodes |-> IF m = n THEN Null
                              ELSE IF m = prev[n] THEN next[n] ELSE next[m]]
  /\ head' = IF prev[n] # Null THEN head ELSE [head EXCEPT ![1] = next[n]]
  /\ prev' = [m \in Nodes |-> IF m = n THEN Null
                              ELSE IF m = next[n] THEN prev[n] ELSE prev[m]]
  /\ tail' = IF next[n] # Null THEN tail ELSE [tail EXCEPT ![1] = prev[n]]
  /\ used' = used \ {n} /\ value' = [value EXCEPT ![n] = Null]
  /\ len' = [len EXCEPT ![1] = @ - 1]
  /\ watched' = watched \ {n} /\ left' = left \ {n} /\ current' = Null
  /\ UNCHANGED iter

\* listGetIterator, listRewind, listRewindTail
StartIterator(d) ==
  /\ iter' = [next |-> IF d = "head" THEN head[1] ELSE tail[1], direction |-> d]
  /\ current' = Null /\ watched' = ToSet(ListContents) /\ left' = watched'
  /\ UNCHANGED <<head, tail, len, prev, next, value, used>>

\* Mutant: the iterator stays on the node it returns.
SaveNextNot(n) == n

\* what listNext saves before it returns n
SaveNext(n) == IF iter.direction = "head" THEN next[n] ELSE prev[n]

ListNext ==
  /\ Iterating /\ iter.next # Null
  /\ iter' = [iter EXCEPT !.next = SaveNext(iter.next)]
  /\ left' = left \ {iter.next} /\ current' = iter.next
  /\ UNCHANGED <<head, tail, len, prev, next, value, used, watched>>

\* listNext gives NULL; listReleaseIterator
EndIterator ==
  /\ Iterating /\ iter.next = Null
  /\ iter' = NoIter /\ current' = Null /\ watched' = {} /\ left' = {}
  /\ UNCHANGED <<head, tail, len, prev, next, value, used>>

RotateTail ==
  /\ ~Iterating /\ len[1] > 1
  /\ LET t == tail[1]
     IN  /\ tail' = [tail EXCEPT ![1] = prev[t]]
         /\ head' = [head EXCEPT ![1] = t]
         /\ next' = [next EXCEPT ![prev[t]] = Null, ![t] = head[1]]
         /\ prev' = [prev EXCEPT ![head[1]] = t, ![t] = Null]
  /\ UNCHANGED <<len, value, used, iter, history>>

\* Mutant: the copy is made with listAddNodeHead.
CopiedBackwards(i) == ListContents[len[1] + 1 - i]

\* which node the i-th one of a copy is made from
Copied(i) == ListContents[i]

\* listDup: a copy node by node; when memory runs out, what is copied so far is
\* released again.
Dup ==
  /\ head[2] = Null /\ len[1] > 0 /\ Memory(len[1])
  /\ LET q == CHOOSE q \in [1..len[1] -> Nodes \ used] :
                \A i, j \in 1..len[1] : q[i] = q[j] => i = j
         at == [n \in ToSet(q) |-> CHOOSE i \in DOMAIN q : q[i] = n]
     IN  /\ used' = used \cup ToSet(q)
         /\ head' = [head EXCEPT ![2] = q[1]] /\ tail' = [tail EXCEPT ![2] = Last(q)]
         /\ value' = [n \in Nodes |-> IF n \in ToSet(q) THEN value[Copied(at[n])]
                                                        ELSE value[n]]
         /\ next' = [n \in Nodes |-> IF n \notin ToSet(q) THEN next[n]
                                     ELSE IF at[n] = Len(q) THEN Null ELSE q[at[n] + 1]]
         /\ prev' = [n \in Nodes |-> IF n \notin ToSet(q) THEN prev[n]
                                     ELSE IF at[n] = 1 THEN Null ELSE q[at[n] - 1]]
  /\ len' = [len EXCEPT ![2] = len[1]]
  /\ UNCHANGED <<iter, history>>

\* listRelease: len nodes from the head on
Release(l) ==
  /\ len[l] > 0 /\ (Iterating => l = 2)
  /\ LET gone == {Along(next, head[l], i) : i \in 0..len[l] - 1}
         wiped(f) == [n \in Nodes |-> IF n \in gone THEN Null ELSE f[n]]
     IN  /\ used' = used \ gone
         /\ next' = wiped(next) /\ prev' = wiped(prev) /\ value' = wiped(value)
  /\ head' = [head EXCEPT ![l] = Null] /\ tail' = [tail EXCEPT ![l] = Null]
  /\ len' = [len EXCEPT ![l] = 0]
  /\ UNCHANGED <<iter, history>>

\* listIndex
Index(i) == IF i < 0 THEN Along(prev, tail[1], -i - 1) ELSE Along(next, head[1], i)

ListStep ==
  \/ AddNodeHead \/ AddNodeTail
  \/ \E n \in Nodes, after \in BOOLEAN : InsertNode(n, after)
  \/ \E n \in Nodes : DelNode(n)
  \/ \E d \in {"head", "tail"} : StartIterator(d)
  \/ ListNext \/ EndIterator \/ RotateTail \/ Dup
  \/ \E l \in Lists : Release(l)

ListSpec == ListInit /\ [][ListStep]_listVars

-----------------------------------------------------------------------------
(* Properties.                                                             *)

\* Both directions of a list are the same list, len counts it, and every node in
\* memory is in one list: no sequence of operations loses or shares a node, a
\* listDup that runs out of memory included.
ListsAreLists ==
  /\ \A l \in Lists :
       LET c == Chain(next, head[l])
       IN  /\ Len(c) = len[l] /\ Cardinality(ToSet(c)) = len[l]
           /\ Chain(prev, tail[l]) = Reverse(c)
  /\ ToSet(ListContents) \cap ToSet(Chain(next, head[2])) = {}
  /\ used = ToSet(ListContents) \cup ToSet(Chain(next, head[2]))

\* adlist.c:308: the node just returned can be deleted, and nodes inserted
\* anywhere, while the iterator goes on: it stays on a node of the list, and every
\* node that is there from beginning to end is returned once.
IteratorSeesAll ==
  Iterating =>
    LET rest == Chain(IF iter.direction = "head" THEN next ELSE prev, iter.next)
    IN  /\ ToSet(rest) \subseteq ToSet(ListContents)
        /\ ToSet(rest) \cap watched = left

\* adlist.c:471: 0 is the head, -1 the last element, NULL outside of the list.
IndexCountsBothWays ==
  \A i \in -MaxNodes..MaxNodes :
    Index(i) = IF i \in 0..len[1] - 1 THEN ListContents[i + 1]
               ELSE IF -i \in 1..len[1] THEN ListContents[len[1] + i + 1]
               ELSE Null

\* After any operations, in the middle of any iteration, what adlist.c's pointers
\* say, what it counts and what it hands out belong together.
ListsAreRight == ListTypeOK /\ ListsAreLists /\ IteratorSeesAll /\ IndexCountsBothWays

\* Every operation is the operation on sequences that its comment names, and
\* leaves the other list as it is.
OperationsAreOnSequences == [][
  LET c == ListContents  d == Chain(next, head[2])
      at(n) == CHOOSE i \in DOMAIN c : c[i] = n
      values(q) == [i \in DOMAIN q |-> value[q[i]]]
  IN  /\ AddNodeHead => ListContents' = <<Fresh>> \o c
      /\ AddNodeTail => ListContents' = Append(c, Fresh)
      /\ \A n \in ToSet(c), after \in BOOLEAN :
           InsertNode(n, after) => LET i == at(n) + (IF after THEN 1 ELSE 0)
                                      IN ListContents' = InsertAt(c, i, Fresh)
      /\ \A n \in ToSet(c) : DelNode(n) => ListContents' = RemoveAt(c, at(n))
      /\ RotateTail => ListContents' = <<Last(c)>> \o Front(c)
      /\ Dup => ListContents' = c /\ values(Chain(next, head[2]))' = values(c)
      /\ ~(Dup \/ Release(2)) => Chain(next, head[2])' = d
  ]_listVars
=============================================================================
