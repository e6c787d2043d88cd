------------------------------- MODULE RBTree -------------------------------
(***************************************************************************)
(* src/coroutine/coroutine_3/src/rbtree.c and rbtree.h: the red-black tree *)
(* that holds the coroutines, the sleepers and the registered descriptors. *)
(* A node is named by its key; left and right are two sides of one code.   *)
(***************************************************************************)
EXTENDS Integers, FiniteSetsExt, SequencesExt

CONSTANT TreeSize  \* bound: keys are 1..TreeSize

ASSUME TreeAssumption == TreeSize \in Nat

VARIABLE tree  \* [root, kid: of each side, par, red], of the nodes that are linked

NIL == 0
Sides == {"left", "right"}
Opp(d) == IF d = "left" THEN "right" ELSE "left"
InTree(t) == DOMAIN t.red

\* Loops run at most once for every level, and the tree has TreeSize at most.
Repeat(Step(_), x) == FoldLeft(LAMBDA y, i : Step(y), x, [i \in 1..TreeSize |-> i])

EmptyTree == [root |-> NIL, kid |-> [d \in Sides |-> << >>], par |-> << >>, red |-> << >>]

TreeInit == tree = EmptyTree

-----------------------------------------------------------------------------
(* Changes of one field, and rotations.                                    *)

SetPar(t, n, p) == IF n = NIL THEN t ELSE [t EXCEPT !.par[n] = p]
Red(t, n) == [t EXCEPT !.red[n] = TRUE]
Black(t, n) == IF n = NIL THEN t ELSE [t EXCEPT !.red[n] = FALSE]
IsRed(t, n) == n # NIL /\ t.red[n]
SideOf(t, n) == IF t.kid["left"][t.par[n]] = n THEN "left" ELSE "right"

\* p, or the root, gets n where it had old
Replace(t, p, old, n) ==
  IF p = NIL THEN [t EXCEPT !.root = n]
  ELSE [t EXCEPT !.kid[IF t.kid["left"][p] = old THEN "left" ELSE "right"][p] = n]

\* Mutant: the child that changes sides keeps its parent.
RotateAlone(t, n, d) ==
  LET up == t.kid[Opp(d)][n]
      moved == [t EXCEPT !.kid[Opp(d)][n] = t.kid[d][up], !.kid[d][up] = n]
  IN  SetPar(Replace(SetPar(moved, up, t.par[n]), t.par[n], n, up), n, up)

\* __rb_rotate_left for d = "left"
Rotate(t, n, d) ==
  LET up == t.kid[Opp(d)][n]
      inner == t.kid[d][up]
      moved == [t EXCEPT !.kid[Opp(d)][n] = inner, !.kid[d][up] = n]
      linked == Replace(SetPar(SetPar(moved, inner, n), up, t.par[n]), t.par[n], n, up)
  IN  SetPar(linked, n, up)

-----------------------------------------------------------------------------
(* Insertion.                                                              *)

\* one turn of rb_insert_color
InsertTurn(s) ==
  LET t == s.t
      p == t.par[s.node]
  IN  IF ~IsRed(t, p) THEN s
      ELSE LET g == t.par[p]
               d == SideOf(t, p)
               uncle == t.kid[Opp(d)][g]
               inner == t.kid[Opp(d)][p] = s.node
               top == IF inner THEN s.node ELSE p
               t1 == IF inner THEN Rotate(t, p, d) ELSE t
           IN  IF IsRed(t, uncle)
               THEN [t |-> Red(Black(Black(t, uncle), p), g), node |-> g]
               ELSE [t |-> Rotate(Red(Black(t1, top), g), g, Opp(d)), node |-> IF inner THEN p ELSE s.node]

\* rb_insert_color
InsertColor(t, n) ==
  LET s == Repeat(InsertTurn, [t |-> t, node |-> n]) IN Black(s.t, s.t.root)

\* The last node on the way down to where k is or would be.
Descend(t, k) ==
  LET Down(n) ==
        LET kid == IF n = NIL \/ n = k THEN NIL ELSE t.kid[IF k < n THEN "left" ELSE "right"][n]
        IN  IF kid = NIL THEN n ELSE kid
  IN  Repeat(Down, t.root)

\* rb_insert of a key that is not there: rb_link_node, then the colours
Insert(k) ==
  /\ k \notin InTree(tree)
  /\ LET p == Descend(tree, k)
         With(f, v) == [n \in DOMAIN f \cup {k} |-> IF n = k THEN v ELSE f[n]]
         node == [root |-> tree.root, kid |-> [d \in Sides |-> With(tree.kid[d], NIL)],
                  par |-> With(tree.par, p), red |-> With(tree.red, TRUE)]
         side == IF k < p THEN "left" ELSE "right"
         linked == IF p = NIL THEN [node EXCEPT !.root = k] ELSE [node EXCEPT !.kid[side][p] = k]
     IN  tree' = InsertColor(linked, k)

-----------------------------------------------------------------------------
(* Removal.                                                                *)

\* one turn of __rb_erase_color; node may be NIL, so its parent is kept with it
EraseTurn(s) ==
  IF IsRed(s.t, s.node) \/ s.node = s.t.root THEN s
  ELSE
    LET p == s.parent
        d == IF s.t.kid["left"][p] = s.node THEN "left" ELSE "right"
        first == s.t.kid[Opp(d)][p]
        t == IF IsRed(s.t, first) THEN Rotate(Red(Black(s.t, first), p), p, d) ELSE s.t
        other == t.kid[Opp(d)][p]
        near == t.kid[d][other]
        \* the far child of the sibling becomes red
        t1 == IF ~IsRed(t, t.kid[Opp(d)][other]) THEN Rotate(Red(Black(t, near), other), other, Opp(d)) ELSE t
        sibling == t1.kid[Opp(d)][p]
        t2 == [t1 EXCEPT !.red[sibling] = t1.red[p]]
        t3 == Rotate(Black(Black(t2, p), t2.kid[Opp(d)][sibling]), p, d)
    IN  IF ~IsRed(t, near) /\ ~IsRed(t, t.kid[Opp(d)][other])
        THEN [t |-> Red(t, other), node |-> p, parent |-> t.par[p]]
        ELSE [t |-> t3, node |-> t3.root, parent |-> NIL]

EraseColor(t, n, p) ==
  LET s == Repeat(EraseTurn, [t |-> t, node |-> n, parent |-> p]) IN Black(s.t, s.node)

\* all the way down one side
Furthest(t, n, d) ==
  LET Down(m) == IF m = NIL \/ t.kid[d][m] = NIL THEN m ELSE t.kid[d][m] IN Repeat(Down, n)

\* rb_erase up to the label `color', of a node with one child at most
Unlinked(t, n) ==
  LET child == IF t.kid["left"][n] = NIL THEN t.kid["right"][n] ELSE t.kid["left"][n]
      p == t.par[n]
  IN  [t |-> Replace(SetPar(t, child, p), p, n, child), child |-> child, parent |-> p, red |-> t.red[n]]

\* of a node with two: its successor takes its place
Succeeded(t, old) ==
  LET n == Furthest(t, t.kid["right"][old], "left")
      child == t.kid["right"][n]
      p == IF t.par[n] = old THEN n ELSE t.par[n]
      t1 == Replace(t, t.par[old], old, n)
      t2 == IF p = n THEN t1
            ELSE SetPar([SetPar(t1, child, p) EXCEPT !.kid["left"][p] = child,
                                                     !.kid["right"][n] = t.kid["right"][old]],
                        t.kid["right"][old], n)
      t3 == [t2 EXCEPT !.par[n] = t.par[old], !.red[n] = t.red[old],
                       !.kid["left"][n] = t.kid["left"][old]]
  IN  [t |-> SetPar(t3, t.kid["left"][old], n), child |-> child, parent |-> p, red |-> t.red[n]]

\* A node that is out of the tree is freed, or initialised before it comes back.
Freed(t, n) ==
  LET Without(f) == [m \in DOMAIN f \ {n} |-> f[m]]
  IN  [root |-> t.root, kid |-> [d \in Sides |-> Without(t.kid[d])],
       par |-> Without(t.par), red |-> Without(t.red)]

\* rb_erase
Erase(k) ==
  /\ k \in InTree(tree)
  /\ LET two == tree.kid["left"][k] # NIL /\ tree.kid["right"][k] # NIL
         s == IF two THEN Succeeded(tree, k) ELSE Unlinked(tree, k)
     IN  tree' = Freed(IF s.red THEN s.t ELSE EraseColor(s.t, s.child, s.parent), k)

TreeNext == \E k \in 1..TreeSize : Insert(k) \/ Erase(k)

TreeSpec == TreeInit /\ [][TreeNext]_tree

-----------------------------------------------------------------------------
(* Walks.                                                                  *)

\* rb_first and rb_last
First(t, d) == Furthest(t, t.root, d)

\* rb_next for d = "right", rb_prev for d = "left"
NextInTree(t, n, d) ==
  LET Up(m) == IF t.par[m] # NIL /\ t.kid[d][t.par[m]] = m THEN t.par[m] ELSE m
  IN  IF t.kid[d][n] # NIL THEN Furthest(t, t.kid[d][n], Opp(d)) ELSE t.par[Repeat(Up, n)]

\* rb_nsearch: the key, or the next greater one, or the first
NextSearch(t, k) ==
  LET n == Descend(t, k)
      next == IF n = NIL \/ n >= k THEN n ELSE NextInTree(t, n, "right")
  IN  IF next = NIL THEN First(t, "left") ELSE next

-----------------------------------------------------------------------------

\* Black nodes on the way from the root down to n, n included.
BlackDepth(n) ==
  LET Up(s) == IF s.n = NIL THEN s
               ELSE [n |-> tree.par[s.n], blacks |-> s.blacks + (IF tree.red[s.n] THEN 0 ELSE 1)]
  IN  Repeat(Up, [n |-> n, blacks |-> 0]).blacks

\* After any inserts and erases the tree is a red-black tree of the nodes that
\* are in it: parents and children agree, the root is black, red nodes have
\* black children, and all ways down meet as many black nodes.
IsRedBlack ==
  LET t == tree
      ends == {n \in InTree(t) : \E d \in Sides : t.kid[d][n] = NIL}
  IN  /\ t.root = NIL <=> InTree(t) = {}
      /\ t.root # NIL => t.par[t.root] = NIL /\ ~t.red[t.root]
      /\ \A n \in InTree(t), d \in Sides :
           t.kid[d][n] # NIL => t.par[t.kid[d][n]] = n /\ ~(t.red[n] /\ IsRed(t, t.kid[d][n]))
      /\ \A n \in InTree(t) : t.par[n] # NIL => \E d \in Sides : t.kid[d][t.par[n]] = n
      /\ \A m, n \in ends : BlackDepth(m) = BlackDepth(n)

\* The walks meet the keys in order, both ways, rb_search finds what is in the
\* tree, and rb_nsearch the nearest key that is not smaller, or the first.
WalksAreSorted ==
  LET keys == InTree(tree)
      Least(s, other) == IF s = {} THEN other ELSE Min(s)
      Greatest(s) == IF s = {} THEN NIL ELSE Max(s)
  IN  /\ First(tree, "left") = Least(keys, NIL) /\ First(tree, "right") = Greatest(keys)
      /\ \A n \in keys :
           /\ NextInTree(tree, n, "right") = Least({m \in keys : m > n}, NIL)
           /\ NextInTree(tree, n, "left") = Greatest({m \in keys : m < n})
           /\ Descend(tree, n) = n
      /\ \A k \in 1..TreeSize :
           NextSearch(tree, k) = Least({m \in keys : m >= k}, Least(keys, NIL))

\* The tree is balanced and a search tree after any inserts and erases.
TreeIsRight == IsRedBlack /\ WalksAreSorted
=============================================================================
