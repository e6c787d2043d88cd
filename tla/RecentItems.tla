---------------------------- MODULE RecentItems ----------------------------
(***************************************************************************)
(* What src/Circular_Buffer/Circular_Buffer.h promises: the last `bound'   *)
(* items that were added, oldest first; a resize keeps the newest of them. *)
(***************************************************************************)
EXTENDS Naturals, Sequences

CONSTANTS Items, Bounds
VARIABLES items, bound

Newest(s, n) == IF Len(s) <= n THEN s ELSE SubSeq(s, Len(s) - n + 1, Len(s))

Init == items = << >> /\ bound \in Bounds

Add(x) == items' = Newest(Append(items, x), bound) /\ UNCHANGED bound

Resize(n) == items' = Newest(items, n) /\ bound' = n

Next == (\E x \in Items : Add(x)) \/ (\E n \in Bounds : Resize(n))

Spec == Init /\ [][Next]_<<items, bound>>
=============================================================================
