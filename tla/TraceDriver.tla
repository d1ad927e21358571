----------------------------- MODULE TraceDriver -----------------------------
(***************************************************************************)
(* TraceCheck with the splay tree in which mdriver.c finds its ranges: the *)
(* tree answers for the nearest range, add_range inserts into it and        *)
(* remove_range removes from it.                                           *)
(***************************************************************************)
EXTENDS RangeTree, TraceCheck

VARIABLE
  tree            (* ranges->lo_tree                                       *)

vars == <<checkVars, tree>>

Init == CheckInit /\ tree = tree_new

(* The tree is t after the step, or freed with the list. *)
TreeIs(t) == tree' = IF verdict' = "invalid" THEN tree_new ELSE t

Without(a) == IF a = NULL THEN tree ELSE TreeRemove(tree, a)

TreeAlloc(size, p) ==
  Alloc(size, p, TreeFindNearest(tree, p)) /\ TreeIs(TreeInsert(tree, p))

TreeReallocTo ==
  /\ ReallocTo(TreeFindNearest(tree, moving.to))
  /\ TreeIs(IF moving.size = 0 THEN tree ELSE TreeInsert(tree, moving.to))

Next ==
  \/ (StartPass \/ HeapCheckFails \/ EndTrace \/ Measure) /\ TreeIs(tree)
  \/ TreeReallocTo
  \/ \E size \in Sizes, p \in Addresses \cup {NULL} : TreeAlloc(size, p)
  \/ \E a \in blocks \cup {NULL} :
       /\ Free(a) \/ \E size \in Sizes \cup {0} : ReallocFrom(a, size)
       /\ TreeIs(Without(a))

Spec == Init /\ [][Next]_vars

-----------------------------------------------------------------------------
(* The splay tree is a search tree of exactly the recorded ranges, which    *)
(* are those of the blocks the trace holds.                                 *)
TreeHoldsRanges == IsTreeOf(tree, live) /\ RangesOfBlocks

(* Whatever its shape, the tree answers with the nearest range and nothing  *)
(* else of the check depends on it: what is proved of TraceCheck holds here. *)
ImplementsTraceCheck == CheckSpec
=============================================================================
