----------------------------- MODULE MCAllocator -----------------------------
(* Allocator with one slab for each size, of two bitmaps with a slot each.  *)
EXTENDS Allocator, TLC

MCNumSlabs == [kind \in {2, 4} |-> 1]
Symmetry == Permutations(Ids)
=============================================================================
