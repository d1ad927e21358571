----------------------------- MODULE MCPageTree ------------------------------
(* PageTree for eight page numbers split in the three ways the input files  *)
(* split theirs.                                                            *)
EXTENDS PageTree

MCShapes ==
  {[levels |-> 1, N2_in_bits |-> 0, N3_in_bits |-> 0],
   [levels |-> 2, N2_in_bits |-> 2, N3_in_bits |-> 0],
   [levels |-> 3, N2_in_bits |-> 1, N3_in_bits |-> 1]}
=============================================================================
