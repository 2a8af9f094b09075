----------------------------- MODULE MCLinkedList -----------------------------
(***************************************************************************)
(* Lists of one class at a time, in a heap of three nodes.                  *)
(***************************************************************************)
EXTENDS LinkedListProperties, TLC

MCNodes == 1 .. 3
MCKeys == {1, 2}
MCSymmetry == Permutations(Objects) \cup Permutations(Vals)
=============================================================================
