----------------------------- MODULE MCListHeap -----------------------------
(* Two names, lists of up to five elements: an empty literal grows to four  *)
(* cells and to eight, and a list can be grown through either name while a  *)
(* statement on it is under way.                                            *)
EXTENDS ListHeap, TLC
CONSTANTS x, y, u, v, p, q, r, b1, b2, b3, b4

MCSymmetry == 
  Permutations({b1, b2, b3, b4}) \cup Permutations({p, q, r}) \cup Permutations({u, v})
Constant == {0, 1}
=============================================================================
