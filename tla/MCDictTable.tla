---------------------------- MODULE MCDictTable ----------------------------
(* DictTable on keys that collide in a table of 4 and of 8 slots, wrap past *)
(* its end and include a negative one.                                      *)
EXTENDS DictTable

MCKeys == {-1, 0, 3, 4, 7}
=============================================================================
