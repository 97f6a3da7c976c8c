------------------------------ MODULE MCIntOps ------------------------------
(* Three widths, the widest of four bits: every pair of operands of every   *)
(* pair of types, every slot.                                               *)
EXTENDS IntOps
=============================================================================
