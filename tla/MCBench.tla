------------------------------ MODULE MCBench ------------------------------
(* Five tests on two workers at tier 3: one without inputs, one with the    *)
(* default number of iterations, two with a number of their own, of which   *)
(* one is 0, and one of a higher tier; three benchmarks, the second of a    *)
(* higher tier.                                                             *)
EXTENDS Bench, TLC
CONSTANTS plain, fuzz, own, idle, late

MCTests     == {plain, fuzz, own, idle, late}
MCTestTier  == (plain :> 1) @@ (fuzz :> 2) @@ (own :> 3) @@ (idle :> 3) @@ (late :> 4)
MCBenchTier == <<3, 4, 3>>
MCInputs    == {fuzz, own, idle, late}
MCOverride  == (plain :> Unset) @@ (fuzz :> Unset) @@ (own :> 1)
               @@ (idle :> 0) @@ (late :> Unset)
=============================================================================
