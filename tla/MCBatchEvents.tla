---------------------------- MODULE MCBatchEvents ----------------------------
(***************************************************************************)
(* Instances of BatchEvents for TLC: how many loops each worker makes.     *)
(***************************************************************************)
EXTENDS BatchEvents

TwoThenOne == [w \in Workers |-> IF w = 0 THEN 2 ELSE 1]
=============================================================================
