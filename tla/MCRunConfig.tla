----------------------------- MODULE MCRunConfig -----------------------------
(***************************************************************************)
(* Instances of RunConfig for TLC: the numbers a user may write.           *)
(***************************************************************************)
EXTENDS RunConfig

SomeIndices == {-1, 0, 1}
SomeLoopCounts == {-1, 0, 2}
=============================================================================
