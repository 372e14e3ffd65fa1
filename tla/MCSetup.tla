------------------------------- MODULE MCSetup -------------------------------
(***************************************************************************)
(* Instances of Setup for TLC: the sets of test cases of a run.            *)
(***************************************************************************)
EXTENDS Setup

AnyTests == (SUBSET TestNames) \ {{}}

(* Any two test cases, and the supported sets of three and of six.         *)
Configured ==
  {T \in AnyTests : \/ Cardinality(T) <= 2
                    \/ OwnSubscriptions(T) /\ Cardinality(T) \in {3, 6}}
=============================================================================
