---------------------------- MODULE MCPerfRunner ----------------------------
(***************************************************************************)
(* Instances of PerfRunner for TLC: the test cases of the workers.         *)
(***************************************************************************)
EXTENDS PerfRunner

AllBroadcast == [w \in Workers |-> "msg_broadcast"]
MintAndPrivate == [w \in Workers |-> IF w = 0 THEN "token_mint"
                                     ELSE "msg_private"]
BroadcastAndFabric == [w \in Workers |-> IF w = 0 THEN "msg_broadcast"
                                         ELSE "custom_fabric_contract"]
=============================================================================
