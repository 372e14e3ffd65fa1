--------------------------- MODULE RunConfigProofs ---------------------------
(***************************************************************************)
(* Whatever a user writes, a configuration that passes can be run: for any *)
(* indices and loop counts, any numbers of instances, nodes and members.   *)
(***************************************************************************)
EXTENDS RunConfig, TLAPS

(* The sender is checked when the nodes are taken, long before validation, *)
(* and the loop count is repaired in between: what has been established    *)
(* must survive the later steps.                                           *)
RunnerInv ==
  /\ nodeCount \in Nat /\ memberCount \in Int
  /\ pc \in {"defaults", "validate", "ready"} =>
       /\ runner.nodes > 0 /\ InRange(runner.sender, runner.nodes)
       /\ DOMAIN runner = {"nodes", "sender", "actionsPerLoop"}
       /\ runner.actionsPerLoop \in Int
  /\ pc \in {"validate", "ready"} => runner.actionsPerLoop > 0
  /\ pc = "generate" => instance \in InstanceConfigs

LEMMA InitRunner == Init => RunnerInv
<1>1. MaxNodes \in Nat
  BY RunConfigAssumption
<1>2. NoStack \in Int
  BY DEF NoStack
<1>3. Init => nodeCount \in Nat /\ memberCount \in Int
  <2>1. Init => /\ nodeCount \in 0 .. MaxNodes
                /\ memberCount \in NoStack .. MaxNodes
    BY Zenon DEF Init
  <2> QED
    BY <1>1, <1>2, <2>1
<1> QED
  BY <1>3 DEF Init, RunnerInv

(* A sender within the members means that there is a member.               *)
LEMMA StackHasNode ==
  ASSUME NEW i \in Int, NEW n \in Int, InRange(i, n)
  PROVE  n > 0
BY DEF InRange

LEMMA NextRunner == RunnerInv /\ [Next]_vars => RunnerInv'
<1> SUFFICES ASSUME RunnerInv, [Next]_vars
             PROVE  RunnerInv'
  OBVIOUS
<1> USE DEF RunnerInv
<1>1. CASE Fail \/ Panic
  BY <1>1 DEF Fail, Panic, inputs
<1>2. ASSUME SelectInstance, ~Fail
      PROVE  RunnerInv'
  BY <1>2 DEF SelectInstance, inputs
<1>3. ASSUME FromNodes \/ FromStack, ~Fail, ~Panic
      PROVE  RunnerInv'
  <2>1. instance.sender \in Int /\ instance.actionsPerLoop \in Int
    BY <1>3, RunConfigAssumption DEF FromNodes, FromStack, InstanceConfigs
  <2>2. PICK n \in Int, i \in Int :
          InRange(i, n) /\ runner' = Generated(n, i)
    <3>1. CASE FromNodes
      BY <1>3, <3>1 DEF FromNodes, InRange
    <3>2. CASE FromStack
      BY <1>3, <2>1, <3>2 DEF FromStack
    <3> QED
      BY <1>3, <3>1, <3>2
  <2>3. n > 0
    BY <2>2, StackHasNode
  <2>4. pc' = "defaults" /\ UNCHANGED inputs
    BY <1>3 DEF FromNodes, FromStack
  <2> QED
    BY <2>1, <2>2, <2>3, <2>4 DEF Generated, inputs
<1>4. CASE SetDefaults
  <2>1. /\ DOMAIN runner = {"nodes", "sender", "actionsPerLoop"}
        /\ runner.actionsPerLoop \in Int
    BY <1>4 DEF SetDefaults
  <2>2. /\ runner'.nodes = runner.nodes /\ runner'.sender = runner.sender
        /\ DOMAIN runner' = DOMAIN runner
        /\ runner'.actionsPerLoop = PositiveLoop(runner.actionsPerLoop)
    BY <1>4, <2>1 DEF SetDefaults
  <2>3. PositiveLoop(runner.actionsPerLoop) \in Int
        /\ PositiveLoop(runner.actionsPerLoop) > 0
    BY <2>1 DEF PositiveLoop
  <2> QED
    BY <1>4, <2>1, <2>2, <2>3 DEF SetDefaults, inputs
<1>5. ASSUME Validate, ~Fail
      PROVE  RunnerInv'
  BY <1>5 DEF Validate, inputs
<1>6. CASE UNCHANGED vars
  BY <1>6 DEF vars, inputs
<1> QED
  BY <1>1, <1>2, <1>3, <1>4, <1>5, <1>6 DEF Next, Ended

(* Every configuration that gets through validation has a node, a sender   *)
(* among its nodes, and a loop of at least one action.                     *)
THEOREM ReadyRuns == Spec => []ReadyIsRunnable
<1>1. RunnerInv => ReadyIsRunnable
  BY DEF RunnerInv, ReadyIsRunnable
<1> QED
  BY <1>1, InitRunner, NextRunner, PTL DEF Spec
=============================================================================
