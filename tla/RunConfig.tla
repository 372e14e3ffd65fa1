------------------------------ MODULE RunConfig ------------------------------
(***************************************************************************)
(* How "ffperf run" (cmd/run.go) gets from a configuration file and flags  *)
(* to the configuration of a run: select an instance, take the nodes from  *)
(* the file or from a FireFly stack, set defaults, validate.  What comes   *)
(* out is what PerfRunner and Setup assume of their constants.             *)
(***************************************************************************)
EXTENDS Integers, Sequences, FiniteSets

CONSTANTS
  InstanceNames,  \* names an instance may have
  MaxInstances,   \* bound: instances in the file
  MaxNodes,       \* bound: nodes in the file, members in the stack
  Indices,        \* indices a user may write
  LoopCounts      \* numbers of actions per loop a user may write

ASSUME RunConfigAssumption ==
  /\ "" \notin InstanceNames
  /\ MaxInstances \in Nat /\ MaxNodes \in Nat
  /\ Indices \subseteq Int /\ LoopCounts \subseteq Int

(* instance.Recipient is a pointer: none, or one index.                    *)
Recipients == {<<>>} \cup {<<i>> : i \in Indices}
NoInstance == [sender |-> 0]

(* What matters of an InstanceConfig; "" and "unset" are absent values.    *)
InstanceConfigs ==
  [sender : Indices, manualNodeIndex : Indices,
   recipient : Recipients,
   bothKeys : BOOLEAN,
   tokenType : {"known", "other"},
   actionsPerLoop : LoopCounts]

VARIABLES
  pc,            \* the step of PreRunE
  names,         \* names of the instances in the file
  nodeCount,     \* len(perfConfig.Nodes)
  memberCount,   \* members of the stack, -1 if no stack path is given
  flags,         \* the command line
  instance,      \* the instance that was selected
  runner         \* the RunnerConfig under construction

inputs == <<names, nodeCount, memberCount, flags>>
vars == <<pc, inputs, instance, runner>>

NoStack == -1

Init ==
  /\ pc = "select"
  /\ names \in UNION {[1 .. i -> InstanceNames] : i \in 0 .. MaxInstances}
  /\ nodeCount \in 0 .. MaxNodes /\ memberCount \in NoStack .. MaxNodes
  /\ flags \in [name : {""} \cup InstanceNames, index : Indices]
  /\ instance = NoInstance
  /\ runner = [nodes |-> 0, sender |-> 0]

Fail == pc' = "error" /\ UNCHANGED <<inputs, instance, runner>>
Panic == pc' = "panicked" /\ UNCHANGED <<inputs, instance, runner>>

(* selectInstance: by name if there is one, else by index (-1 is unset).   *)
SelectedIndex ==
  IF flags.name # ""
  THEN {i \in DOMAIN names : /\ names[i] = flags.name
                             /\ \A j \in 1 .. i - 1 : names[j] # names[i]}
  ELSE {i \in DOMAIN names : flags.index + 1 = i}

SelectInstance ==
  /\ pc = "select"
  /\ IF SelectedIndex = {} THEN Fail
     ELSE /\ instance' \in InstanceConfigs
          /\ pc' = "generate" /\ UNCHANGED <<inputs, runner>>

(* generateRunnerConfigFromInstance.  The indices are used as they are.    *)
InRange(i, n) == 0 <= i /\ i < n

Generated(n, sender) ==
  [nodes |-> n, sender |-> sender,
   actionsPerLoop |-> instance.actionsPerLoop]

FromNodes ==
  /\ pc = "generate" /\ nodeCount > 0
  /\ IF InRange(instance.manualNodeIndex, nodeCount)
     THEN /\ runner' = Generated(1, 0)
          /\ pc' = "defaults" /\ UNCHANGED <<inputs, instance>>
     ELSE Panic

FromStack ==
  /\ pc = "generate" /\ nodeCount = 0
  /\ IF memberCount = NoStack THEN Fail                    \* readStackJSON
     ELSE IF /\ InRange(instance.sender, memberCount)
             /\ \A k \in DOMAIN instance.recipient :
                  InRange(instance.recipient[k], memberCount)
     THEN /\ runner' = Generated(memberCount, instance.sender)
          /\ pc' = "defaults" /\ UNCHANGED <<inputs, instance>>
     ELSE Panic

ZeroOnly(n) == IF n = 0 THEN 1 ELSE n                            \* mutant
PositiveLoop(n) == IF n <= 0 THEN 1 ELSE n

SetDefaults ==
  /\ pc = "defaults" /\ pc' = "validate"
  /\ runner' = [runner EXCEPT !.actionsPerLoop = PositiveLoop(@)]
  /\ UNCHANGED <<inputs, instance>>

(* validateConfig.                                                         *)
Valid ==
  /\ instance.tokenType # "other"
  /\ ~instance.bothKeys
  /\ ~(nodeCount > 0 /\ memberCount # NoStack)
  /\ ~(nodeCount > 0 /\ instance.manualNodeIndex + 1 > nodeCount)

Validate ==
  /\ pc = "validate"
  /\ IF Valid THEN pc' = "ready" /\ UNCHANGED <<inputs, instance, runner>>
     ELSE Fail

Ended == pc \in {"ready", "error", "panicked"} /\ UNCHANGED vars

Next ==
  SelectInstance \/ FromNodes \/ FromStack \/ SetDefaults \/ Validate \/ Ended

Spec == Init /\ [][Next]_vars
-----------------------------------------------------------------------------
(* Properties.                                                             *)

(* Every configuration that gets through can be run: there is a node, the  *)
(* sender is one of them, and a loop has at least one action, whatever     *)
(* numbers the file has.  PerfRunner assumes as much, and a loop of no     *)
(* actions would spin (setDefaults, generateRunnerConfigFromInstance).     *)
ReadyIsRunnable ==
  pc = "ready" => /\ runner.nodes > 0 /\ InRange(runner.sender, runner.nodes)
                  /\ runner.actionsPerLoop > 0
=============================================================================
