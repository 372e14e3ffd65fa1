----------------------------- MODULE ClosedLoop -----------------------------
(***************************************************************************)
(* What runLoop (internal/perf/perf.go) promises when it waits for         *)
(* confirmations: load is closed-loop.  A worker issues the actions of a   *)
(* round, every confirming node owes one event for each of them, and the   *)
(* next round starts only when nothing is owed any more.                   *)
(***************************************************************************)
EXTENDS Integers, FiniteSets

CONSTANTS
  Workers,         \* the worker goroutines
  ActionsPerLoop,  \* actions in a round
  Confirmers(_)    \* nodes that confirm the actions of a worker

VARIABLES
  round,   \* rounds each worker has completed
  issued,  \* actions each worker has issued in its round
  owed     \* <<action, node>> confirmations still missing

vars == <<round, issued, owed>>

Init == /\ round = [w \in Workers |-> 0]
        /\ issued = [w \in Workers |-> 0]
        /\ owed = [w \in Workers |-> {}]

Issue(w) ==
  /\ issued[w] < ActionsPerLoop
  /\ issued' = [issued EXCEPT ![w] = @ + 1]
  /\ owed' = [owed EXCEPT ![w] = @ \cup ({issued[w]} \X Confirmers(w))]
  /\ UNCHANGED round

Confirm(w) ==
  /\ \E c \in owed[w] : owed' = [owed EXCEPT ![w] = @ \ {c}]
  /\ UNCHANGED <<round, issued>>

NextRound(w) ==
  /\ issued[w] = ActionsPerLoop /\ owed[w] = {}
  /\ round' = [round EXCEPT ![w] = @ + 1]
  /\ issued' = [issued EXCEPT ![w] = 0]
  /\ UNCHANGED owed

Next == \E w \in Workers : Issue(w) \/ Confirm(w) \/ NextRound(w)

Spec == Init /\ [][Next]_vars
=============================================================================
