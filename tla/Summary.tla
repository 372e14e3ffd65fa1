------------------------------- MODULE Summary -------------------------------
(***************************************************************************)
(* pr.summary (internal/perf/perf.go): the counters behind "Measured       *)
(* actions", the TPS in the log and the report.  Every goroutine that has  *)
(* received an event calls recordCompletedAction, with no lock: one event  *)
(* loop per node, in batch mode one goroutine per event.  The mutex of     *)
(* the summary is held only around calculateCurrentTps, which reads.       *)
(***************************************************************************)
EXTENDS Integers, FiniteSets

CONSTANTS
  Callers,  \* the goroutines that record events
  MaxCalls  \* bound: how many calls return, and how many there are in the ramp

ASSUME CallersAssumption == IsFiniteSet(Callers) /\ MaxCalls \in Nat

VARIABLES
  ramping,       \* is time.Now() before pr.endRampTime
  rampSummary,   \* summary.rampSummary
  totalSummary,  \* summary.totalSummary
  cpc,           \* where each caller is in recordCompletedAction
  held,          \* what it has read of totalSummary for its totalSummary++
  calls          \* calls that have returned, those of the ramp aside

summaryVars == <<ramping, rampSummary, totalSummary, cpc, held, calls>>

Init == /\ ramping \in BOOLEAN
        /\ rampSummary = 0 /\ totalSummary = 0 /\ calls = 0
        /\ cpc = [c \in Callers |-> "out"]
        /\ held = [c \in Callers |-> 0]

(* In the ramp one atomic addition is all there is.                        *)
RecordRamp(c) ==
  /\ cpc[c] = "out" /\ ramping /\ rampSummary < MaxCalls
  /\ rampSummary' = rampSummary + 1
  /\ UNCHANGED <<ramping, totalSummary, cpc, held, calls>>

(* totalSummary++ is a read and a later write, not one step.               *)
ReadTotal(c) ==
  /\ cpc[c] = "out" /\ ~ramping /\ calls < MaxCalls
  /\ held' = [held EXCEPT ![c] = totalSummary]
  /\ cpc' = [cpc EXCEPT ![c] = "write"]
  /\ UNCHANGED <<ramping, rampSummary, totalSummary, calls>>

WriteTotal(c) ==
  /\ cpc[c] = "write"
  /\ totalSummary' = held[c] + 1
  /\ held' = [held EXCEPT ![c] = 0]
  /\ cpc' = [cpc EXCEPT ![c] = "add"]
  /\ UNCHANGED <<ramping, rampSummary, calls>>

(* Then atomic.AddInt64 adds one to the same counter.                      *)
AddTwo(c) ==                                                     \* mutant
  /\ cpc[c] = "add"
  /\ totalSummary' = totalSummary + 2 /\ calls' = calls + 1
  /\ cpc' = [cpc EXCEPT ![c] = "out"]
  /\ UNCHANGED <<ramping, rampSummary, held>>

AddTotal(c) ==
  /\ cpc[c] = "add"
  /\ totalSummary' = totalSummary + 1 /\ calls' = calls + 1
  /\ cpc' = [cpc EXCEPT ![c] = "out"]
  /\ UNCHANGED <<ramping, rampSummary, held>>

EndRamp == /\ ramping /\ ramping' = FALSE
           /\ UNCHANGED <<rampSummary, totalSummary, cpc, held, calls>>

Record(c) == RecordRamp(c) \/ ReadTotal(c) \/ WriteTotal(c) \/ AddTotal(c)

Next == EndRamp \/ \E c \in Callers : Record(c)

Spec == Init /\ [][Next]_summaryVars

(* The number the TPS is computed from (calculateCurrentTps); Start takes  *)
(* totalSummary for the report while callers may still be at work.         *)
measuredActions == IF ramping THEN rampSummary ELSE totalSummary
-----------------------------------------------------------------------------
(* Properties.                                                             *)

(* Types; a caller holds a value of totalSummary only until its write.     *)
SummaryTypeOK ==
  /\ ramping \in BOOLEAN
  /\ rampSummary \in Nat /\ totalSummary \in Nat /\ calls \in Nat
  /\ cpc \in [Callers -> {"out", "write", "add"}]
  /\ held \in [Callers -> Nat]
  /\ \A c \in Callers : cpc[c] # "write" => held[c] = 0

Adding == {c \in Callers : cpc[c] = "add"}

(* Whatever the callers overwrite of each other's work, the summary never  *)
(* shows more than two actions for each recorded event, plus one for each  *)
(* event that is just being recorded (recordCompletedAction).              *)
MeasuredBounded == totalSummary <= 2 * calls + Cardinality(Adding)

(* It is inductive only together with this: what a caller still holds is   *)
(* no larger either.                                                       *)
HeldBounded ==
  \A c \in Callers :
    cpc[c] = "write" => held[c] <= 2 * calls + Cardinality(Adding)

(* What the comment in recordCompletedAction says, "increment atomically": *)
(* when nobody is recording, the summary is the number of recorded events. *)
CountedAtomically ==
  (\A c \in Callers : cpc[c] = "out") => totalSummary = calls
=============================================================================
