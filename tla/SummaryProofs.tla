---------------------------- MODULE SummaryProofs ----------------------------
(***************************************************************************)
(* The bound on the summary (Summary) for any number of callers and calls. *)
(***************************************************************************)
EXTENDS Summary, FiniteSetTheorems, TLAPS

(* What the summary may show at most.                                      *)
Limit == 2 * calls + Cardinality(Adding)

MeasuredInv == SummaryTypeOK /\ MeasuredBounded /\ HeldBounded

(* The callers about to add are finitely many, so the limit is a number.   *)
LEMMA LimitType ==
  ASSUME SummaryTypeOK
  PROVE  /\ IsFiniteSet(Adding) /\ Cardinality(Adding) \in Nat
         /\ Limit \in Nat
<1>1. Adding \subseteq Callers
  BY DEF Adding
<1>2. IsFiniteSet(Adding)
  BY <1>1, CallersAssumption, FS_Subset
<1>3. Cardinality(Adding) \in Nat
  BY <1>2, FS_CardinalityType
<1> QED
  BY <1>2, <1>3 DEF Limit, SummaryTypeOK

(* The summary's first values have their types and are within the limit.   *)
LEMMA MeasuredInit == Init => MeasuredInv
<1> SUFFICES ASSUME Init PROVE MeasuredInv
  OBVIOUS
<1>1. SummaryTypeOK
  BY DEF Init, SummaryTypeOK
<1>2. Limit \in Nat
  BY <1>1, LimitType
<1> QED
  BY <1>1, <1>2 DEF Init, MeasuredInv, MeasuredBounded, HeldBounded, Limit

(* Types are kept by every step.                                           *)
LEMMA TypeStep ==
  ASSUME SummaryTypeOK, [Next]_summaryVars
  PROVE  SummaryTypeOK'
<1> USE DEF SummaryTypeOK
<1>1. ASSUME NEW c \in Callers, Record(c)
      PROVE  SummaryTypeOK'
  <2>1. CASE RecordRamp(c)
    BY <2>1 DEF RecordRamp
  <2>2. CASE ReadTotal(c)
    BY <2>2 DEF ReadTotal
  <2>3. CASE WriteTotal(c)
    BY <2>3 DEF WriteTotal
  <2>4. CASE AddTotal(c)
    BY <2>4 DEF AddTotal
  <2> QED
    BY <1>1, <2>1, <2>2, <2>3, <2>4 DEF Record
<1>2. CASE EndRamp
  BY <1>2 DEF EndRamp
<1>3. CASE UNCHANGED summaryVars
  BY <1>3 DEF summaryVars
<1> QED
  BY <1>1, <1>2, <1>3 DEF Next

(* A caller that writes back joins those about to add: the limit grows by  *)
(* one, as much as what it writes exceeds what it had read.                *)
LEMMA WriteKeepsBound ==
  ASSUME MeasuredInv, SummaryTypeOK', NEW c \in Callers, WriteTotal(c)
  PROVE  (MeasuredBounded /\ HeldBounded)'
<1> USE DEF MeasuredInv
<1>1. Adding' = Adding \union {c} /\ c \notin Adding
  BY DEF WriteTotal, SummaryTypeOK, Adding
<1>2. Cardinality(Adding') = Cardinality(Adding) + 1
  BY <1>1, LimitType, FS_AddElement
<1>3. Limit' = Limit + 1
  BY <1>2, LimitType DEF Limit, WriteTotal, SummaryTypeOK
<1>4. totalSummary' = held[c] + 1 /\ held[c] <= Limit
  BY DEF WriteTotal, HeldBounded, Limit
<1>5. MeasuredBounded'
  BY <1>3, <1>4, LimitType DEF MeasuredBounded, Limit, SummaryTypeOK
<1>6. ASSUME NEW d \in Callers, cpc'[d] = "write"
      PROVE  held'[d] <= Limit'
  <2>1. d # c /\ cpc[d] = "write" /\ held'[d] = held[d]
    BY <1>6 DEF WriteTotal, SummaryTypeOK
  <2>2. held[d] <= Limit
    BY <2>1 DEF HeldBounded, Limit
  <2> QED
    BY <2>1, <2>2, <1>3, LimitType DEF SummaryTypeOK
<1> QED
  BY <1>5, <1>6 DEF HeldBounded, Limit

(* A caller that adds leaves them and has one more call returned: again    *)
(* the limit grows by one, as much as the counter.                         *)
LEMMA AddKeepsBound ==
  ASSUME MeasuredInv, SummaryTypeOK', NEW c \in Callers, AddTotal(c)
  PROVE  (MeasuredBounded /\ HeldBounded)'
<1> USE DEF MeasuredInv
<1>1. Adding' = Adding \ {c} /\ c \in Adding
  BY DEF AddTotal, SummaryTypeOK, Adding
<1>2. Cardinality(Adding') = Cardinality(Adding) - 1
  BY <1>1, LimitType, FS_RemoveElement
<1>3. Limit' = Limit + 1
  BY <1>2, LimitType DEF Limit, AddTotal, SummaryTypeOK
<1>4. totalSummary' = totalSummary + 1 /\ totalSummary <= Limit
  BY DEF AddTotal, MeasuredBounded, Limit
<1>5. MeasuredBounded'
  BY <1>3, <1>4, LimitType DEF MeasuredBounded, Limit, SummaryTypeOK
<1>6. ASSUME NEW d \in Callers, cpc'[d] = "write"
      PROVE  held'[d] <= Limit'
  <2>1. d # c /\ cpc[d] = "write" /\ held'[d] = held[d]
    BY <1>6 DEF AddTotal, SummaryTypeOK
  <2>2. held[d] <= Limit
    BY <2>1 DEF HeldBounded, Limit
  <2> QED
    BY <2>1, <2>2, <1>3, LimitType DEF SummaryTypeOK
<1> QED
  BY <1>5, <1>6 DEF HeldBounded, Limit

(* A caller that reads holds what the counter shows.                       *)
LEMMA ReadKeepsBound ==
  ASSUME MeasuredInv, NEW c \in Callers, ReadTotal(c)
  PROVE  (MeasuredBounded /\ HeldBounded)'
<1> USE DEF MeasuredInv
<1>1. Adding' = Adding /\ Limit' = Limit
  BY DEF ReadTotal, SummaryTypeOK, Adding, Limit
<1>2. MeasuredBounded'
  BY <1>1 DEF ReadTotal, MeasuredBounded, Limit
<1>3. ASSUME NEW d \in Callers, cpc'[d] = "write"
      PROVE  held'[d] <= Limit'
  <2>1. CASE d = c
    BY <2>1, <1>1 DEF ReadTotal, SummaryTypeOK, MeasuredBounded, Limit
  <2>2. CASE d # c
    BY <2>2, <1>1, <1>3 DEF ReadTotal, SummaryTypeOK, HeldBounded, Limit
  <2> QED
    BY <2>1, <2>2
<1> QED
  BY <1>2, <1>3 DEF HeldBounded, Limit

(* The inductive step: one case per action.                                *)
LEMMA MeasuredStep == MeasuredInv /\ [Next]_summaryVars => MeasuredInv'
<1> SUFFICES ASSUME MeasuredInv, [Next]_summaryVars
             PROVE  MeasuredInv'
  OBVIOUS
<1>1. SummaryTypeOK'
  BY TypeStep DEF MeasuredInv
<1> SUFFICES (MeasuredBounded /\ HeldBounded)'
  BY <1>1 DEF MeasuredInv
<1>2. ASSUME NEW c \in Callers, Record(c)
      PROVE  (MeasuredBounded /\ HeldBounded)'
  <2>1. CASE RecordRamp(c)
    BY <2>1 DEF RecordRamp, MeasuredInv, MeasuredBounded, HeldBounded, Adding
  <2>2. CASE ReadTotal(c)
    BY <2>2, ReadKeepsBound
  <2>3. CASE WriteTotal(c)
    BY <2>3, <1>1, WriteKeepsBound
  <2>4. CASE AddTotal(c)
    BY <2>4, <1>1, AddKeepsBound
  <2> QED
    BY <1>2, <2>1, <2>2, <2>3, <2>4 DEF Record
<1>3. CASE EndRamp
  BY <1>3 DEF EndRamp, MeasuredInv, MeasuredBounded, HeldBounded, Adding
<1>4. CASE UNCHANGED summaryVars
  BY <1>4 DEF summaryVars, MeasuredInv, MeasuredBounded, HeldBounded, Adding
<1> QED
  BY <1>2, <1>3, <1>4 DEF Next

(* For any number of goroutines that record events without a lock, and any *)
(* interleaving of their reads and writes, the summary shows at most two   *)
(* actions per recorded event, plus one for each event being recorded      *)
(* (recordCompletedAction).                                                *)
THEOREM SummaryBound == Spec => []MeasuredBounded
<1>1. MeasuredInv => MeasuredBounded
  BY DEF MeasuredInv
<1> QED
  BY <1>1, MeasuredInit, MeasuredStep, PTL DEF Spec
=============================================================================
