----------------------------- MODULE BatchProofs -----------------------------
(***************************************************************************)
(* What BatchEvents promises, for every number of workers, nodes and       *)
(* actions per loop, any batches, and every fault its configuration        *)
(* allows.                                                                 *)
(*                                                                         *)
(* An event is acknowledged only with its whole batch, once every          *)
(* goroutine of the batch is done, and a goroutine of a worker's event is  *)
(* done only by handing it over (DoneMeansTaken, AckedInv).                *)
(*                                                                         *)
(* The refinement needs more: while no acknowledgement has been lost no    *)
(* event comes twice, and while no foreign or garbled event has been sent  *)
(* only events of the worker's actions release it (StraysKnown).  So the   *)
(* events a worker has received in its loop are as many as it has counted  *)
(* (OnceInv), and when the count is full they are all of them.             *)
(***************************************************************************)
EXTENDS BatchEvents, FiniteSetTheorems, TLAPS

(* Types, with the domain that TypeOK leaves open.                         *)
TypeInv == TypeOK /\ DOMAIN task = Nodes

(* What an event is made of.                                               *)
LEMMA OwnFields ==
  \A w, l, k : /\ Own(w, l, k).kind = "own" /\ Own(w, l, k).worker = w
               /\ Own(w, l, k).loop = l /\ Own(w, l, k).index = k
BY DEF Own

LEMMA StrayFields ==
  \A kind, w : Stray(kind, w).kind = kind /\ Stray(kind, w).worker = w
BY DEF Stray

(* The events there are: those of the actions, and the strays.             *)
OwnEventsOf(w) == {Own(w, l, k) : l \in 0 .. MaxLoops[w] - 1,
                                  k \in 0 .. ActionsPerLoop - 1}
StrayEvents == {Stray(kind, w) : kind \in StrayKinds, w \in Workers}

LEMMA EventsAre ==
  \A e : e \in Events <=> (\E w \in Workers : e \in OwnEventsOf(w))
                         \/ e \in StrayEvents
<1> DEFINE O == UNION {OwnEventsOf(w) : w \in Workers}
<1>1. Events = O \cup StrayEvents
  <2>1. O = UNION {{Own(w, l, k) : l \in 0 .. MaxLoops[w] - 1,
                                   k \in 0 .. ActionsPerLoop - 1} :
                      w \in Workers}
    BY DEF OwnEventsOf
  <2> QED
    BY <2>1 DEF Events, StrayEvents
<1>2. \A e : e \in O <=> \E w \in Workers : e \in OwnEventsOf(w)
  OBVIOUS
<1> HIDE DEF O
<1> QED
  BY <1>1, <1>2

(* Events of actions and strays are events.                                *)
LEMMA OwnIsEvent ==
  ASSUME NEW w \in Workers, NEW l \in 0 .. MaxLoops[w] - 1,
         NEW k \in 0 .. ActionsPerLoop - 1
  PROVE  Own(w, l, k) \in Events
<1>1. Own(w, l, k) \in OwnEventsOf(w)
  BY DEF OwnEventsOf
<1> QED
  BY <1>1, EventsAre

LEMMA StrayIsEvent ==
  \A kind \in StrayKinds, w \in Workers : Stray(kind, w) \in Events
<1>1. \A kind \in StrayKinds, w \in Workers : Stray(kind, w) \in StrayEvents
  BY DEF StrayEvents
<1> QED
  BY <1>1, EventsAre

(* An event of kind "own" is of some worker, loop and index.               *)
LEMMA OwnEvent ==
  ASSUME NEW e \in Events, e.kind = "own"
  PROVE  /\ e = Own(e.worker, e.loop, e.index) /\ e.worker \in Workers
         /\ e.loop \in 0 .. MaxLoops[e.worker] - 1
         /\ e.index \in 0 .. ActionsPerLoop - 1
<1>1. ASSUME NEW kind \in StrayKinds, NEW w, e = Stray(kind, w) PROVE FALSE
  BY <1>1, StrayFields DEF StrayKinds, ReleaseKinds
<1>2. PICK w \in Workers : e \in OwnEventsOf(w)
  BY <1>1, EventsAre DEF StrayEvents
<1>3. PICK l \in 0 .. MaxLoops[w] - 1, k \in 0 .. ActionsPerLoop - 1 :
        e = Own(w, l, k)
  BY <1>2 DEF OwnEventsOf
<1>4. e.worker = w /\ e.loop = l /\ e.index = k
  BY <1>3, OwnFields
<1> QED
  BY <1>3, <1>4

(* Every event names a worker that exists.                                 *)
LEMMA EventWorker == \A e \in Events : e.worker \in Workers
<1> SUFFICES ASSUME NEW e \in Events PROVE e.worker \in Workers
  OBVIOUS
<1>1. CASE e \in StrayEvents
  BY <1>1, StrayFields DEF StrayEvents
<1>2. ASSUME NEW w \in Workers, e \in OwnEventsOf(w) PROVE e.worker \in Workers
  BY <1>2, OwnFields DEF OwnEventsOf
<1> QED
  BY <1>1, <1>2, EventsAre

(* The numbers per loop.                                                   *)
LEMMA PerLoop == confirmationsPerLoop \in Nat /\ ActionsPerLoop \in Nat \ {0}
<1>1. Cardinality(Nodes) \in Nat /\ ActionsPerLoop \in Nat \ {0}
  BY FS_CardinalityType, BatchAssumption
<1>2. \A a, b \in Nat : a * b \in Nat
  OBVIOUS
<1> QED
  BY <1>1, <1>2 DEF confirmationsPerLoop

(* The first state has the types.                                          *)
LEMMA InitType == Init => TypeInv
<1> SUFFICES ASSUME Init PROVE TypeInv
  OBVIOUS
<1>1. /\ submitted \in [Workers -> 0 .. ActionsPerLoop]
      /\ confirmations \in [Workers -> 0 .. confirmationsPerLoop]
  BY PerLoop DEF Init
<1>2. \A n \in Nodes : Batch(n) = {} /\ epc[n] # "wait"
  BY DEF Init, Batch, NoBatch
<1> QED
  BY <1>1, <1>2 DEF Init, TypeInv, TypeOK

(* Where the batch goroutines are, and what is left alone.                 *)
TaskOK(n) ==
  /\ Batch(n) \subseteq pending[n]
  /\ epc[n] # "wait" => Batch(n) = {}
  /\ \A e \in Batch(n) : task[n][e] \in {"start", "send", "done", "failed"}

FlagsOK == stopping \in BOOLEAN /\ ctxDone \in BOOLEAN

WorkersOK ==
  /\ loop \in [Workers -> Nat]
  /\ submitted \in [Workers -> 0 .. ActionsPerLoop]
  /\ confirmations \in [Workers -> 0 .. confirmationsPerLoop]
  /\ gone \subseteq Workers

EventsOK ==
  /\ pending \in [Nodes -> SUBSET Events] /\ taken \subseteq Nodes \X Events
  /\ faults \subseteq Faults

LoopsOK == /\ epc \in [Nodes -> {"receive", "wait", "dead", "closed"}]
           /\ DOMAIN task = Nodes /\ \A n \in Nodes : TaskOK(n)

LEMMA TypeParts == TypeInv <=> FlagsOK /\ WorkersOK /\ EventsOK /\ LoopsOK
<1>1. (\A n \in Nodes : TaskOK(n)) <=>
        \A n \in Nodes :
          /\ Batch(n) \subseteq pending[n]
          /\ epc[n] # "wait" => Batch(n) = {}
          /\ \A e \in Batch(n) :
               task[n][e] \in {"start", "send", "done", "failed"}
  BY Zenon DEF TaskOK
<1> QED
  BY <1>1, Zenon DEF TypeInv, TypeOK, FlagsOK, WorkersOK, EventsOK, LoopsOK

(* The same of the next state.                                             *)
LEMMA TypePartsNext ==
  TypeInv' <=> FlagsOK' /\ WorkersOK' /\ EventsOK' /\ LoopsOK'
<1>1. (TypeInv <=> FlagsOK /\ WorkersOK /\ EventsOK /\ LoopsOK)'
  BY TypeParts, PTL
<1> QED
  BY <1>1

(* When a node gets a new set of goroutines, that is its batch.            *)
LEMMA BatchIs ==
  ASSUME TypeInv, NEW n \in Nodes, NEW t, task' = [task EXCEPT ![n] = t]
  PROVE  /\ DOMAIN task' = Nodes /\ Batch(n)' = DOMAIN t /\ task'[n] = t
         /\ \A m \in Nodes : m # n =>
              Batch(m)' = Batch(m) /\ task'[m] = task[m]
BY DEF TypeInv, Batch

(* A step of one goroutine changes its own place only.                     *)
LEMMA TaskSet ==
  ASSUME TypeInv, NEW n \in Nodes, NEW e \in Batch(n), NEW s,
         task' = [task EXCEPT ![n][e] = s]
  PROVE  /\ DOMAIN task' = Nodes /\ Batch(n)' = Batch(n)
         /\ \A x \in Batch(n) : x # e => task'[n][x] = task[n][x]
         /\ \A m \in Nodes : m # n =>
              Batch(m)' = Batch(m) /\ task'[m] = task[m]
BY DEF TypeInv, Batch

(* Every step keeps the types.                                             *)
LEMMA NextType == TypeInv /\ [Next]_vars => TypeInv'
<1> SUFFICES ASSUME TypeInv, [Next]_vars PROVE TypeInv'
  OBVIOUS
<1>0. FlagsOK /\ WorkersOK /\ EventsOK /\ LoopsOK
  BY TypeParts
<1>a. UNCHANGED <<stopping, ctxDone>> => FlagsOK'
  BY <1>0 DEF FlagsOK
<1>b. UNCHANGED workerVars => WorkersOK'
  BY <1>0 DEF WorkersOK, workerVars, confirmationsPerLoop
<1>c. UNCHANGED <<pending, taken, faults>> => EventsOK'
  BY <1>0 DEF EventsOK
<1>d. ASSUME UNCHANGED loopVars,
             \A n \in Nodes : pending[n] \subseteq pending'[n]
      PROVE  LoopsOK'
  BY <1>0, <1>d DEF LoopsOK, TaskOK, Batch, loopVars
<1>1. ASSUME NEW w \in Workers, Submit(w) PROVE TypeInv'
  <2>1. submitted' \in [Workers -> 0 .. ActionsPerLoop]
    BY <1>0, <1>1, PerLoop DEF Submit, WorkersOK
  <2>2. WorkersOK'
    BY <1>0, <1>1, <2>1 DEF Submit, WorkersOK, confirmationsPerLoop
  <2>3. loop[w] \in Nat /\ loop[w] < MaxLoops[w] /\ MaxLoops[w] \in Nat
        /\ submitted[w] \in 0 .. ActionsPerLoop /\ submitted[w] < ActionsPerLoop
    BY <1>0, <1>1, BatchAssumption DEF Submit, WorkersOK
  <2>4. /\ loop[w] \in 0 .. MaxLoops[w] - 1
        /\ submitted[w] \in 0 .. ActionsPerLoop - 1
    BY <2>3, PerLoop
  <2>5. EventsOK'
    BY <1>0, <1>1, <2>4, OwnIsEvent DEF Submit, EventsOK
  <2>6. \A n \in Nodes : pending[n] \subseteq pending'[n]
    BY <1>1 DEF Submit
  <2> QED
    BY <1>1, <1>a, <1>d, <2>2, <2>5, <2>6, TypePartsNext DEF Submit
<1>2. ASSUME NEW w \in Workers, FinishLoop(w) \/ StopWorker(w) PROVE TypeInv'
  <2>1. loop' \in [Workers -> Nat]
    BY <1>0, <1>2 DEF FinishLoop, StopWorker, WorkersOK
  <2>2. submitted' \in [Workers -> 0 .. ActionsPerLoop]
    BY <1>0, <1>2, PerLoop DEF FinishLoop, StopWorker, WorkersOK
  <2>3. confirmations' \in [Workers -> 0 .. confirmationsPerLoop]
    BY <1>0, <1>2, PerLoop DEF FinishLoop, StopWorker, WorkersOK
  <2>4. WorkersOK'
    BY <1>0, <1>2, <2>1, <2>2, <2>3 DEF FinishLoop, StopWorker, WorkersOK,
       confirmationsPerLoop
  <2> QED
    BY <1>2, <1>a, <1>c, <1>d, <2>4, TypePartsNext DEF FinishLoop, StopWorker
<1>3. ASSUME NEW n \in Nodes, ReceiveBatch(n) PROVE TypeInv'
  <2>1. PICK B \in SUBSET pending[n] :
          task' = [task EXCEPT ![n] = [e \in B |-> "start"]]
    BY <1>3 DEF ReceiveBatch
  <2>2. epc' = [epc EXCEPT ![n] = "wait"] /\ pending' = pending
    BY <1>3 DEF ReceiveBatch
  <2>3. DOMAIN task' = Nodes /\ Batch(n)' = B
        /\ task'[n] = [e \in B |-> "start"]
        /\ \A m \in Nodes : m # n => Batch(m)' = Batch(m) /\ task'[m] = task[m]
    BY <2>1, BatchIs
  <2>4. TaskOK(n)'
    BY <1>0, <2>2, <2>3 DEF LoopsOK, TaskOK
  <2>5. LoopsOK'
    BY <1>0, <2>2, <2>3, <2>4 DEF LoopsOK, TaskOK
  <2> QED
    BY <1>3, <1>a, <1>b, <1>c, <2>5, TypePartsNext DEF ReceiveBatch
<1>4. ASSUME NEW n \in Nodes, NEW s \in {"receive", "dead", "closed"},
             EndLoop(n, s),
             \A m \in Nodes : m # n => pending'[m] = pending[m]
      PROVE  LoopsOK'
  <2>1. Batch(n)' = {} /\ DOMAIN task' = Nodes
        /\ \A m \in Nodes : m # n => Batch(m)' = Batch(m) /\ task'[m] = task[m]
    BY <1>4, BatchIs DEF EndLoop, NoBatch
  <2>2. epc' = [epc EXCEPT ![n] = s]
    BY <1>4 DEF EndLoop
  <2> QED
    BY <1>0, <1>4, <2>1, <2>2 DEF LoopsOK, TaskOK
<1>13. ASSUME NEW n \in Nodes, LoseConnection(n) PROVE TypeInv'
  <2>1. /\ EndLoop(n, "dead") /\ UNCHANGED <<pending, taken>>
        /\ UNCHANGED <<stopping, ctxDone, workerVars>>
    BY <1>13 DEF LoseConnection
  <2>2. EventsOK'
    BY <1>0, <1>13, <2>1 DEF LoseConnection, Inject, EventsOK
  <2> QED
    BY <1>4, <1>a, <1>b, <2>1, <2>2, TypePartsNext
<1>5. ASSUME NEW n \in Nodes, FailBatch(n) \/ CloseLoop(n) PROVE TypeInv'
  <2>1. PICK s \in {"dead", "closed"} : EndLoop(n, s)
    BY <1>5 DEF FailBatch, CloseLoop
  <2>2. UNCHANGED <<stopping, ctxDone, workerVars, pending, taken, faults>>
    BY <1>5 DEF FailBatch, CloseLoop
  <2> QED
    BY <1>4, <1>a, <1>b, <1>c, <2>1, <2>2, TypePartsNext
<1>6. ASSUME NEW n \in Nodes, AckBatch(n) PROVE TypeInv'
  <2>1. /\ EndLoop(n, "receive")
        /\ UNCHANGED <<stopping, ctxDone, workerVars, taken>>
    BY <1>6 DEF AckBatch
  <2>2. pending' = pending \/ pending' = [pending EXCEPT ![n] = @ \ Batch(n)]
    BY <1>6 DEF AckBatch
  <2>3. faults' \subseteq Faults
    BY <1>0, <1>6 DEF AckBatch, Inject, EventsOK
  <2>4. EventsOK' /\ \A m \in Nodes : m # n => pending'[m] = pending[m]
    BY <1>0, <2>1, <2>2, <2>3 DEF EventsOK
  <2> QED
    BY <1>4, <1>a, <1>b, <2>1, <2>4, TypePartsNext
<1>7. ASSUME NEW n \in Nodes, NEW e \in Batch(n),
             NEW s \in {"send", "done", "failed"}, SetTask(n, e, s),
             UNCHANGED <<epc, pending>>
      PROVE  LoopsOK'
  <2>1. /\ DOMAIN task' = Nodes /\ Batch(n)' = Batch(n) /\ task'[n][e] = s
        /\ \A x \in Batch(n) : x # e => task'[n][x] = task[n][x]
        /\ \A m \in Nodes : m # n => Batch(m)' = Batch(m) /\ task'[m] = task[m]
    <3>1. task' = [task EXCEPT ![n][e] = s]
      BY <1>7 DEF SetTask
    <3>2. DOMAIN task' = Nodes
      BY <3>1, TaskSet
    <3>3. Batch(n)' = Batch(n)
      BY <3>1, TaskSet
    <3>4. task'[n][e] = s
      BY <1>0, <3>1 DEF LoopsOK, Batch
    <3>5. \A x \in Batch(n) : x # e => task'[n][x] = task[n][x]
      BY <3>1, TaskSet
    <3>6. \A m \in Nodes : m # n => Batch(m)' = Batch(m) /\ task'[m] = task[m]
      BY <3>1, TaskSet
    <3> QED
      BY <3>2, <3>3, <3>4, <3>5, <3>6
  <2>2. TaskOK(n)'
    BY <1>0, <1>7, <2>1 DEF LoopsOK, TaskOK
  <2>3. \A m \in Nodes : m # n => TaskOK(m)'
    BY <1>0, <1>7, <2>1 DEF LoopsOK, TaskOK
  <2> QED
    BY <1>0, <1>7, <2>1, <2>2, <2>3 DEF LoopsOK
<1>8. ASSUME NEW n \in Nodes, NEW e \in Batch(n),
             FilterFails(n, e) \/ HandleEvent(n, e)
      PROVE  TypeInv'
  <2>1. PICK s \in {"send", "done", "failed"} : SetTask(n, e, s)
    BY <1>8 DEF FilterFails, HandleEvent
  <2>2. UNCHANGED <<stopping, workerVars, pending, epc, taken, faults>>
    BY <1>8 DEF FilterFails, HandleEvent
  <2>3. FlagsOK'
    <3>1. ctxDone' = ctxDone \/ ctxDone' = (ctxDone \/ e.kind = "protocol_error")
      BY <1>8 DEF FilterFails, HandleEvent
    <3> QED
      BY <1>0, <2>2, <3>1, Zenon DEF FlagsOK
  <2> QED
    BY <1>7, <1>b, <1>c, <2>1, <2>2, <2>3, TypePartsNext
<1>9. ASSUME NEW n \in Nodes, NEW e \in Batch(n), HandOver(n, e)
      PROVE  TypeInv'
  <2>1. e \in Events
    BY <1>0 DEF LoopsOK, TaskOK, EventsOK
  <2>2. e.worker \in Workers
    BY <2>1, EventWorker
  <2>3. confirmations' \in [Workers -> 0 .. confirmationsPerLoop]
    BY <1>0, <1>9, <2>2, PerLoop DEF HandOver, AwaitsEvent, WorkersOK
  <2>4. WorkersOK'
    BY <1>0, <1>9, <2>3 DEF HandOver, WorkersOK, confirmationsPerLoop
  <2>5. EventsOK'
    BY <1>0, <1>9, <2>1 DEF HandOver, EventsOK
  <2> QED
    BY <1>9, <1>7, <1>a, <2>4, <2>5, TypePartsNext DEF HandOver
<1>10. ASSUME NEW n \in Nodes, NEW kind \in StrayKinds,
             NEW w \in Workers, EmitStray(n, kind, w)
       PROVE  TypeInv'
  <2>1. Stray(kind, w) \in Events
    BY StrayIsEvent
  <2>2. EventsOK' /\ \A m \in Nodes : pending[m] \subseteq pending'[m]
    BY <1>0, <1>10, <2>1 DEF EmitStray, Inject, EventsOK
  <2> QED
    BY <1>10, <1>a, <1>b, <1>d, <2>2, TypePartsNext DEF EmitStray
<1>11. CASE StopTest
  <2>1. FlagsOK'
    BY <1>0, <1>11 DEF StopTest, FlagsOK
  <2> QED
    BY <1>11, <1>b, <1>c, <1>d, <2>1, TypePartsNext DEF StopTest
<1>12. CASE UNCHANGED vars
  BY <1>12, <1>a, <1>b, <1>c, <1>d, TypePartsNext DEF vars
<1> QED
  BY <1>1, <1>2, <1>3, <1>5, <1>6, <1>8, <1>9, <1>10, <1>11, <1>12,
     <1>13 DEF Next, WorkerStep, LoopStep, EventGoroutine

(* Types hold in every behaviour: a batch is of events not yet             *)
(* acknowledged, and there is one only while its goroutines are awaited.   *)
THEOREM BatchTypeCorrect == Spec => []TypeOK
<1>1. TypeInv => TypeOK
  BY DEF TypeInv
<1> QED
  BY <1>1, InitType, NextType, PTL DEF Spec
-----------------------------------------------------------------------------
(* Events are of actions that have been submitted, and come to the workers *)
(* only through the goroutine of a batch.                                  *)
Submitted(w, l, k) == l < loop[w] \/ (l = loop[w] /\ k < submitted[w])

SubmittedInv ==
  \A n \in Nodes : \A e \in Events :
    e.kind = "own" /\ (e \in pending[n] \/ <<n, e>> \in taken)
      => Submitted(e.worker, e.loop, e.index)

(* A goroutine whose event has no subscription does not succeed, and one   *)
(* of a worker's event succeeds by the hand-over, unless the test stops.   *)
DoneMeansTaken ==
  \A n \in Nodes : \A e \in Batch(n) :
    /\ e.kind = "unknown_sub" => task[n][e] \in {"start", "failed"}
    /\ e.kind = "own" /\ task[n][e] = "done" /\ ~stopping /\ ~NoWaitSubmission
         => <<n, e>> \in taken

(* AckedWasTaken, for any loop number.                                     *)
AckedInv ==
  ~stopping /\ ~NoWaitSubmission =>
    \A n \in Nodes, w \in Workers :
         \A l \in Nat, k \in 0 .. ActionsPerLoop - 1 :
      Submitted(w, l, k) =>
        Own(w, l, k) \in pending[n] \/ <<n, Own(w, l, k)>> \in taken

(* An event that is of no action is there only after its fault.            *)
StraysKnown ==
  \A n \in Nodes : \A e \in pending[n] : e.kind = "own" \/ e.kind \in faults

BatchInv ==
  TypeInv /\ SubmittedInv /\ StraysKnown /\ DoneMeansTaken /\ AckedInv

(* What the types say of the loops.                                        *)
LEMMA BatchTypes ==
  ASSUME TypeInv
  PROVE  /\ loop \in [Workers -> Nat]
         /\ submitted \in [Workers -> 0 .. ActionsPerLoop]
         /\ pending \in [Nodes -> SUBSET Events] /\ DOMAIN task = Nodes
         /\ \A n \in Nodes : Batch(n) \subseteq pending[n]
BY DEF TypeInv, TypeOK

(* What the types say of the counters.                                     *)
LEMMA Counters ==
  ASSUME TypeInv, NEW w \in Workers
  PROVE  /\ loop[w] \in Nat /\ submitted[w] \in Nat
         /\ submitted[w] <= ActionsPerLoop
BY BatchTypes, PerLoop

(* What Submit and FinishLoop make submitted.                              *)
LEMMA SubmitAdds ==
  ASSUME TypeInv, NEW w \in Workers, Submit(w), NEW v \in Workers,
         NEW l \in Nat, NEW k \in Nat
  PROVE  Submitted(v, l, k)' <=>
           Submitted(v, l, k) \/ (v = w /\ l = loop[w] /\ k = submitted[w])
<1>1. CASE v = w
  <2>1. submitted'[w] = submitted[w] + 1 /\ loop'[w] = loop[w]
    BY BatchTypes DEF Submit
  <2>2. Submitted(w, l, k)' <=>
          l < loop[w] \/ (l = loop[w] /\ k < submitted[w] + 1)
    BY <2>1 DEF Submitted
  <2>3. k < submitted[w] + 1 <=> k < submitted[w] \/ k = submitted[w]
    BY Counters
  <2> QED
    BY <1>1, <2>2, <2>3 DEF Submitted
<1>2. CASE v # w
  <2>1. submitted'[v] = submitted[v] /\ loop'[v] = loop[v]
    BY <1>2, BatchTypes DEF Submit
  <2> QED
    BY <1>2, <2>1 DEF Submitted
<1> QED
  BY <1>1, <1>2

LEMMA FinishSubmits ==
  ASSUME TypeInv, NEW w \in Workers, FinishLoop(w), NEW v \in Workers,
         NEW l \in Nat, NEW k \in 0 .. ActionsPerLoop - 1
  PROVE  Submitted(v, l, k)' <=> Submitted(v, l, k)
<1>1. CASE v = w
  <2>1. /\ submitted'[w] = 0 /\ loop'[w] = loop[w] + 1
        /\ submitted[w] = ActionsPerLoop
    BY BatchTypes DEF FinishLoop
  <2>2. Submitted(w, l, k) <=> l <= loop[w]
    BY <2>1, Counters, PerLoop DEF Submitted
  <2>3. Submitted(w, l, k)' <=> l < loop[w] + 1
    BY <2>1, PerLoop DEF Submitted
  <2>4. l <= loop[w] <=> l < loop[w] + 1
    BY Counters
  <2> QED
    BY <1>1, <2>2, <2>3, <2>4
<1>2. CASE v # w
  <2>1. submitted'[v] = submitted[v] /\ loop'[v] = loop[v]
    BY <1>2, BatchTypes DEF FinishLoop
  <2> QED
    BY <2>1 DEF Submitted
<1> QED
  BY <1>1, <1>2

(* The numbers in the event of an action.                                  *)
LEMMA OwnIndices ==
  ASSUME NEW e \in Events, e.kind = "own"
  PROVE  e.worker \in Workers /\ e.loop \in Nat /\ e.index \in Nat
         /\ e.index \in 0 .. ActionsPerLoop - 1
<1>1. /\ e.worker \in Workers /\ MaxLoops[e.worker] \in Nat
      /\ e.loop \in 0 .. MaxLoops[e.worker] - 1
      /\ e.index \in 0 .. ActionsPerLoop - 1
  BY OwnEvent, BatchAssumption
<1> QED
  BY <1>1, PerLoop

(* An event exists only once its action has been submitted.                *)
LEMMA NextSubmitted ==
  ASSUME TypeInv, SubmittedInv, [Next]_vars
  PROVE  SubmittedInv'
<1>1. ASSUME NEW w \in Workers, Submit(w) PROVE SubmittedInv'
  <2> SUFFICES ASSUME NEW n \in Nodes, NEW e \in Events, e.kind = "own",
                      e \in pending'[n] \/ <<n, e>> \in taken'
               PROVE  Submitted(e.worker, e.loop, e.index)'
    BY DEF SubmittedInv
  <2>1. /\ taken' = taken
        /\ pending'[n] = pending[n] \cup {Own(w, loop[w], submitted[w])}
    BY <1>1 DEF Submit
  <2>2. CASE e = Own(w, loop[w], submitted[w])
    <3>1. e.worker = w /\ e.loop = loop[w] /\ e.index = submitted[w]
      BY <2>2, OwnFields
    <3>2. e.worker \in Workers /\ e.loop \in Nat /\ e.index \in Nat
      BY OwnIndices
    <3> QED
      BY <1>1, <3>1, <3>2, SubmitAdds
  <2>3. CASE e \in pending[n] \/ <<n, e>> \in taken
    <3>1. Submitted(e.worker, e.loop, e.index)
      BY <2>3 DEF SubmittedInv
    <3>2. e.worker \in Workers /\ e.loop \in Nat /\ e.index \in Nat
      BY OwnIndices
    <3> QED
      BY <1>1, <3>1, <3>2, SubmitAdds
  <2> QED
    BY <2>1, <2>2, <2>3
<1>2. ASSUME NEW w \in Workers, FinishLoop(w) PROVE SubmittedInv'
  <2>1. UNCHANGED <<pending, taken>>
    BY <1>2 DEF FinishLoop
  <2> QED
    BY <1>2, <2>1, FinishSubmits, OwnIndices DEF SubmittedInv
<1>3. ASSUME UNCHANGED <<loop, submitted>>,
             \A n \in Nodes : \A e \in Events :
               e.kind = "own" /\ (e \in pending'[n] \/ <<n, e>> \in taken')
                 => e \in pending[n] \/ <<n, e>> \in taken
      PROVE  SubmittedInv'
  BY <1>3 DEF SubmittedInv, Submitted
<1>4. ASSUME UNCHANGED <<loop, submitted, pending, taken>> PROVE SubmittedInv'
  BY <1>3, <1>4
<1>5. ASSUME NEW n \in Nodes, LoopStep(n) PROVE SubmittedInv'
  <2>1. UNCHANGED <<loop, submitted, taken>>
    BY <1>5 DEF LoopStep, ReceiveBatch, FailBatch, AckBatch, CloseLoop,
       workerVars
  <2>2. pending' = pending \/ pending' = [pending EXCEPT ![n] = @ \ Batch(n)]
    BY <1>5 DEF LoopStep, ReceiveBatch, FailBatch, AckBatch, CloseLoop
  <2>3. \A m \in Nodes : pending'[m] \subseteq pending[m]
    BY <2>2, BatchTypes
  <2> QED
    BY <1>3, <2>1, <2>3
<1>6. ASSUME NEW n \in Nodes, NEW e \in Batch(n),
             FilterFails(n, e) \/ HandleEvent(n, e)
      PROVE  SubmittedInv'
  BY <1>4, <1>6 DEF FilterFails, HandleEvent, workerVars
<1>7. ASSUME NEW n \in Nodes, NEW e \in Batch(n), HandOver(n, e)
      PROVE  SubmittedInv'
  <2>1. /\ UNCHANGED <<loop, submitted, pending>>
        /\ taken' = taken \cup {<<n, e>>}
    BY <1>7 DEF HandOver
  <2>2. e \in pending[n]
    BY BatchTypes
  <2> QED
    BY <1>3, <2>1, <2>2
<1>8. ASSUME NEW n \in Nodes, NEW kind \in StrayKinds,
             NEW w \in Workers, EmitStray(n, kind, w)
      PROVE  SubmittedInv'
  <2>1. UNCHANGED <<loop, submitted, taken>>
        /\ pending' = [pending EXCEPT ![n] = @ \cup {Stray(kind, w)}]
    BY <1>8 DEF EmitStray, workerVars
  <2>2. Stray(kind, w).kind # "own"
    BY StrayFields DEF StrayKinds, ReleaseKinds
  <2>3. \A m \in Nodes : \A e \in pending'[m] :
             e \in pending[m] \/ e = Stray(kind, w)
    BY <2>1, BatchTypes
  <2> QED
    BY <1>3, <2>1, <2>2, <2>3
<1>9. ASSUME NEW w \in Workers, StopWorker(w) PROVE SubmittedInv'
  BY <1>4, <1>9 DEF StopWorker
<1>11. ASSUME NEW n \in Nodes, LoseConnection(n) PROVE SubmittedInv'
  BY <1>4, <1>11 DEF LoseConnection, workerVars
<1>10. CASE StopTest \/ UNCHANGED vars
  BY <1>4, <1>10 DEF StopTest, vars, workerVars
<1> QED
  BY <1>1, <1>2, <1>5, <1>6, <1>7, <1>8, <1>9, <1>10, <1>11
     DEF Next, WorkerStep, EventGoroutine

(* Faults do not go away.                                                  *)
LEMMA FaultsGrow == [Next]_vars => faults \subseteq faults'
<1>1. [Next]_vars =>
        UNCHANGED faults \/ \E n, kind : Inject(n, kind)
  BY DEF Next, WorkerStep, Submit, FinishLoop, StopWorker, LoopStep,
     ReceiveBatch, FailBatch, AckBatch, CloseLoop, LoseConnection,
     EventGoroutine, FilterFails, HandleEvent, HandOver, EmitStray, StopTest,
     vars
<1> QED
  BY <1>1 DEF Inject

(* No stray event comes without its fault.                                 *)
LEMMA NextStrays ==
  ASSUME TypeInv, StraysKnown, [Next]_vars
  PROVE  StraysKnown'
<1>1. ASSUME \A n \in Nodes : \A e \in pending'[n] :
               e \in pending[n] \/ e.kind = "own" \/ e.kind \in faults'
      PROVE  StraysKnown'
  BY <1>1, FaultsGrow DEF StraysKnown
<1>2. ASSUME NEW w \in Workers, Submit(w) PROVE StraysKnown'
  <2>1. \A n \in Nodes :
          pending'[n] = pending[n] \cup {Own(w, loop[w], submitted[w])}
    BY <1>2 DEF Submit
  <2> QED
    BY <1>1, <2>1, OwnFields
<1>3. ASSUME NEW n \in Nodes, NEW kind \in StrayKinds,
             NEW w \in Workers, EmitStray(n, kind, w)
      PROVE  StraysKnown'
  <2>1. /\ kind \in faults'
        /\ \A m \in Nodes : \A e \in pending'[m] :
             e \in pending[m] \/ e = Stray(kind, w)
    BY <1>3, BatchTypes DEF EmitStray, Inject
  <2> QED
    BY <1>1, <2>1, StrayFields
<1>4. ASSUME NEW n \in Nodes, AckBatch(n) PROVE StraysKnown'
  <2>1. pending' = pending \/ pending' = [pending EXCEPT ![n] = @ \ Batch(n)]
    BY <1>4 DEF AckBatch
  <2>2. \A m \in Nodes : pending'[m] \subseteq pending[m]
    BY <2>1, BatchTypes
  <2> QED
    BY <1>1, <2>2
<1>5. CASE UNCHANGED pending
  BY <1>1, <1>5
<1>6. \/ UNCHANGED pending \/ \E w \in Workers : Submit(w)
      \/ \E n \in Nodes : AckBatch(n)
      \/ \E n \in Nodes, kind \in StrayKinds, w \in Workers :
           EmitStray(n, kind, w)
  BY DEF Next, WorkerStep, LoopStep, EventGoroutine, FinishLoop, StopWorker,
     ReceiveBatch, FailBatch, CloseLoop, LoseConnection, FilterFails,
     HandleEvent, HandOver, StopTest, vars
<1> QED
  BY <1>2, <1>3, <1>4, <1>5, <1>6
-----------------------------------------------------------------------------
(* The goroutines of a batch.                                              *)
LEMMA NextDone ==
  ASSUME TypeInv, DoneMeansTaken, [Next]_vars
  PROVE  DoneMeansTaken'
<1> DEFINE
      Done(n, e) ==
        /\ e.kind = "unknown_sub" => task[n][e] \in {"start", "failed"}
        /\ e.kind = "own" /\ task[n][e] = "done" /\ ~stopping
             /\ ~NoWaitSubmission => <<n, e>> \in taken
<1>0. DoneMeansTaken <=> \A n \in Nodes : \A e \in Batch(n) : Done(n, e)
  BY DEF DoneMeansTaken
<1>a. DoneMeansTaken' <=> \A n \in Nodes : \A e \in Batch(n)' : Done(n, e)'
  BY DEF DoneMeansTaken
<1>b. ASSUME NEW n \in Nodes, NEW e \in Batch(n), task'[n][e] = task[n][e],
             stopping => stopping', taken \subseteq taken'
      PROVE  Done(n, e)'
  BY <1>0, <1>b
<1> HIDE DEF Done
<1>1. ASSUME UNCHANGED task, stopping => stopping', taken \subseteq taken'
      PROVE  DoneMeansTaken'
  BY <1>1, <1>a, <1>b DEF Batch
<1>2. ASSUME NEW w \in Workers, WorkerStep(w) PROVE DoneMeansTaken'
  BY <1>1, <1>2 DEF WorkerStep, Submit, FinishLoop, StopWorker, loopVars
<1>3. ASSUME NEW n \in Nodes, UNCHANGED <<stopping, taken>>, NEW t,
             task' = [task EXCEPT ![n] = t],
             \A e \in DOMAIN t : t[e] = "start"
      PROVE  DoneMeansTaken'
  <2>1. \A m \in Nodes : m # n => Batch(m)' = Batch(m) /\ task'[m] = task[m]
    BY <1>3, BatchIs
  <2>2. Batch(n)' = DOMAIN t /\ task'[n] = t
    BY <1>3, BatchIs
  <2>3. ASSUME NEW e \in Batch(n)' PROVE Done(n, e)'
    BY <1>3, <2>2, <2>3 DEF Done
  <2>4. ASSUME NEW m \in Nodes, m # n, NEW e \in Batch(m)' PROVE Done(m, e)'
    BY <1>3, <1>b, <2>1, <2>4
  <2> QED
    BY <1>a, <2>3, <2>4
<1>4. ASSUME NEW n \in Nodes, ReceiveBatch(n) PROVE DoneMeansTaken'
  <2>1. PICK B : task' = [task EXCEPT ![n] = [e \in B |-> "start"]]
    BY <1>4 DEF ReceiveBatch
  <2> DEFINE t == [e \in B |-> "start"]
  <2>2. \A e \in DOMAIN t : t[e] = "start"
    OBVIOUS
  <2>3. UNCHANGED <<stopping, taken>>
    BY <1>4 DEF ReceiveBatch
  <2> HIDE DEF t
  <2> QED
    BY <1>3, <2>1, <2>2, <2>3 DEF t
<1>5. ASSUME NEW n \in Nodes,
             \/ FailBatch(n) \/ AckBatch(n)
             \/ CloseLoop(n) \/ LoseConnection(n)
      PROVE  DoneMeansTaken'
  <2>1. task' = [task EXCEPT ![n] = NoBatch] /\ UNCHANGED <<stopping, taken>>
    BY <1>5 DEF FailBatch, AckBatch, CloseLoop, LoseConnection, EndLoop
  <2>2. \A e \in DOMAIN NoBatch : NoBatch[e] = "start"
    BY DEF NoBatch
  <2> QED
    BY <1>3, <2>1, <2>2
<1>6. ASSUME NEW n \in Nodes, NEW e \in Batch(n), NEW s, SetTask(n, e, s),
             UNCHANGED stopping, taken \subseteq taken',
             e.kind = "unknown_sub" => s = "failed",
             e.kind = "own" /\ s = "done" /\ ~stopping /\ ~NoWaitSubmission
               => <<n, e>> \in taken'
      PROVE  DoneMeansTaken'
  <2>1. task' = [task EXCEPT ![n][e] = s]
    BY <1>6 DEF SetTask
  <2>2. task'[n][e] = s
    BY <2>1, BatchTypes DEF Batch
  <2>3. Done(n, e)'
    BY <1>6, <2>2 DEF Done
  <2>4. Batch(n)' = Batch(n)
        /\ \A x \in Batch(n) : x # e => task'[n][x] = task[n][x]
    BY <2>1, TaskSet
  <2>5. \A m \in Nodes : m # n => Batch(m)' = Batch(m) /\ task'[m] = task[m]
    BY <2>1, TaskSet
  <2>6. ASSUME NEW m \in Nodes, NEW x \in Batch(m)', m # n \/ x # e
        PROVE  Done(m, x)'
    BY <1>6, <1>b, <2>4, <2>5, <2>6
  <2> QED
    BY <1>a, <2>3, <2>6
<1>7. ASSUME NEW n \in Nodes, NEW e \in Batch(n), FilterFails(n, e)
      PROVE  DoneMeansTaken'
  BY <1>6, <1>7 DEF FilterFails
<1>8. ASSUME NEW n \in Nodes, NEW e \in Batch(n), HandleEvent(n, e)
      PROVE  DoneMeansTaken'
  <2> DEFINE s == IF Releases(e) THEN "send" ELSE "done"
  <2>1. /\ SetTask(n, e, s) /\ UNCHANGED <<stopping, taken>>
        /\ e.kind # "unknown_sub"
    BY <1>8 DEF HandleEvent
  <2>2. e.kind = "own" /\ ~stopping /\ ~NoWaitSubmission => s # "done"
    BY DEF Releases, NoWorker
  <2> HIDE DEF s
  <2> QED
    BY <1>6, <2>1, <2>2
<1>9. ASSUME NEW n \in Nodes, NEW e \in Batch(n), HandOver(n, e)
      PROVE  DoneMeansTaken'
  <2>1. /\ SetTask(n, e, "done") /\ e.kind # "unknown_sub"
        /\ taken' = taken \cup {<<n, e>>} /\ UNCHANGED stopping
    BY <1>9 DEF HandOver, ReleaseKinds
  <2> QED
    BY <1>6, <2>1
<1>10. ASSUME NEW n \in Nodes, NEW kind \in StrayKinds,
             NEW w \in Workers, EmitStray(n, kind, w)
       PROVE  DoneMeansTaken'
  BY <1>1, <1>10 DEF EmitStray, loopVars
<1>11. CASE StopTest
  BY <1>1, <1>11 DEF StopTest, loopVars
<1>12. CASE UNCHANGED vars
  BY <1>1, <1>12 DEF vars, loopVars
<1> QED
  BY <1>2, <1>4, <1>5, <1>7, <1>8, <1>9, <1>10, <1>11, <1>12
     DEF Next, LoopStep, EventGoroutine

(* A step that acknowledges no event before its hand-over keeps AckedInv.  *)
LEMMA AckedKept ==
  ASSUME TypeInv, AckedInv, stopping => stopping',
         \A w \in Workers, l \in Nat, k \in 0 .. ActionsPerLoop - 1 :
           Submitted(w, l, k)' => Submitted(w, l, k),
         \A n \in Nodes : \A e \in pending[n] :
           e.kind = "own" /\ ~stopping /\ ~NoWaitSubmission
             => e \in pending'[n] \/ <<n, e>> \in taken',
         taken \subseteq taken'
  PROVE  AckedInv'
<1> SUFFICES ASSUME ~stopping', ~NoWaitSubmission, NEW n \in Nodes,
                    NEW w \in Workers, NEW l \in Nat,
                    NEW k \in 0 .. ActionsPerLoop - 1, Submitted(w, l, k)'
             PROVE  \/ Own(w, l, k) \in pending'[n]
                    \/ <<n, Own(w, l, k)>> \in taken'
  BY DEF AckedInv
<1>1. Own(w, l, k) \in pending[n] \/ <<n, Own(w, l, k)>> \in taken
  BY DEF AckedInv
<1> QED
  BY <1>1, OwnFields

(* An acknowledged event has been handed over.                             *)
LEMMA NextAcked ==
  ASSUME TypeInv, DoneMeansTaken, AckedInv, [Next]_vars
  PROVE  AckedInv'
<1>1. ASSUME NEW w \in Workers, Submit(w) PROVE AckedInv'
  <2> SUFFICES ASSUME ~stopping', ~NoWaitSubmission, NEW n \in Nodes,
                      NEW v \in Workers, NEW l \in Nat,
                      NEW k \in 0 .. ActionsPerLoop - 1, Submitted(v, l, k)'
               PROVE  \/ Own(v, l, k) \in pending'[n]
                      \/ <<n, Own(v, l, k)>> \in taken'
    BY DEF AckedInv
  <2>1. /\ UNCHANGED <<stopping, taken>>
        /\ pending'[n] = pending[n] \cup {Own(w, loop[w], submitted[w])}
    BY <1>1 DEF Submit
  <2>2. k \in Nat
    BY PerLoop
  <2>3. Submitted(v, l, k) \/ (v = w /\ l = loop[w] /\ k = submitted[w])
    BY <1>1, <2>2, SubmitAdds
  <2>4. Submitted(v, l, k) =>
          Own(v, l, k) \in pending[n] \/ <<n, Own(v, l, k)>> \in taken
    BY <2>1 DEF AckedInv
  <2> QED
    BY <2>1, <2>3, <2>4
<1>2. ASSUME NEW w \in Workers, FinishLoop(w) PROVE AckedInv'
  <2>1. UNCHANGED <<stopping, pending, taken>>
    BY <1>2 DEF FinishLoop
  <2>2. \A v \in Workers, l \in Nat, k \in 0 .. ActionsPerLoop - 1 :
          Submitted(v, l, k)' => Submitted(v, l, k)
    BY <1>2, FinishSubmits
  <2> QED
    BY <2>1, <2>2, AckedKept
<1>3. ASSUME UNCHANGED <<loop, submitted>>, stopping => stopping',
             \A n \in Nodes : pending[n] \subseteq pending'[n],
             taken \subseteq taken'
      PROVE  AckedInv'
  <2>1. \A w \in Workers, l \in Nat, k \in 0 .. ActionsPerLoop - 1 :
          Submitted(w, l, k)' => Submitted(w, l, k)
    BY <1>3 DEF Submitted
  <2> QED
    BY <1>3, <2>1, AckedKept
<1>4. ASSUME NEW w \in Workers, StopWorker(w) PROVE AckedInv'
  BY <1>3, <1>4 DEF StopWorker
<1>5. ASSUME NEW n \in Nodes, AckBatch(n) PROVE AckedInv'
  <2>1. UNCHANGED <<loop, submitted, stopping, taken>>
    BY <1>5 DEF AckBatch, workerVars
  <2>2. pending' = pending \/ pending' = [pending EXCEPT ![n] = @ \ Batch(n)]
    BY <1>5 DEF AckBatch
  <2>3. \A e \in Batch(n) : task[n][e] = "done"
    BY <1>5 DEF AckBatch, AllReturned, Failed
  <2>4. ASSUME NEW m \in Nodes, NEW e \in pending[m], e.kind = "own",
               ~stopping, ~NoWaitSubmission
        PROVE  e \in pending'[m] \/ <<m, e>> \in taken'
    <3>1. e \in pending'[m] \/ (m = n /\ e \in Batch(n))
      BY <2>2, BatchTypes
    <3>2. e \in Batch(n) => <<n, e>> \in taken
      BY <2>3, <2>4 DEF DoneMeansTaken
    <3> QED
      BY <2>1, <3>1, <3>2
  <2>5. \A w \in Workers, l \in Nat, k \in 0 .. ActionsPerLoop - 1 :
          Submitted(w, l, k)' => Submitted(w, l, k)
    BY <2>1 DEF Submitted
  <2> QED
    BY <2>1, <2>4, <2>5, AckedKept
<1>6. ASSUME NEW n \in Nodes,
             \/ ReceiveBatch(n) \/ FailBatch(n)
             \/ CloseLoop(n) \/ LoseConnection(n)
      PROVE  AckedInv'
  BY <1>3, <1>6 DEF ReceiveBatch, FailBatch, CloseLoop, LoseConnection,
     workerVars
<1>7. ASSUME NEW n \in Nodes, NEW e \in Batch(n), EventGoroutine(n, e)
      PROVE  AckedInv'
  <2>1. /\ UNCHANGED <<loop, submitted, stopping, pending>>
        /\ taken \subseteq taken'
    BY <1>7 DEF EventGoroutine, FilterFails, HandleEvent, HandOver, workerVars
  <2> QED
    BY <1>3, <2>1
<1>8. ASSUME NEW n \in Nodes, NEW kind \in StrayKinds,
             NEW w \in Workers, EmitStray(n, kind, w)
      PROVE  AckedInv'
  <2>1. UNCHANGED <<loop, submitted, stopping, taken>>
    BY <1>8 DEF EmitStray, workerVars
  <2>2. \A m \in Nodes : pending[m] \subseteq pending'[m]
    BY <1>8, BatchTypes DEF EmitStray
  <2> QED
    BY <1>3, <2>1, <2>2
<1>9. CASE StopTest \/ UNCHANGED vars
  <2>1. /\ UNCHANGED <<loop, submitted, pending, taken>>
        /\ stopping => stopping'
    BY <1>9 DEF StopTest, vars, workerVars
  <2> QED
    BY <1>3, <2>1
<1> QED
  BY <1>1, <1>2, <1>4, <1>5, <1>6, <1>7, <1>8, <1>9
     DEF Next, WorkerStep, LoopStep
-----------------------------------------------------------------------------
(* The first state.                                                        *)
LEMMA InitBatch == Init => BatchInv
<1> SUFFICES ASSUME Init PROVE BatchInv
  OBVIOUS
<1>1. SubmittedInv
  BY DEF Init, SubmittedInv
<1>2. DoneMeansTaken
  BY DEF Init, DoneMeansTaken, Batch, NoBatch
<1>4. StraysKnown
  BY DEF Init, StraysKnown
<1>3. AckedInv
  <2>1. ASSUME NEW w \in Workers, NEW l \in Nat,
               NEW k \in 0 .. ActionsPerLoop - 1
        PROVE  ~Submitted(w, l, k)
    BY PerLoop DEF Init, Submitted
  <2> QED
    BY <2>1 DEF AckedInv
<1> QED
  BY <1>1, <1>2, <1>3, <1>4, InitType DEF BatchInv

(* Every step keeps what AckedWasTaken needs.                              *)
LEMMA NextBatch == BatchInv /\ [Next]_vars => BatchInv'
BY NextType, NextSubmitted, NextStrays, NextDone, NextAcked DEF BatchInv

(* Until the test is stopping, an event is acknowledged only after its     *)
(* worker has got it: an event of a submitted action waits in FireFly or   *)
(* has been handed over.                                                   *)
THEOREM AckedAfterHandOver == Spec => []AckedWasTaken
<1>1. BatchInv => AckedWasTaken
  <2> SUFFICES ASSUME BatchInv, ~stopping, ~NoWaitSubmission,
                      NEW n \in Nodes, NEW w \in Workers,
                      NEW l \in 0 .. loop[w],
                      NEW k \in 0 .. (IF l = loop[w] THEN submitted[w]
                                       ELSE ActionsPerLoop) - 1
               PROVE  \/ Own(w, l, k) \in pending[n]
                      \/ <<n, Own(w, l, k)>> \in taken
    BY DEF AckedWasTaken
  <2>1. /\ loop[w] \in Nat /\ submitted[w] \in Nat
        /\ submitted[w] <= ActionsPerLoop
    BY Counters DEF BatchInv
  <2>2. l \in Nat /\ k \in 0 .. ActionsPerLoop - 1 /\ Submitted(w, l, k)
    <3>1. CASE l = loop[w]
      BY <3>1, <2>1, PerLoop DEF Submitted
    <3>2. CASE l # loop[w]
      BY <3>2, <2>1, PerLoop DEF Submitted
    <3> QED
      BY <3>1, <3>2
  <2> QED
    BY <2>2 DEF BatchInv, AckedInv
<1> QED
  BY <1>1, InitBatch, NextBatch, PTL DEF Spec
(* An event that could not be handled keeps its batch from being           *)
(* acknowledged.                                                           *)
THEOREM FailedBatchIsKept == Spec => FailedNotAcked
<1> DEFINE A == \A n \in Nodes :
       Unhandled \in Batch(n) /\ pending'[n] # pending[n]
         => Batch(n) \subseteq pending'[n]
<1>1. ASSUME BatchInv, [Next]_vars PROVE A
  <2> SUFFICES ASSUME NEW n \in Nodes, Unhandled \in Batch(n)
               PROVE  Batch(n) \subseteq pending'[n]
    OBVIOUS
  <2> SUFFICES pending[n] \subseteq pending'[n]
    BY <1>1, BatchTypes DEF BatchInv
  <2>1. TypeInv /\ DoneMeansTaken
    BY <1>1 DEF BatchInv
  <2>2. CASE UNCHANGED pending
    BY <2>2
  <2>3. ASSUME NEW w \in Workers, Submit(w)
        PROVE  pending[n] \subseteq pending'[n]
    BY <2>3 DEF Submit
  <2>4. ASSUME NEW m \in Nodes, NEW kind \in StrayKinds,
               NEW w \in Workers, EmitStray(m, kind, w)
        PROVE  pending[n] \subseteq pending'[n]
    BY <2>1, <2>4, BatchTypes DEF EmitStray
  <2>5. ASSUME NEW m \in Nodes, AckBatch(m)
        PROVE  pending[n] \subseteq pending'[n]
    <3>1. m # n
      <4>1. task[n][Unhandled] \in {"start", "failed"}
        BY <2>1, StrayFields DEF DoneMeansTaken, Unhandled
      <4> QED
        BY <2>5, <4>1 DEF AckBatch, AllReturned, Failed
    <3>2. pending' = pending \/ pending' = [pending EXCEPT ![m] = @ \ Batch(m)]
      BY <2>5 DEF AckBatch
    <3> QED
      BY <2>1, <3>1, <3>2, BatchTypes
  <2>6. UNCHANGED pending
          \/ (\E w \in Workers : Submit(w)) \/ (\E m \in Nodes : AckBatch(m))
          \/ (\E m \in Nodes, kind \in StrayKinds, w \in Workers :
                EmitStray(m, kind, w))
    BY <1>1 DEF Next, WorkerStep, LoopStep, EventGoroutine, FinishLoop,
       StopWorker, ReceiveBatch, FailBatch, CloseLoop, LoseConnection,
       FilterFails, HandleEvent, HandOver, StopTest, vars
  <2> QED
    BY <2>2, <2>3, <2>4, <2>5, <2>6
<1>2. BatchInv /\ [Next]_vars => [A]_vars
  BY <1>1
<1> QED
  BY <1>2, InitBatch, NextBatch, PTL DEF Spec, FailedNotAcked
-----------------------------------------------------------------------------
(* As long as no acknowledgement is lost, no event comes twice, and as     *)
(* long as no other event releases it, the events a worker has received    *)
(* in its loop are those it has counted.                                   *)
Received(w) == {p \in Nodes \X (0 .. ActionsPerLoop - 1) :
                  <<p[1], Own(w, loop[w], p[2])>> \in taken}

Counted(w) == confirmations[w] = Cardinality(Received(w))

NotTwice(n) ==
  epc[n] # "dead" =>
    \A e \in pending[n] : e.kind = "own" /\ <<n, e>> \in taken
      => e \in Batch(n) /\ task[n][e] = "done"

(* All the events of its earlier loops have come.                          *)
Complete(w) ==
  \A n \in Nodes : \A l \in Nat, k \in 0 .. ActionsPerLoop - 1 :
    l < loop[w] => <<n, Own(w, l, k)>> \in taken

ReceivedInv == /\ \A w \in Workers : Counted(w) /\ Complete(w)
               /\ \A n \in Nodes : NotTwice(n)

OnceInv == /\ BatchInv /\ NoWaitSubmission = FALSE
           /\ faults \cap Unsafe = {} => ReceivedInv

(* A worker receives finitely many events in a loop.                       *)
LEMMA ReceivedFinite ==
  /\ IsFiniteSet(Nodes \X (0 .. ActionsPerLoop - 1))
  /\ Cardinality(Nodes \X (0 .. ActionsPerLoop - 1))
       = ActionsPerLoop * Cardinality(Nodes)
  /\ \A w : IsFiniteSet(Received(w))
<1>1. /\ IsFiniteSet(0 .. ActionsPerLoop - 1) /\ IsFiniteSet(Nodes)
      /\ Cardinality(0 .. ActionsPerLoop - 1) = ActionsPerLoop
  <2>1. IsFiniteSet(Nodes)
    BY BatchAssumption
  <2>2. /\ IsFiniteSet(0 .. ActionsPerLoop - 1)
        /\ Cardinality(0 .. ActionsPerLoop - 1) = ActionsPerLoop
    BY FS_Interval, PerLoop
  <2> QED
    BY <2>1, <2>2
<1>2. /\ IsFiniteSet(Nodes \X (0 .. ActionsPerLoop - 1))
      /\ Cardinality(Nodes \X (0 .. ActionsPerLoop - 1))
           = Cardinality(Nodes) * ActionsPerLoop
  BY <1>1, FS_Product
<1>3. Cardinality(Nodes) * ActionsPerLoop = ActionsPerLoop * Cardinality(Nodes)
  <2>1. \A a, b \in Nat : a * b = b * a
    OBVIOUS
  <2> QED
    BY <1>1, <2>1, PerLoop, FS_CardinalityType
<1>4. \A w : Received(w) \subseteq Nodes \X (0 .. ActionsPerLoop - 1)
  BY DEF Received
<1> QED
  BY <1>2, <1>3, <1>4, FS_Subset

(* The events received, in this state and the next.                        *)
LEMMA ReceivedIs ==
  ASSUME NEW w
  PROVE  /\ \A n, k : <<n, k>> \in Received(w) <=>
                        /\ n \in Nodes /\ k \in 0 .. ActionsPerLoop - 1
                        /\ <<n, Own(w, loop[w], k)>> \in taken
         /\ \A p \in Received(w) : p = <<p[1], p[2]>>
BY DEF Received

LEMMA ReceivedIsNext ==
  ASSUME NEW w
  PROVE  /\ \A n, k : <<n, k>> \in Received(w)' <=>
                        /\ n \in Nodes /\ k \in 0 .. ActionsPerLoop - 1
                        /\ <<n, Own(w, loop'[w], k)>> \in taken'
         /\ \A p \in Received(w)' : p = <<p[1], p[2]>>
BY DEF Received

(* Sets of pairs are the same when their pairs are.                        *)
LEMMA SamePairs ==
  ASSUME NEW S, NEW T, \A p \in S : p = <<p[1], p[2]>>,
         \A p \in T : p = <<p[1], p[2]>>,
         \A n, k : <<n, k>> \in S <=> <<n, k>> \in T
  PROVE  S = T
OBVIOUS

(* A worker that finishes its loop has received all its events.            *)
LEMMA FinishedHasAll ==
  ASSUME TypeInv, ReceivedInv, NoWaitSubmission = FALSE,
         NEW w \in Workers, FinishLoop(w)
  PROVE  \A n \in Nodes, k \in 0 .. ActionsPerLoop - 1 :
           <<n, Own(w, loop[w], k)>> \in taken
<1>1. confirmations[w] = ActionsPerLoop * Cardinality(Nodes)
  BY DEF FinishLoop, confirmationsPerLoop
<1>2. Cardinality(Received(w)) = ActionsPerLoop * Cardinality(Nodes)
  BY <1>1 DEF ReceivedInv, Counted
<1>3. Received(w) \subseteq Nodes \X (0 .. ActionsPerLoop - 1)
  BY DEF Received
<1>4. Received(w) = Nodes \X (0 .. ActionsPerLoop - 1)
  BY <1>2, <1>3, ReceivedFinite, FS_Subset
<1>5. \A n \in Nodes, k \in 0 .. ActionsPerLoop - 1 : <<n, k>> \in Received(w)
  BY <1>4
<1> QED
  BY <1>5, ReceivedIs

(* The event a worker is handed is of its current loop, and new to it.     *)
LEMMA HandedIsCurrent ==
  ASSUME BatchInv, ReceivedInv, faults \cap Unsafe = {},
         NEW n \in Nodes, NEW e \in Batch(n), HandOver(n, e)
  PROVE  /\ <<n, e>> \notin taken
         /\ e.worker \in Workers /\ e = Own(e.worker, loop[e.worker], e.index)
         /\ e.index \in 0 .. ActionsPerLoop - 1
<1>0. /\ e \in pending[n] /\ e \in Events /\ epc[n] # "dead"
      /\ task[n][e] = "send"
  BY DEF BatchInv, TypeInv, TypeOK, HandOver
<1>1. /\ e \in pending[n] /\ e \in Events /\ epc[n] # "dead"
      /\ task[n][e] = "send" /\ e.kind = "own"
  BY <1>0 DEF BatchInv, StraysKnown, HandOver, Unsafe
<1>2. <<n, e>> \notin taken
  BY <1>1 DEF ReceivedInv, NotTwice
<1>3. /\ e = Own(e.worker, e.loop, e.index) /\ e.worker \in Workers
      /\ e.loop \in Nat /\ e.index \in 0 .. ActionsPerLoop - 1
  BY <1>1, OwnEvent, OwnIndices
<1>4. Submitted(e.worker, e.loop, e.index)
  BY <1>1 DEF BatchInv, SubmittedInv
<1>5. ~(e.loop < loop[e.worker])
  BY <1>2, <1>3 DEF ReceivedInv, Complete
<1>6. e.loop = loop[e.worker]
  BY <1>4, <1>5 DEF Submitted
<1> QED
  BY <1>2, <1>3, <1>6

(* Workers a step leaves alone keep their counts.                          *)
LEMMA CountKept ==
  ASSUME ReceivedInv, NEW w \in Workers,
         loop'[w] = loop[w], confirmations'[w] = confirmations[w],
         \A n \in Nodes, k \in 0 .. ActionsPerLoop - 1 :
           <<n, Own(w, loop[w], k)>> \in taken' <=>
             <<n, Own(w, loop[w], k)>> \in taken
  PROVE  Counted(w)'
<1>1. \A n, k : <<n, k>> \in Received(w)' <=> <<n, k>> \in Received(w)
  BY ReceivedIs, ReceivedIsNext
<1>2. Received(w)' = Received(w)
  BY <1>1, ReceivedIs, ReceivedIsNext, SamePairs
<1> QED
  BY <1>2 DEF ReceivedInv, Counted

(* Events once received stay received.                                     *)
LEMMA CompleteKept ==
  ASSUME ReceivedInv, NEW w \in Workers, loop'[w] = loop[w],
         taken \subseteq taken'
  PROVE  Complete(w)'
BY DEF ReceivedInv, Complete

(* One new event that was not handed over before: none comes twice.        *)
LEMMA OnceKept ==
  ASSUME ReceivedInv, NEW n \in Nodes, taken' = taken,
         \/ pending'[n] \subseteq pending[n]
         \/ \E e : /\ pending'[n] = pending[n] \cup {e}
                   /\ e.kind = "own" => <<n, e>> \notin taken,
         epc[n] = "dead" => epc'[n] = "dead",
         \A e \in Batch(n) : task[n][e] = "done" =>
           e \notin pending'[n] \/ epc'[n] = "dead"
             \/ (e \in Batch(n)' /\ task'[n][e] = "done")
  PROVE  NotTwice(n)'
<1> SUFFICES ASSUME epc'[n] # "dead", NEW e \in pending'[n], e.kind = "own",
                    <<n, e>> \in taken
             PROVE  e \in Batch(n)' /\ task'[n][e] = "done"
  BY DEF NotTwice
<1>1. e \in pending[n]
  <2>1. CASE pending'[n] \subseteq pending[n]
    BY <2>1
  <2>2. ASSUME NEW x, pending'[n] = pending[n] \cup {x},
               x.kind = "own" => <<n, x>> \notin taken
        PROVE  e \in pending[n]
    BY <2>2
  <2> QED
    BY <2>1, <2>2
<1>2. e \in Batch(n) /\ task[n][e] = "done"
  BY <1>1 DEF ReceivedInv, NotTwice
<1> QED
  BY <1>2

(* Every step keeps the counts, as long as nothing unsafe has happened.    *)
LEMMA NextReceived ==
  ASSUME BatchInv, faults' \cap Unsafe = {},
         faults \cap Unsafe = {} => ReceivedInv,
         NoWaitSubmission = FALSE, [Next]_vars
  PROVE  ReceivedInv'
<1>1. ReceivedInv /\ TypeInv /\ faults \cap Unsafe = {}
  BY FaultsGrow DEF BatchInv
<1>2. ASSUME UNCHANGED <<loop, confirmations, taken>>,
             \A n \in Nodes : NotTwice(n)'
      PROVE  ReceivedInv'
  BY <1>1, <1>2, CountKept, CompleteKept DEF ReceivedInv
<1>3. ASSUME UNCHANGED <<pending, epc, task, taken>>, NEW n \in Nodes
      PROVE  NotTwice(n)'
  BY <1>1, <1>3 DEF ReceivedInv, NotTwice, Batch
<1>4. ASSUME NEW w \in Workers, Submit(w) PROVE ReceivedInv'
  <2>1. ASSUME NEW n \in Nodes
        PROVE <<n, Own(w, loop[w], submitted[w])>> \notin taken
    <3> DEFINE e == Own(w, loop[w], submitted[w])
    <3>1. /\ e.kind = "own" /\ e.worker = w /\ e.loop = loop[w]
          /\ e.index = submitted[w]
      BY OwnFields
    <3>2. ~Submitted(w, loop[w], submitted[w])
      BY <1>1, Counters DEF Submitted
    <3>3. taken \subseteq Nodes \X Events
      BY <1>1 DEF TypeInv, TypeOK
    <3> HIDE DEF e
    <3>4. <<n, e>> \in taken => e \in Events
      BY <3>3
    <3>5. <<n, e>> \notin taken
      BY <3>1, <3>2, <3>4 DEF BatchInv, SubmittedInv
    <3> QED
      BY <3>5 DEF e
  <2>2. /\ UNCHANGED <<loop, confirmations, taken, epc, task>>
        /\ \A n \in Nodes :
             pending'[n] = pending[n] \cup {Own(w, loop[w], submitted[w])}
    BY <1>4 DEF Submit, loopVars
  <2>3. ASSUME NEW n \in Nodes PROVE NotTwice(n)'
    BY <1>1, <2>1, <2>2, OnceKept DEF Batch
  <2> QED
    BY <1>2, <2>2, <2>3
<1>5. ASSUME NEW w \in Workers, FinishLoop(w) PROVE ReceivedInv'
  <2>1. /\ UNCHANGED <<pending, epc, task, taken>>
        /\ loop' = [loop EXCEPT ![w] = @ + 1] /\ loop \in [Workers -> Nat]
        /\ confirmations' = [confirmations EXCEPT ![w] = 0]
        /\ DOMAIN confirmations = Workers
    BY <1>1, <1>5, BatchTypes DEF FinishLoop, loopVars, TypeInv, TypeOK
  <2>2. Received(w)' = {}
    <3>1. ASSUME NEW p \in Received(w)' PROVE FALSE
      <4> DEFINE e == Own(w, loop[w] + 1, p[2])
      <4>1. <<p[1], e>> \in taken /\ p[1] \in Nodes
        BY <2>1, <3>1 DEF Received
      <4>2. /\ e.kind = "own" /\ e.worker = w /\ e.loop = loop[w] + 1
        BY OwnFields
      <4>3. taken \subseteq Nodes \X Events
        BY <1>1 DEF TypeInv, TypeOK
      <4> HIDE DEF e
      <4>4. e \in Events
        BY <4>1, <4>3
      <4>5. Submitted(w, loop[w] + 1, e.index)
        BY <4>1, <4>2, <4>4 DEF BatchInv, SubmittedInv
      <4> QED
        BY <2>1, <4>5 DEF Submitted
    <3> QED
      BY <3>1
  <2>3. Counted(w)'
    BY <2>1, <2>2, FS_EmptySet DEF Counted
  <2>4. Complete(w)'
    <3> SUFFICES ASSUME NEW n \in Nodes, NEW l \in Nat,
                        NEW k \in 0 .. ActionsPerLoop - 1, l < loop[w] + 1
                 PROVE  <<n, Own(w, l, k)>> \in taken
      BY <2>1 DEF Complete
    <3>1. l < loop[w] \/ l = loop[w]
      BY <2>1
    <3> QED
      BY <1>1, <1>5, <3>1, FinishedHasAll DEF ReceivedInv, Complete
  <2>5. ASSUME NEW v \in Workers, v # w PROVE Counted(v)' /\ Complete(v)'
    BY <1>1, <2>1, <2>5, CountKept, CompleteKept
  <2> QED
    BY <1>3, <2>1, <2>3, <2>4, <2>5 DEF ReceivedInv
<1>6. ASSUME NEW w \in Workers, StopWorker(w) PROVE ReceivedInv'
  BY <1>2, <1>3, <1>6 DEF StopWorker, loopVars
<1>7. ASSUME NEW n \in Nodes, LoopStep(n) PROVE ReceivedInv'
  <2>1. UNCHANGED <<loop, confirmations, taken>>
    BY <1>7 DEF LoopStep, ReceiveBatch, FailBatch, AckBatch, CloseLoop,
       workerVars
  <2>2. /\ \E t : task' = [task EXCEPT ![n] = t]
        /\ \A m \in Nodes : m # n =>
             pending'[m] = pending[m] /\ epc'[m] = epc[m]
    BY <1>1, <1>7, BatchTypes DEF LoopStep, ReceiveBatch, FailBatch, AckBatch,
       CloseLoop, EndLoop, TypeInv, TypeOK
  <2>3. ASSUME NEW m \in Nodes, m # n PROVE NotTwice(m)'
    <3>1. Batch(m)' = Batch(m) /\ task'[m] = task[m]
      BY <1>1, <2>2, <2>3, BatchIs
    <3> QED
      BY <1>1, <2>1, <2>2, <2>3, <3>1, OnceKept
  <2>4. /\ pending'[n] \subseteq pending[n]
        /\ epc[n] = "dead" => epc'[n] = "dead"
    BY <1>1, <1>7, BatchTypes DEF LoopStep, ReceiveBatch, FailBatch, AckBatch,
       CloseLoop
  <2>5. ASSUME NEW e \in Batch(n)
        PROVE  e \notin pending'[n] \/ epc'[n] = "dead"
    <3>1. epc[n] = "wait"
      BY <1>1 DEF TypeInv, TypeOK
    <3>2. CASE FailBatch(n)
      BY <1>1, <3>2 DEF FailBatch, EndLoop, TypeInv, TypeOK
    <3>3. CASE AckBatch(n)
      <4>1. pending' = [pending EXCEPT ![n] = @ \ Batch(n)]
        BY <3>3 DEF AckBatch, Inject, Unsafe
      <4> QED
        BY <1>1, <4>1, BatchTypes
    <3> QED
      BY <1>7, <3>1, <3>2, <3>3 DEF LoopStep, ReceiveBatch, CloseLoop
  <2>6. NotTwice(n)'
    BY <1>1, <2>1, <2>4, <2>5, OnceKept
  <2> QED
    BY <1>2, <2>1, <2>3, <2>6
<1>8. ASSUME NEW n \in Nodes, NEW e \in Batch(n), NEW s,
             task' = [task EXCEPT ![n][e] = s],
             task[n][e] # "done", UNCHANGED <<pending, epc, taken>>,
             NEW m \in Nodes
      PROVE  NotTwice(m)'
  <2>1. /\ Batch(n)' = Batch(n)
        /\ \A x \in Batch(n) : x # e => task'[n][x] = task[n][x]
    BY <1>1, <1>8, TaskSet
  <2>2. m # n => Batch(m)' = Batch(m) /\ task'[m] = task[m]
    BY <1>1, <1>8, TaskSet
  <2> QED
    BY <1>1, <1>8, <2>1, <2>2, OnceKept
<1>9. ASSUME NEW n \in Nodes, NEW e \in Batch(n),
             FilterFails(n, e) \/ HandleEvent(n, e)
      PROVE  ReceivedInv'
  <2>1. PICK s : task' = [task EXCEPT ![n][e] = s]
    BY <1>9 DEF FilterFails, HandleEvent, SetTask
  <2>2. task[n][e] # "done" /\ UNCHANGED <<pending, epc, taken>>
        /\ UNCHANGED <<loop, confirmations, taken>>
    BY <1>9 DEF FilterFails, HandleEvent, workerVars
  <2> QED
    BY <1>2, <1>8, <2>1, <2>2
<1>10. ASSUME NEW n \in Nodes, NEW e \in Batch(n), HandOver(n, e)
       PROVE  ReceivedInv'
  <2> DEFINE w == e.worker
  <2>1. /\ w \in Workers /\ e = Own(w, loop[w], e.index)
        /\ e.index \in 0 .. ActionsPerLoop - 1 /\ <<n, e>> \notin taken
    BY <1>1, <1>10, HandedIsCurrent
  <2>2. /\ UNCHANGED <<loop, pending, epc>> /\ taken' = taken \cup {<<n, e>>}
        /\ confirmations' = [confirmations EXCEPT ![w] = @ + 1]
        /\ DOMAIN confirmations = Workers
        /\ task' = [task EXCEPT ![n][e] = "done"]
    BY <1>1, <1>10 DEF HandOver, SetTask, TypeInv, TypeOK
  <2> HIDE DEF w
  <2>3. Counted(w)'
    <3>1. Received(w)' = Received(w) \cup {<<n, e.index>>}
      <4>1. \A m, k : <<m, k>> \in Received(w)' <=>
                         <<m, k>> \in Received(w) \/ <<m, k>> = <<n, e.index>>
        <5>1. \A m, k : <<m, Own(w, loop[w], k)>> = <<n, e>> <=>
                           <<m, k>> = <<n, e.index>>
          BY <2>1, OwnFields
        <5>2. <<n, e.index>> \in Received(w)'
          BY <2>1, <2>2, ReceivedIsNext
        <5>3. ASSUME NEW m, NEW k, <<m, k>> # <<n, e.index>>
              PROVE  <<m, k>> \in Received(w)' <=> <<m, k>> \in Received(w)
          <6>1. <<m, Own(w, loop[w], k)>> \in taken' <=>
                  <<m, Own(w, loop[w], k)>> \in taken
            BY <2>2, <5>1, <5>3
          <6> QED
            BY <2>2, <6>1, ReceivedIs, ReceivedIsNext
        <5> QED
          BY <5>2, <5>3
      <4> QED
        BY <4>1, ReceivedIs, ReceivedIsNext
    <3>2. <<n, e.index>> \notin Received(w)
      BY <2>1, ReceivedIs
    <3>3. Cardinality(Received(w)') = Cardinality(Received(w)) + 1
      BY <3>1, <3>2, ReceivedFinite, FS_AddElement
    <3> QED
      BY <1>1, <2>1, <2>2, <3>3 DEF ReceivedInv, Counted
  <2>4. ASSUME NEW v \in Workers, v # w PROVE Counted(v)'
    <3>1. \A m, k : <<m, Own(v, loop[v], k)>> # <<n, e>>
      BY <2>1, <2>4, OwnFields
    <3>2. confirmations'[v] = confirmations[v] /\ loop'[v] = loop[v]
      BY <2>2, <2>4
    <3>3. \A m \in Nodes, k \in 0 .. ActionsPerLoop - 1 :
            <<m, Own(v, loop[v], k)>> \in taken' <=>
              <<m, Own(v, loop[v], k)>> \in taken
      BY <2>2, <3>1
    <3> QED
      BY <1>1, <3>2, <3>3, CountKept
  <2>5. ASSUME NEW v \in Workers PROVE Complete(v)'
    BY <1>1, <2>2, CompleteKept
  <2>6. ASSUME NEW m \in Nodes PROVE NotTwice(m)'
    <3>1. /\ Batch(n)' = Batch(n)
          /\ \A x \in Batch(n) : x # e => task'[n][x] = task[n][x]
      BY <1>1, <2>2, TaskSet
    <3>2. task'[n][e] = "done"
      BY <1>1, <2>2, BatchTypes DEF Batch
    <3>3. m # n => Batch(m)' = Batch(m) /\ task'[m] = task[m]
      BY <1>1, <2>2, TaskSet
    <3>4. CASE m # n
      <4>1. \A x : <<m, x>> \in taken' => <<m, x>> \in taken
        BY <2>2, <3>4
      <4> QED
        BY <1>1, <2>2, <3>3, <3>4, <4>1 DEF ReceivedInv, NotTwice
    <3>5. CASE m = n
      <4>1. \A x : <<n, x>> \in taken' => <<n, x>> \in taken \/ x = e
        BY <2>2
      <4> QED
        BY <1>1, <2>2, <3>1, <3>2, <3>5, <4>1 DEF ReceivedInv, NotTwice
    <3> QED
      BY <3>4, <3>5
  <2> QED
    BY <2>3, <2>4, <2>5, <2>6 DEF ReceivedInv
<1>11. ASSUME NEW n \in Nodes, NEW kind \in StrayKinds,
             NEW w \in Workers, EmitStray(n, kind, w)
       PROVE  ReceivedInv'
  <2>1. UNCHANGED <<loop, confirmations, taken, epc, task>>
        /\ pending' = [pending EXCEPT ![n] = @ \cup {Stray(kind, w)}]
    BY <1>11 DEF EmitStray, workerVars, loopVars
  <2>2. Stray(kind, w).kind # "own"
    BY StrayFields DEF StrayKinds, ReleaseKinds
  <2>3. \A m \in Nodes : \A e \in pending'[m] :
             e \in pending[m] \/ e = Stray(kind, w)
    BY <1>1, <2>1, BatchTypes
  <2>4. ASSUME NEW m \in Nodes PROVE NotTwice(m)'
    BY <1>1, <2>1, <2>2, <2>3 DEF ReceivedInv, NotTwice, Batch
  <2> QED
    BY <1>2, <2>1, <2>4
<1>12. CASE StopTest \/ UNCHANGED vars
  BY <1>2, <1>3, <1>12 DEF StopTest, vars, workerVars, loopVars
<1>13. ASSUME NEW n \in Nodes, LoseConnection(n) PROVE ReceivedInv'
  <2>1. /\ UNCHANGED <<loop, confirmations, taken, pending>>
        /\ task' = [task EXCEPT ![n] = NoBatch]
        /\ epc' = [epc EXCEPT ![n] = "dead"]
    BY <1>13 DEF LoseConnection, EndLoop, workerVars
  <2>2. epc'[n] = "dead" /\ \A m \in Nodes : m # n => epc'[m] = epc[m]
    BY <1>1, <2>1 DEF TypeInv, TypeOK
  <2>3. ASSUME NEW m \in Nodes, m # n PROVE NotTwice(m)'
    <3>1. Batch(m)' = Batch(m) /\ task'[m] = task[m]
      BY <1>1, <2>1, <2>3, BatchIs
    <3> QED
      BY <1>1, <2>1, <2>2, <2>3, <3>1, OnceKept
  <2>4. NotTwice(n)'
    BY <2>2 DEF NotTwice
  <2> QED
    BY <1>2, <2>1, <2>3, <2>4
<1> QED
  BY <1>4, <1>5, <1>6, <1>7, <1>9, <1>10, <1>11, <1>12, <1>13
     DEF Next, WorkerStep, EventGoroutine
-----------------------------------------------------------------------------
(* The closed loop: what a worker is owed, under the refinement mapping.   *)
Owed(w) == {c \in (0 .. submitted[w] - 1) \X Nodes :
              <<c[2], Own(w, loop[w], c[1])>> \notin taken}
AllOwed == [w \in Workers |-> Owed(w)]

(* What is owed, in this state and the next.                               *)
LEMMA OwedIs ==
  ASSUME NEW w
  PROVE  /\ \A k, n : <<k, n>> \in Owed(w) <=>
                        /\ k \in 0 .. submitted[w] - 1 /\ n \in Nodes
                        /\ <<n, Own(w, loop[w], k)>> \notin taken
         /\ \A c \in Owed(w) : c = <<c[1], c[2]>>
BY DEF Owed

LEMMA OwedIsNext ==
  ASSUME NEW w
  PROVE  /\ \A k, n : <<k, n>> \in Owed(w)' <=>
                        /\ k \in 0 .. submitted'[w] - 1 /\ n \in Nodes
                        /\ <<n, Own(w, loop'[w], k)>> \notin taken'
         /\ \A c \in Owed(w)' : c = <<c[1], c[2]>>
BY DEF Owed

(* Nobody is owed anything else when no counter and no delivery changes.   *)
LEMMA OwedKept ==
  ASSUME NEW w, loop'[w] = loop[w], submitted'[w] = submitted[w],
         \A n, k : <<n, Own(w, loop[w], k)>> \in taken' <=>
                     <<n, Own(w, loop[w], k)>> \in taken
  PROVE  Owed(w)' = Owed(w)
<1>1. \A k, n : <<k, n>> \in Owed(w)' <=> <<k, n>> \in Owed(w)
  BY OwedIs, OwedIsNext
<1> QED
  BY <1>1, OwedIs, OwedIsNext, SamePairs

IssueStep(w) ==
  /\ submitted[w] < ActionsPerLoop
  /\ submitted' = [submitted EXCEPT ![w] = @ + 1]
  /\ AllOwed' = [AllOwed EXCEPT ![w] = @ \cup ({submitted[w]} \X Nodes)]
  /\ loop' = loop

ConfirmStep(w) ==
  /\ \E c \in AllOwed[w] : AllOwed' = [AllOwed EXCEPT ![w] = @ \ {c}]
  /\ UNCHANGED <<loop, submitted>>

RoundStep(w) ==
  /\ submitted[w] = ActionsPerLoop /\ AllOwed[w] = {}
  /\ loop' = [loop EXCEPT ![w] = @ + 1]
  /\ submitted' = [submitted EXCEPT ![w] = 0]
  /\ AllOwed' = AllOwed

StutterStep == UNCHANGED <<loop, submitted, AllOwed>>

(* A submission maps to Issue: all nodes now owe its confirmation.         *)
LEMMA SubmitMaps ==
  ASSUME BatchInv, NEW w \in Workers, Submit(w)
  PROVE  IssueStep(w)
<1>1. /\ submitted' = [submitted EXCEPT ![w] = @ + 1] /\ loop' = loop
      /\ taken' = taken /\ submitted[w] < ActionsPerLoop
      /\ submitted'[w] = submitted[w] + 1 /\ submitted[w] \in Nat
      /\ \A v \in Workers : v # w => submitted'[v] = submitted[v]
  BY BatchTypes, Counters DEF BatchInv, Submit
<1>2. \A n \in Nodes : <<n, Own(w, loop[w], submitted[w])>> \notin taken
  <2> SUFFICES ASSUME NEW n \in Nodes,
                      <<n, Own(w, loop[w], submitted[w])>> \in taken
               PROVE  FALSE
    OBVIOUS
  <2> DEFINE e == Own(w, loop[w], submitted[w])
  <2>1. /\ e.kind = "own" /\ e.worker = w /\ e.loop = loop[w]
        /\ e.index = submitted[w]
    BY OwnFields
  <2>2. taken \subseteq Nodes \X Events
    BY DEF BatchInv, TypeInv, TypeOK
  <2>3. <<n, e>> \in taken
    OBVIOUS
  <2> HIDE DEF e
  <2>4. e \in Events
    BY <2>2, <2>3
  <2>5. Submitted(w, loop[w], submitted[w])
    BY <2>1, <2>3, <2>4 DEF BatchInv, SubmittedInv
  <2> QED
    BY <2>5, Counters DEF Submitted, BatchInv
<1>3. Owed(w)' = Owed(w) \cup ({submitted[w]} \X Nodes)
  <2> DEFINE S == Owed(w) \cup ({submitted[w]} \X Nodes)
  <2>1. \A k : k \in 0 .. submitted[w] <=>
                 k \in 0 .. submitted[w] - 1 \/ k = submitted[w]
    BY <1>1
  <2>2. \A k, n : <<k, n>> \in Owed(w)' <=>
                    /\ k \in 0 .. submitted[w] /\ n \in Nodes
                    /\ <<n, Own(w, loop[w], k)>> \notin taken
    <3>1. submitted'[w] - 1 = submitted[w]
      BY <1>1
    <3> QED
      BY <1>1, <3>1, OwedIsNext
  <2>3. \A k, n : <<k, n>> \in S <=>
                    <<k, n>> \in Owed(w) \/ (k = submitted[w] /\ n \in Nodes)
    OBVIOUS
  <2>4. \A c \in S : c = <<c[1], c[2]>>
    BY OwedIs
  <2> HIDE DEF S
  <2>5. \A k, n : <<k, n>> \in Owed(w)' <=> <<k, n>> \in S
    <3> SUFFICES ASSUME NEW k, NEW n
                 PROVE  <<k, n>> \in Owed(w)' <=> <<k, n>> \in S
      OBVIOUS
    <3>1. CASE k = submitted[w]
      BY <1>1, <1>2, <2>1, <2>2, <2>3, <3>1, OwedIs
    <3>2. CASE k # submitted[w]
      <4>1. <<k, n>> \in Owed(w) <=>
              /\ k \in 0 .. submitted[w] - 1 /\ n \in Nodes
              /\ <<n, Own(w, loop[w], k)>> \notin taken
        BY OwedIs
      <4>2. k \in 0 .. submitted[w] <=> k \in 0 .. submitted[w] - 1
        BY <2>1, <3>2
      <4>3. <<k, n>> \in S <=> <<k, n>> \in Owed(w)
        BY <2>3, <3>2
      <4> QED
        BY <2>2, <4>1, <4>2, <4>3
    <3> QED
      BY <3>1, <3>2
  <2>6. Owed(w)' = S
    BY <2>4, <2>5, OwedIsNext, SamePairs
  <2> QED
    BY <2>6 DEF S
<1>4. \A v \in Workers : v # w => Owed(v)' = Owed(v)
  BY <1>1, OwedKept
<1>5. AllOwed' = [AllOwed EXCEPT ![w] = @ \cup ({submitted[w]} \X Nodes)]
  BY <1>3, <1>4 DEF AllOwed
<1> QED
  BY <1>1, <1>5 DEF IssueStep

(* A hand-over maps to Confirm: that node owes that one no more.           *)
LEMMA HandOverMaps ==
  ASSUME BatchInv, ReceivedInv, faults \cap Unsafe = {},
         NEW n \in Nodes, NEW e \in Batch(n), HandOver(n, e)
  PROVE  ConfirmStep(e.worker)
<1> DEFINE w == e.worker
           c == <<e.index, n>>
<1>1. /\ w \in Workers /\ e = Own(w, loop[w], e.index)
      /\ e.index \in 0 .. ActionsPerLoop - 1 /\ <<n, e>> \notin taken
  BY HandedIsCurrent
<1>2. /\ UNCHANGED <<loop, submitted>> /\ taken' = taken \cup {<<n, e>>}
      /\ submitted[w] = ActionsPerLoop
  BY DEF HandOver, AwaitsEvent
<1> HIDE DEF w
<1>3. c \in Owed(w)
  BY <1>1, <1>2, OwedIs
<1>4. Owed(w)' = Owed(w) \ {c}
  <2>1. \A m, k : <<m, Own(w, loop[w], k)>> = <<n, e>> <=> <<k, m>> = c
    BY <1>1, OwnFields
  <2>2. \A k, m :
          <<k, m>> \in Owed(w)' <=> <<k, m>> \in Owed(w) /\ <<k, m>> # c
    <3> SUFFICES ASSUME NEW k, NEW m
                 PROVE  <<k, m>> \in Owed(w)' <=>
                          <<k, m>> \in Owed(w) /\ <<k, m>> # c
      OBVIOUS
    <3>1. <<m, Own(w, loop[w], k)>> \in taken' <=>
            <<m, Own(w, loop[w], k)>> \in taken \/ <<k, m>> = c
      BY <1>2, <2>1
    <3> HIDE DEF c
    <3> QED
      BY <1>2, <3>1, OwedIs, OwedIsNext
  <2> HIDE DEF c
  <2> QED
    BY <2>2, OwedIs, OwedIsNext, SamePairs
<1>5. ASSUME NEW v \in Workers, v # w PROVE Owed(v)' = Owed(v)
  <2>1. \A m, k : <<m, Own(v, loop[v], k)>> # <<n, e>>
    BY <1>1, <1>5, OwnFields
  <2> QED
    BY <1>2, <2>1, OwedKept
<1>6. AllOwed' = [AllOwed EXCEPT ![w] = @ \ {c}] /\ c \in AllOwed[w]
  BY <1>1, <1>3, <1>4, <1>5 DEF AllOwed
<1> QED
  BY <1>2, <1>6 DEF ConfirmStep, w

(* The end of a loop maps to NextRound: nothing is owed any more.          *)
LEMMA FinishMaps ==
  ASSUME BatchInv, ReceivedInv, NoWaitSubmission = FALSE,
         NEW w \in Workers, FinishLoop(w)
  PROVE  RoundStep(w)
<1>1. /\ loop' = [loop EXCEPT ![w] = @ + 1] /\ taken' = taken
      /\ submitted' = [submitted EXCEPT ![w] = 0]
      /\ submitted[w] = ActionsPerLoop /\ submitted'[w] = 0
      /\ \A v \in Workers : v # w =>
           loop'[v] = loop[v] /\ submitted'[v] = submitted[v]
  BY BatchTypes DEF FinishLoop, BatchInv
<1>2. Owed(w) = {}
  <2>1. \A k, n : <<k, n>> \notin Owed(w)
    BY <1>1, FinishedHasAll, OwedIs DEF BatchInv
  <2> QED
    BY <2>1, OwedIs
<1>3. Owed(w)' = {}
  <2>1. \A k : k \notin 0 .. 0 - 1
    OBVIOUS
  <2>2. \A k, n : <<k, n>> \notin Owed(w)'
    BY <1>1, <2>1, OwedIsNext
  <2> QED
    BY <2>2, OwedIsNext
<1>4. \A v \in Workers : v # w => Owed(v)' = Owed(v)
  BY <1>1, OwedKept
<1>5. AllOwed' = AllOwed /\ AllOwed[w] = {}
  BY <1>2, <1>3, <1>4 DEF AllOwed
<1> QED
  BY <1>1, <1>5 DEF RoundStep

(* Every step maps to a step of the closed loop or a stutter.              *)
LEMMA ClosedLoopStep ==
  ASSUME OnceInv, [Next]_vars, faults \cap Unsafe = {}
  PROVE  \/ \E w \in Workers : IssueStep(w) \/ ConfirmStep(w) \/ RoundStep(w)
         \/ StutterStep
<1>1. BatchInv /\ ReceivedInv /\ NoWaitSubmission = FALSE
  BY DEF OnceInv
<1>2. ASSUME NEW n \in Nodes, NEW e \in Batch(n), HandOver(n, e)
      PROVE  \E w \in Workers : ConfirmStep(w)
  BY <1>1, <1>2, HandOverMaps, HandedIsCurrent
<1>3. ASSUME UNCHANGED <<loop, submitted, taken>> PROVE StutterStep
  BY <1>3, OwedKept DEF StutterStep, AllOwed
<1>4. \/ \E w \in Workers : Submit(w) \/ FinishLoop(w)
      \/ \E n \in Nodes : \E e \in Batch(n) : HandOver(n, e)
      \/ UNCHANGED <<loop, submitted, taken>>
  BY DEF Next, WorkerStep, StopWorker, LoopStep, ReceiveBatch, FailBatch,
     AckBatch, CloseLoop, LoseConnection, EventGoroutine, FilterFails,
     HandleEvent, EmitStray, StopTest, vars, workerVars
<1> QED
  BY <1>1, <1>2, <1>3, <1>4, SubmitMaps, FinishMaps

(* Nothing has been received in the first state.                           *)
LEMMA InitOnce == NoWaitSubmission = FALSE /\ Init => OnceInv
<1> SUFFICES ASSUME Init PROVE ReceivedInv
  BY InitBatch DEF OnceInv
<1>1. ASSUME NEW w \in Workers PROVE Counted(w) /\ Complete(w)
  <2>1. Received(w) = {} /\ confirmations[w] = 0 /\ loop[w] = 0
    BY DEF Init, Received
  <2> QED
    BY <2>1, FS_EmptySet DEF Counted, Complete
<1>2. ASSUME NEW n \in Nodes PROVE NotTwice(n)
  BY DEF Init, NotTwice
<1> QED
  BY <1>1, <1>2 DEF ReceivedInv

(* Every step keeps all of it.                                             *)
LEMMA NextOnce == OnceInv /\ [Next]_vars => OnceInv'
BY NextBatch, NextReceived DEF OnceInv

(* The workers are a closed loop in batch mode too, for any batches and    *)
(* lost connections, as long as no acknowledgement has been lost and no    *)
(* foreign or garbled event has been sent.                                 *)
THEOREM BatchImplementsClosedLoop ==
  NoWaitSubmission = FALSE /\ Spec => ClosedLoopSpec
<1>1. Init => CL!Init
  BY DEF Init, CL!Init
<1>2. OnceInv /\ [Next]_vars
        => [CL!Next \/ faults \cap Unsafe # {}]_(CL!vars)
  <2> SUFFICES ASSUME OnceInv, [Next]_vars, faults \cap Unsafe = {}
               PROVE  CL!Next \/ UNCHANGED CL!vars
    OBVIOUS
  <2>1. ASSUME NEW w \in Workers, IssueStep(w) PROVE CL!Next
    BY <2>1 DEF IssueStep, CL!Next, CL!Issue, AllOwed, Owed
  <2>2. ASSUME NEW w \in Workers, ConfirmStep(w) PROVE CL!Next
    BY <2>2 DEF ConfirmStep, CL!Next, CL!Confirm, AllOwed, Owed
  <2>3. ASSUME NEW w \in Workers, RoundStep(w) PROVE CL!Next
    BY <2>3 DEF RoundStep, CL!Next, CL!NextRound, AllOwed, Owed
  <2>4. CASE StutterStep
    BY <2>4 DEF StutterStep, CL!vars, AllOwed, Owed
  <2> QED
    BY ClosedLoopStep, <2>1, <2>2, <2>3, <2>4
<1> QED
  BY <1>1, <1>2, InitOnce, NextOnce, PTL DEF Spec, ClosedLoopSpec
=============================================================================
