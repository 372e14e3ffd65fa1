----------------------------- MODULE BatchEvents -----------------------------
(***************************************************************************)
(* Batch mode (internal/perf/perf.go): one batchEventLoop per node instead *)
(* of eventLoop.  A batch is handled by one goroutine per event; each      *)
(* filters its event, records it (Summary) and hands it to the worker      *)
(* on the worker's unbuffered channel.  The batch is acknowledged as a     *)
(* whole when all of them have returned, and the loop ends without an      *)
(* acknowledgement when one of them failed.                                *)
(*                                                                         *)
(* The workers are those of runLoop without what the batches do not see:   *)
(* tokens, answers and tracking are in PerfRunner.  FireFly is external:   *)
(* it delivers what is not acknowledged, again after a reconnect.          *)
(***************************************************************************)
EXTENDS Integers, FiniteSets

CONSTANTS
  Nodes,             \* the FireFly nodes
  Workers,           \* the worker goroutines
  ActionsPerLoop,    \* actions a worker submits in parallel per loop
  NoWaitSubmission,  \* cfg.NoWaitSubmission
  Faults,            \* the kinds of fault the environment may inject
  MaxFaults,         \* bound: how many faults in a behaviour
  FaultyNodes,       \* bound: the nodes they happen on
  MaxBatch,          \* bound: events in a batch
  MaxLoops           \* bound: loops of each worker

(* Events that name a worker without being of one of its actions.          *)
ReleaseKinds == {"foreign", "garbled"}
StrayKinds == ReleaseKinds \cup {"unknown_sub", "phantom", "protocol_error"}
FaultKinds == StrayKinds \cup {"lost_ack", "closed"}

ASSUME BatchAssumption ==
  /\ IsFiniteSet(Nodes) /\ IsFiniteSet(Workers) /\ 0 \in Workers
  /\ {ActionsPerLoop, MaxBatch} \subseteq Nat \ {0}
  /\ MaxLoops \in [Workers -> Nat]
  /\ NoWaitSubmission \in BOOLEAN
  /\ Faults \subseteq FaultKinds /\ MaxFaults \in Nat
  /\ FaultyNodes \subseteq Nodes

(* The event a node has for action k of loop l of worker w, and events     *)
(* that are not of this run's actions.  A foreign one carries the number   *)
(* of any worker, and a number that cannot be read is taken for 0.         *)
Own(w, l, k) == [kind |-> "own", worker |-> w, loop |-> l, index |-> k]
Stray(kind, w) == [kind |-> kind, worker |-> w]
Events ==
  (UNION {{Own(w, l, k) : l \in 0 .. MaxLoops[w] - 1,
                          k \in 0 .. ActionsPerLoop - 1} : w \in Workers})
    \cup {Stray(kind, w) : kind \in StrayKinds, w \in Workers}

VARIABLES
  stopping,      \* pr.stopping
  ctxDone,       \* has pr.ctx been cancelled
  loop,          \* loops a worker has completed
  submitted,     \* actions of its loop a worker has submitted
  confirmations, \* confirmations it has received in its loop
  gone,          \* workers that have returned, the context being done
  pending,       \* events a node has not seen acknowledged
  epc,           \* where each batch event loop is
  task,          \* where the goroutine of each event of its batch is
  taken,         \* <<node, event>> a worker has received (history)
  faults         \* the kinds of fault so far

workerVars == <<loop, submitted, confirmations, gone>>
loopVars == <<epc, task>>
vars == <<stopping, ctxDone, workerVars, pending, loopVars, taken, faults>>

Batch(n) == DOMAIN task[n]
NoBatch == [e \in {} |-> "done"]

Inject(n, kind) ==
  /\ n \in FaultyNodes
  /\ kind \in Faults \ faults /\ Cardinality(faults) < MaxFaults
  /\ faults' = faults \cup {kind}

Init ==
  /\ stopping = FALSE /\ ctxDone = FALSE
  /\ loop = [w \in Workers |-> 0]
  /\ submitted = [w \in Workers |-> 0]
  /\ confirmations = [w \in Workers |-> 0]
  /\ gone = {}
  /\ pending = [n \in Nodes |-> {}]
  /\ epc = [n \in Nodes |-> "receive"]
  /\ task = [n \in Nodes |-> NoBatch]
  /\ taken = {} /\ faults = {}
-----------------------------------------------------------------------------
(* The workers, and FireFly taking their actions.                          *)

OneNode == ActionsPerLoop                                        \* mutant
OneTooMany == ActionsPerLoop * Cardinality(Nodes) + 1            \* mutant

confirmationsPerLoop ==
  IF NoWaitSubmission THEN 0 ELSE ActionsPerLoop * Cardinality(Nodes)

Submit(w) ==
  /\ w \notin gone /\ submitted[w] < ActionsPerLoop /\ loop[w] < MaxLoops[w]
  /\ pending' = [n \in Nodes |->
                   pending[n] \cup {Own(w, loop[w], submitted[w])}]
  /\ submitted' = [submitted EXCEPT ![w] = @ + 1]
  /\ UNCHANGED <<stopping, ctxDone, loop, confirmations, gone, loopVars,
                 taken, faults>>

(* The worker is at its receive from wsReceivers.                          *)
AwaitsEvent(w) ==
  /\ w \notin gone /\ submitted[w] = ActionsPerLoop
  /\ confirmations[w] < confirmationsPerLoop

FinishLoop(w) ==
  /\ w \notin gone /\ submitted[w] = ActionsPerLoop
  /\ confirmations[w] = confirmationsPerLoop
  /\ loop' = [loop EXCEPT ![w] = @ + 1]
  /\ submitted' = [submitted EXCEPT ![w] = 0]
  /\ confirmations' = [confirmations EXCEPT ![w] = 0]
  /\ UNCHANGED <<stopping, ctxDone, gone, pending, loopVars, taken, faults>>

(* Between two loops, or waiting for a confirmation, it sees the context.  *)
StopWorker(w) ==
  /\ ctxDone /\ w \notin gone /\ (submitted[w] = 0 \/ AwaitsEvent(w))
  /\ gone' = gone \cup {w}
  /\ UNCHANGED <<stopping, ctxDone, loop, submitted, confirmations, pending,
                 loopVars, taken, faults>>
-----------------------------------------------------------------------------
(* batchEventLoop.                                                         *)

ReceiveBatch(n) ==
  /\ epc[n] = "receive"
  /\ \E B \in SUBSET pending[n] :
       /\ B # {} /\ Cardinality(B) <= MaxBatch
       /\ task' = [task EXCEPT ![n] = [e \in B |-> "start"]]
  /\ epc' = [epc EXCEPT ![n] = "wait"]
  /\ UNCHANGED <<stopping, ctxDone, workerVars, pending, taken, faults>>

SetTask(n, e, s) == task' = [task EXCEPT ![n][e] = s]

(* filterEvent fails on a subscription that is not in the map, and cancels *)
(* the context on a protocol error, without a failure.                     *)
FilterFails(n, e) ==
  /\ e \in Batch(n) /\ task[n][e] = "start" /\ e.kind = "unknown_sub"
  /\ SetTask(n, e, "failed")
  /\ UNCHANGED <<stopping, ctxDone, workerVars, pending, epc, taken, faults>>

NoWorker(e) == e.kind = "protocol_error"

(* Does the goroutine go on to wait for the worker of its event?  (The     *)
(* deprecated SkipMintConfirmations is off, and the prep stage is over.)   *)
Releases(e) == ~stopping /\ ~NoWaitSubmission /\ ~NoWorker(e)

(* filterEvent and recordCompletedAction, then the test before the         *)
(* hand-over.                                                              *)
HandleEvent(n, e) ==
  /\ e \in Batch(n) /\ task[n][e] = "start" /\ e.kind # "unknown_sub"
  /\ ctxDone' = (ctxDone \/ e.kind = "protocol_error")
  /\ SetTask(n, e, IF Releases(e) THEN "send" ELSE "done")
  /\ UNCHANGED <<stopping, workerVars, pending, epc, taken, faults>>

(* The rendezvous with the worker the event names, whatever action it is   *)
(* of.  A worker that does not exist has no channel, and one that is gone  *)
(* never receives: the send blocks for ever.                               *)
HandOver(n, e) ==
  /\ e \in Batch(n) /\ task[n][e] = "send"
  /\ e.kind \in {"own"} \cup ReleaseKinds
  /\ AwaitsEvent(e.worker)
  /\ confirmations' = [confirmations EXCEPT ![e.worker] = @ + 1]
  /\ SetTask(n, e, "done")
  /\ taken' = taken \cup {<<n, e>>}
  /\ UNCHANGED <<stopping, ctxDone, loop, submitted, gone, pending, epc,
                 faults>>

(* g.Wait: all the goroutines have returned.                               *)
AnyDone(n) == \E e \in Batch(n) : task[n][e] = "done"            \* mutant
AllDone(n) == \A e \in Batch(n) : task[n][e] = "done"            \* mutant
AllReturned(n) == \A e \in Batch(n) : task[n][e] \in {"done", "failed"}

NoFailure(n) == FALSE                                            \* mutant
Failed(n) == \E e \in Batch(n) : task[n][e] = "failed"

KeepBatch(n, s) == epc' = [epc EXCEPT ![n] = s] /\ UNCHANGED task \* mutant
EndLoop(n, s) == /\ epc' = [epc EXCEPT ![n] = s]
                 /\ task' = [task EXCEPT ![n] = NoBatch]

FailBatch(n) ==
  /\ epc[n] = "wait" /\ AllReturned(n) /\ Failed(n)
  /\ EndLoop(n, "dead")
  /\ UNCHANGED <<stopping, ctxDone, workerVars, pending, taken, faults>>

(* The acknowledgement names the batch.  After a reconnect FireFly has     *)
(* forgotten it, and delivers the events again.                            *)
AckBatch(n) ==
  /\ epc[n] = "wait" /\ AllReturned(n) /\ ~Failed(n)
  /\ \/ /\ pending' = [pending EXCEPT ![n] = @ \ Batch(n)]
        /\ UNCHANGED faults
     \/ Inject(n, "lost_ack") /\ UNCHANGED pending
  /\ EndLoop(n, "receive")
  /\ UNCHANGED <<stopping, ctxDone, workerVars, taken>>

(* Only at the head of the loop is the context looked at.                  *)
CloseLoop(n) ==
  /\ epc[n] = "receive" /\ ctxDone
  /\ EndLoop(n, "closed")
  /\ UNCHANGED <<stopping, ctxDone, workerVars, pending, taken, faults>>

(* The connection is lost for good: Receive's channel is closed.           *)
LoseConnection(n) ==
  /\ epc[n] = "receive" /\ Inject(n, "closed")
  /\ EndLoop(n, "dead")
  /\ UNCHANGED <<stopping, ctxDone, workerVars, pending, taken>>
-----------------------------------------------------------------------------
(* The environment: the end of the test, and events nobody asked for.      *)

StopTest ==
  /\ ~stopping /\ stopping' = TRUE
  /\ UNCHANGED <<ctxDone, workerVars, pending, loopVars, taken, faults>>

EmitStray(n, kind, w) ==
  /\ kind = "foreign" \/ w = 0
  /\ Inject(n, kind)
  /\ pending' = [pending EXCEPT ![n] = @ \cup {Stray(kind, w)}]
  /\ UNCHANGED <<stopping, ctxDone, workerVars, loopVars, taken>>
-----------------------------------------------------------------------------
WorkerStep(w) == Submit(w) \/ FinishLoop(w) \/ StopWorker(w)

EventGoroutine(n, e) ==
  FilterFails(n, e) \/ HandleEvent(n, e) \/ HandOver(n, e)

LoopStep(n) == ReceiveBatch(n) \/ FailBatch(n) \/ AckBatch(n) \/ CloseLoop(n)

Next ==
  \/ \E w \in Workers : WorkerStep(w)
  \/ \E n \in Nodes :
       \/ LoopStep(n)
       \/ \E e \in Batch(n) : EventGoroutine(n, e)
       \/ LoseConnection(n)
       \/ \E kind \in StrayKinds, w \in Workers : EmitStray(n, kind, w)
  \/ StopTest

Spec == Init /\ [][Next]_vars

(* Every goroutine that can run does; nothing makes the test stop, and no  *)
(* fault has to happen.                                                    *)
FairSpec ==
  /\ Spec
  /\ \A w \in Workers : WF_vars(WorkerStep(w))
  /\ \A n \in Nodes : WF_vars(LoopStep(n))
  /\ \A n \in Nodes : WF_vars(\E e \in Batch(n) : EventGoroutine(n, e))
-----------------------------------------------------------------------------
(* Properties.                                                             *)

(* Types; a batch in work is of events not yet acknowledged, and there is  *)
(* one only while batchEventLoop waits for its goroutines.                 *)
TypeOK ==
  /\ stopping \in BOOLEAN /\ ctxDone \in BOOLEAN
  /\ loop \in [Workers -> Nat]
  /\ submitted \in [Workers -> 0 .. ActionsPerLoop]
  /\ confirmations \in [Workers -> 0 .. confirmationsPerLoop]
  /\ pending \in [Nodes -> SUBSET Events]
  /\ epc \in [Nodes -> {"receive", "wait", "dead", "closed"}]
  /\ \A n \in Nodes :
       /\ Batch(n) \subseteq pending[n]
       /\ epc[n] # "wait" => Batch(n) = {}
       /\ \A e \in Batch(n) :
            task[n][e] \in {"start", "send", "done", "failed"}
  /\ taken \subseteq Nodes \X Events /\ faults \subseteq Faults
  /\ gone \subseteq Workers

(* An event FireFly takes for acknowledged has reached its worker: the     *)
(* batch loop acknowledges after the hand-over, eventLoop before it.  Once *)
(* the test is stopping, events are acknowledged unseen.                   *)
AckedWasTaken ==
  ~stopping /\ ~NoWaitSubmission =>
    \A n \in Nodes, w \in Workers : \A l \in 0 .. loop[w] :
      \A k \in 0 .. (IF l = loop[w] THEN submitted[w] ELSE ActionsPerLoop) - 1 :
        Own(w, l, k) \in pending[n] \/ <<n, Own(w, l, k)>> \in taken

(* The one event filterEvent cannot handle.                                *)
Unhandled == Stray("unknown_sub", 0)

(* No event is acknowledged together with one that could not be handled:   *)
(* FireFly keeps the whole batch ("The first non-nil go routine will be    *)
(* returned and we will return the error").                                *)
FailedNotAcked ==
  [][\A n \in Nodes :
       Unhandled \in Batch(n) /\ pending'[n] # pending[n]
         => Batch(n) \subseteq pending'[n]]_vars

(* The workers are a closed loop in batch mode too, unless events come     *)
(* twice, or events that are not of their actions release them.            *)
Unsafe == ReleaseKinds \cup {"lost_ack"}
CL == INSTANCE ClosedLoop WITH
        round <- loop, issued <- submitted, Confirmers <- LAMBDA w : Nodes,
        owed <- [w \in Workers |->
                   {c \in (0 .. submitted[w] - 1) \X Nodes :
                      <<c[2], Own(w, loop[w], c[1])>> \notin taken}]
ClosedLoopSpec == CL!Init /\ [][CL!Next \/ faults \cap Unsafe # {}]_CL!vars

(* A worker that has submitted its actions finishes its loop, although     *)
(* each batch waits for the slowest worker in it.                          *)
LoopsFinish ==
  \A w \in Workers :
    submitted[w] > 0 ~> (submitted[w] = 0 \/ stopping \/ faults # {})

(* A batch with an event that could not be handled ends its event loop: no *)
(* goroutine of the batch keeps g.Wait from returning the error.           *)
FailedBatchEnds ==
  \A n \in Nodes :
    Failed(n) ~> (epc[n] = "dead" \/ stopping \/ faults # {"unknown_sub"})
=============================================================================
