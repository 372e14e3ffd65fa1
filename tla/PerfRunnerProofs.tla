-------------------------- MODULE PerfRunnerProofs --------------------------
(***************************************************************************)
(* Theorems about PerfRunner, for every number of workers, nodes and       *)
(* actions per loop, every configuration, and every fault it allows.       *)
(*                                                                         *)
(* Types come first.  Then tracking: a loop's answers are accounted for    *)
(* (LoopLedger), so a worker that ends its confirmation loop has no ID     *)
(* left in its list, what is in msgTimeMap is always in such a list        *)
(* (TrackedListed), and what is in the list of a worker whose actions have *)
(* IDs of their own is in msgTimeMap (ExactInv).                           *)
(*                                                                         *)
(* Counting: a loop index adds at most one to totalActions, and once       *)
(* MaxActions is reached no index starts any more (OvershootInv); each     *)
(* success that is counted or waits to be read is an accepted action of an *)
(* index of its own (CountsInv).                                           *)
(***************************************************************************)
EXTENDS PerfRunner, TLAPS, FiniteSetTheorems, SequenceTheorems

(* What TypeOK needs to be inductive: room for a token the limiter delays, *)
(* and a result counter that starts at 0 and stops the collection loop.    *)
DispatchRoom == mpc = "limiter" => dispatched < MaxDispatch
CollectOpen ==
  \A w \in Workers :
    /\ wpc[w] \in {"ramp", "idle", "submit"} => resultCount[w] = 0
    /\ wpc[w] = "collect" => resultCount[w] < ActionsPerLoop

TypeInv == TypeOK /\ DispatchRoom /\ CollectOpen

LEMMA WorkerNumbers == TotalWorkers \in Nat /\ ActionsPerLoop \in Nat \ {0}
                       /\ MaxDispatch \in Nat
BY ConfigAssumption

LEMMA InitTypeInv == Init => TypeInv
<1> SUFFICES ASSUME Init PROVE TypeInv
  OBVIOUS
<1>1. MainTypeOK
  BY WorkerNumbers DEF Init, MainTypeOK, MainLoop
<1>2. FlagTypeOK
  BY Zenon DEF Init, FlagTypeOK
<1>3. WorkerTypeOK
  BY WorkerNumbers DEF Init, WorkerTypeOK
<1>4. EventTypeOK
  BY DEF Init, EventTypeOK
<1>5. mpc # "limiter" /\ \A w \in Workers :
                           wpc[w] = "ramp" /\ resultCount[w] = 0
  BY DEF Init
<1> QED
  BY <1>1, <1>2, <1>3, <1>4, <1>5 DEF TypeInv, TypeOK, DispatchRoom,
     CollectOpen
-----------------------------------------------------------------------------
(* An action that leaves a group of variables alone keeps their types.     *)

LEMMA WorkersKept ==
  ASSUME WorkerTypeOK, CollectOpen, UNCHANGED <<workerVars, trackVars>>
  PROVE  WorkerTypeOK' /\ CollectOpen'
BY DEF WorkerTypeOK, CollectOpen, workerVars, loopVars, trackVars

LEMMA EventsKept ==
  ASSUME EventTypeOK, UNCHANGED <<eventVars, pending, accepted>>
  PROVE  EventTypeOK'
BY DEF EventTypeOK, eventVars

LEMMA FlagsKept ==
  ASSUME FlagTypeOK, UNCHANGED <<stopping, recorded, clockVars>>
  PROVE  FlagTypeOK'
BY Zenon DEF FlagTypeOK, clockVars

LEMMA MainKept ==
  ASSUME MainTypeOK, DispatchRoom,
         UNCHANGED <<mpc, bfr, dispatched, submissionCount, countVars, faults>>
  PROVE  MainTypeOK' /\ DispatchRoom'
BY DEF MainTypeOK, DispatchRoom, countVars
-----------------------------------------------------------------------------
LEMMA MainStepType ==
  ASSUME TypeInv, MainStep
  PROVE  TypeInv'
<1> USE DEF MainStep, LoopCheck, SelectSignal, SelectSend, LimiterWait,
            SelectTimeout, StopTest, DrainTallied, DrainIdle, LeaveDrain,
            Report, Cleanup
<1>1. WorkerTypeOK' /\ CollectOpen'
  <2>1. UNCHANGED <<workerVars, trackVars>>
    OBVIOUS
  <2> QED
    BY <2>1, WorkersKept DEF TypeInv, TypeOK
<1>2. EventTypeOK'
  <2>1. UNCHANGED <<eventVars, pending, accepted>>
    BY DEF netVars
  <2> QED
    BY <2>1, EventsKept DEF TypeInv, TypeOK
<1>3. FlagTypeOK'
  <2>1. CASE SelectSignal
    BY <2>1, Zenon DEF TypeInv, TypeOK, FlagTypeOK
  <2>2. CASE StopTest
    BY <2>2, Zenon DEF TypeInv, TypeOK, FlagTypeOK, clockVars
  <2>3. CASE ~SelectSignal /\ ~StopTest
    <3>1. UNCHANGED <<stopping, recorded, clockVars>>
      BY <2>3
    <3> QED
      BY <3>1, FlagsKept DEF TypeInv, TypeOK
  <2> QED
    BY <2>1, <2>2, <2>3
<1>4. MainTypeOK' /\ DispatchRoom'
  <2> USE WorkerNumbers DEF TypeInv, TypeOK, MainTypeOK, DispatchRoom,
       MainLoop,
          countVars, netVars, CanSend, AfterDelinquencyCheck
  <2>1. CASE LoopCheck \/ SelectSignal
    BY <2>1
  <2>2. CASE SelectSend
    BY <2>2
  <2>3. CASE LimiterWait
    BY <2>3
  <2>4. CASE SelectTimeout
    BY <2>4
  <2>5. CASE StopTest
    BY <2>5
  <2>6. CASE DrainTallied \/ DrainIdle \/ Report \/ Cleanup
    BY <2>6
  <2> QED
    BY <2>1, <2>2, <2>3, <2>4, <2>5, <2>6
<1> QED
  BY <1>1, <1>2, <1>3, <1>4 DEF TypeInv, TypeOK
-----------------------------------------------------------------------------
LEMMA WorkerStepType ==
  ASSUME TypeInv, NEW w \in Workers, WorkerStep(w)
  PROVE  TypeInv'
<1> USE WorkerNumbers
<1>1. EventTypeOK'
  <2>1. UNCHANGED <<eventVars, pending, accepted>>
    BY DEF WorkerStep, RampUp, TakeToken, StopIdle, SpawnAction, EndSubmit,
           CollectSuccess, CollectError, AwaitCancelled, ActionConfirmed,
           FinishLoop, netVars
  <2> QED
    BY <2>1, EventsKept DEF TypeInv, TypeOK
<1>2. FlagTypeOK'
  <2>1. CASE FinishLoop(w)
    BY <2>1, Zenon DEF TypeInv, TypeOK, FlagTypeOK, FinishLoop, clockVars
  <2>2. CASE ~FinishLoop(w)
    <3>1. UNCHANGED <<stopping, recorded, clockVars>>
      BY <2>2 DEF WorkerStep, RampUp, TakeToken, StopIdle, SpawnAction,
           EndSubmit, CollectSuccess, CollectError, AwaitCancelled,
           ActionConfirmed, mainVars
    <3> QED
      BY <3>1, FlagsKept DEF TypeInv, TypeOK
  <2> QED
    BY <2>1, <2>2
<1>3. MainTypeOK' /\ DispatchRoom'
  <2> USE DEF TypeInv, TypeOK, MainTypeOK, DispatchRoom, MainLoop
  <2>1. CASE TakeToken(w)
    BY <2>1 DEF TakeToken, countVars, netVars
  <2>2. CASE CollectSuccess(w)
    BY <2>2 DEF CollectSuccess, mainVars, netVars
  <2>3. CASE FinishLoop(w)
    BY <2>3 DEF FinishLoop, countVars, netVars
  <2>4. CASE ~TakeToken(w) /\ ~CollectSuccess(w) /\ ~FinishLoop(w)
    <3>1. UNCHANGED <<mainVars, countVars, netVars>>
      BY <2>4 DEF WorkerStep, RampUp, StopIdle, SpawnAction, EndSubmit,
           CollectError, AwaitCancelled, ActionConfirmed
    <3> QED
      BY <3>1 DEF mainVars, countVars, netVars
  <2> QED
    BY <2>1, <2>2, <2>3, <2>4
<1>4. WorkerTypeOK' /\ CollectOpen'
  <2> USE DEF TypeInv, TypeOK, WorkerTypeOK, CollectOpen
  <2>1. CASE RampUp(w) \/ TakeToken(w) \/ StopIdle(w)
    BY <2>1 DEF RampUp, TakeToken, StopIdle, loopVars, trackVars
  <2>2. CASE SpawnAction(w)
    BY <2>2 DEF SpawnAction, trackVars
  <2>3. CASE EndSubmit(w)
    BY <2>3 DEF EndSubmit, loopVars, trackVars
  <2>4. CASE CollectSuccess(w)
    <3>0. responses[w] \in Seq(Responses) /\ responses[w] # <<>>
      BY <2>4 DEF CollectSuccess, TakeResponse
    <3>1. /\ Head(responses[w]).id \in Actions
          /\ Tail(responses[w]) \in Seq(Responses)
      <4>1. Head(responses[w]) \in Responses
        BY <3>0, HeadTailProperties
      <4>2. Tail(responses[w]) \in Seq(Responses)
        BY <3>0, HeadTailProperties
      <4> QED
        BY <4>1, <4>2 DEF Responses
    <3> USE DEF CollectSuccess, TakeResponse
    <3>2. /\ responses' \in [Workers -> Seq(Responses)]
          /\ trackingIDs' \in [Workers -> Seq(Actions)]
      <4>1. Append(trackingIDs[w], Head(responses[w]).id) \in Seq(Actions)
        BY <3>1
      <4>2. trackingIDs' = [trackingIDs EXCEPT ![w] =
                              Append(@, Head(responses[w]).id)]
        BY <2>4
      <4>3. responses' = [responses EXCEPT ![w] = Tail(@)]
        BY <2>4
      <4> HIDE DEF CollectSuccess, TakeResponse
      <4>4. responses' \in [Workers -> Seq(Responses)]
        BY <3>1, <4>3
      <4>5. trackingIDs' \in [Workers -> Seq(Actions)]
        BY <4>1, <4>2
      <4> QED
        BY <4>4, <4>5
    <3>3. msgTimeMap' \in SUBSET Actions /\ overdue' \in SUBSET msgTimeMap'
      BY <2>4, <3>1
    <3>4. CollectOpen' /\ resultCount' \in [Workers -> 0 .. ActionsPerLoop]
      <4>1. /\ resultCount' = [resultCount EXCEPT ![w] = @ + 1]
            /\ wpc' = [wpc EXCEPT ![w] = AfterResponse(w)]
            /\ resultCount[w] < ActionsPerLoop
        BY <2>4
      <4> HIDE DEF CollectSuccess, TakeResponse
      <4> QED
        BY <4>1 DEF AfterResponse
    <3>5. wpc' \in [Workers -> {"ramp", "idle", "submit", "collect", "confirm",
                               "failed", "stopped"}]
      BY <2>4 DEF AfterResponse
    <3>6. UNCHANGED <<loop, actionsCompleted, running, confirmedActions,
                      confirmations>>
      BY <2>4
    <3> HIDE DEF CollectSuccess, TakeResponse
    <3> QED
      BY <3>2, <3>3, <3>4, <3>5, <3>6
  <2>5. CASE CollectError(w)
    <3>1. /\ responses' = [responses EXCEPT ![w] = Tail(@)]
          /\ responses[w] # <<>> /\ resultCount[w] < ActionsPerLoop
          /\ resultCount' = [resultCount EXCEPT ![w] = @ + 1]
          /\ \/ wpc' = [wpc EXCEPT ![w] = "failed"]
             \/ wpc' = [wpc EXCEPT ![w] = AfterResponse(w)]
          /\ UNCHANGED <<loop, actionsCompleted, running, trackingIDs,
                         confirmedActions, confirmations, msgTimeMap, overdue>>
      BY <2>5 DEF CollectError, TakeResponse, trackVars
    <3>2. responses' \in [Workers -> Seq(Responses)]
      BY <3>1
    <3>3. resultCount' \in [Workers -> 0 .. ActionsPerLoop]
      BY <3>1
    <3>4. wpc' \in [Workers -> {"ramp", "idle", "submit", "collect", "confirm",
                               "failed", "stopped"}]
      BY <3>1 DEF AfterResponse
    <3>5. CollectOpen'
      <4>1. CASE wpc' = [wpc EXCEPT ![w] = "failed"]
        BY <3>1, <4>1
      <4>2. CASE wpc' = [wpc EXCEPT ![w] = AfterResponse(w)]
        BY <3>1, <4>2 DEF AfterResponse
      <4> QED
        BY <3>1, <4>1, <4>2
    <3> QED
      BY <3>1, <3>2, <3>3, <3>4, <3>5
  <2>6. CASE AwaitCancelled(w)
    BY <2>6 DEF AwaitCancelled, AwaitsEvent, loopVars, trackVars
  <2>7. CASE ActionConfirmed(w)
    <3> USE DEF ActionConfirmed
    <3>1. trackingIDs' \in [Workers -> Seq(Actions)]
      <4>1. CASE trackingIDs[w] = <<>>
        BY <2>7, <4>1
      <4>2. CASE trackingIDs[w] # <<>>
        <5>1. Tail(trackingIDs[w]) \in Seq(Actions)
          BY <4>2
        <5>2. trackingIDs' = [trackingIDs EXCEPT ![w] = Tail(@)]
          BY <2>7, <4>2
        <5> HIDE DEF ActionConfirmed
        <5> QED
          BY <5>1, <5>2
      <4> QED
        BY <4>1, <4>2
    <3>2. msgTimeMap' \in SUBSET Actions /\ overdue' \in SUBSET msgTimeMap'
      BY <2>7 DEF stopTrackingRequest
    <3>3. /\ confirmedActions' \in [Workers -> 0 .. ActionsPerLoop]
          /\ confirmations' \in [Workers -> Nat]
      BY <2>7
    <3> QED
      BY <2>7, <3>1, <3>2, <3>3
  <2>8. CASE FinishLoop(w)
    BY <2>8 DEF FinishLoop, AllConfirmed, trackVars
  <2> QED
    BY <2>1, <2>2, <2>3, <2>4, <2>5, <2>6, <2>7, <2>8 DEF WorkerStep
<1> QED
  BY <1>1, <1>2, <1>3, <1>4 DEF TypeInv, TypeOK
-----------------------------------------------------------------------------
LEMMA ActsAreActions ==
  ASSUME TypeInv, NEW w \in Workers, NEW k \in Nat
  PROVE  Act(w, k) \in Actions /\ trackingID(Act(w, k)) \in Actions
BY DEF TypeInv, TypeOK, WorkerTypeOK, Act, trackingID, Actions

LEMMA RunningActs ==
  ASSUME TypeInv, NEW w \in Workers, NEW k \in running[w]
  PROVE  Act(w, k) \in Actions /\ trackingID(Act(w, k)) \in Actions
<1>1. running[w] \subseteq 0 .. ActionsPerLoop - 1
  BY DEF TypeInv, TypeOK, WorkerTypeOK
<1>2. k \in Nat
  BY <1>1, WorkerNumbers
<1> QED
  BY <1>2, ActsAreActions

LEMMA EventsOfActions ==
  ASSUME NEW a \in Actions, NEW c \in Nat
  PROVE  EventsOf(a, c) \subseteq Events
BY DEF EventsOf, EventParts, Events

LEMMA AcceptType ==
  ASSUME TypeInv, NEW w \in Workers, NEW k \in running[w], NEW c \in Nat,
         Accept(w, k, c), faults' \in Nat
  PROVE  TypeInv'
<1>1. Act(w, k) \in Actions
  BY RunningActs
<1> USE DEF Accept
<1>2. EventTypeOK'
  <2>1. EventsOf(Act(w, k), c) \subseteq Events
    BY <1>1, EventsOfActions
  <2> QED
    BY <1>1, <2>1 DEF TypeInv, TypeOK, EventTypeOK, eventVars
<1>3. WorkerTypeOK' /\ CollectOpen'
  BY WorkersKept DEF TypeInv, TypeOK
<1>4. FlagTypeOK'
  BY FlagsKept DEF TypeInv, TypeOK, mainVars
<1>5. MainTypeOK' /\ DispatchRoom'
  BY DEF TypeInv, TypeOK, MainTypeOK, DispatchRoom, mainVars, countVars
<1> QED
  BY <1>2, <1>3, <1>4, <1>5 DEF TypeInv, TypeOK

LEMMA RespondType ==
  ASSUME TypeInv, NEW w \in Workers, NEW k \in running[w], NEW ok \in BOOLEAN,
         Respond(w, k, ok), faults' \in Nat
  PROVE  TypeInv'
<1>1. ActionResponse(w, k, ok) \in Responses
  <2>1. trackingID(Act(w, k)) \in Actions
    BY RunningActs
  <2> QED
    BY <2>1, Zenon DEF ActionResponse, Responses
<1> USE DEF Respond
<1>2. WorkerTypeOK' /\ CollectOpen'
  <2> USE DEF TypeInv, TypeOK, WorkerTypeOK
  <2>1. responses' \in [Workers -> Seq(Responses)]
    <3>1. Append(responses[w], ActionResponse(w, k, ok)) \in Seq(Responses)
      BY <1>1
    <3> QED
      BY <3>1
  <2>2. running' \in [Workers -> SUBSET (0 .. ActionsPerLoop - 1)]
    OBVIOUS
  <2> QED
    BY <2>1, <2>2 DEF CollectOpen, trackVars
<1>3. EventTypeOK'
  BY EventsKept DEF TypeInv, TypeOK
<1>4. FlagTypeOK'
  BY FlagsKept DEF TypeInv, TypeOK, mainVars
<1>5. MainTypeOK' /\ DispatchRoom'
  BY DEF TypeInv, TypeOK, MainTypeOK, DispatchRoom, mainVars, countVars
<1> QED
  BY <1>2, <1>3, <1>4, <1>5 DEF TypeInv, TypeOK

LEMMA PanicType ==
  ASSUME TypeInv, RunOncePanic, faults' \in Nat
  PROVE  TypeInv'
<1> USE DEF RunOncePanic
<1>1. WorkerTypeOK' /\ CollectOpen'
  BY WorkersKept DEF TypeInv, TypeOK
<1>2. EventTypeOK'
  BY EventsKept DEF TypeInv, TypeOK
<1>3. FlagTypeOK'
  BY FlagsKept DEF TypeInv, TypeOK
<1>4. MainTypeOK' /\ DispatchRoom'
  BY DEF TypeInv, TypeOK, MainTypeOK, DispatchRoom, countVars
<1> QED
  BY <1>1, <1>2, <1>3, <1>4 DEF TypeInv, TypeOK

(* Spending the fault budget keeps the count of faults a number.           *)
LEMMA InjectType ==
  ASSUME TypeInv, NEW kind, Inject(kind) \/ UNCHANGED faults
  PROVE  faults' \in Nat
BY DEF TypeInv, TypeOK, MainTypeOK, Inject

LEMMA RunOnceType ==
  ASSUME TypeInv, NEW w \in Workers, NEW k \in running[w],
         RunOnceStep(w, k) \/ RunOnceFault(w, k)
  PROVE  TypeInv'
<1>1. CASE AcceptFirst(w, k)
  BY <1>1, AcceptType, InjectType DEF AcceptFirst
<1>2. CASE AcceptRetry(w, k)
  <2>1. faults' \in Nat
    BY <1>2, InjectType DEF AcceptRetry
  <2>2. PICK c \in 1 .. MaxFaults : Accept(w, k, c)
    BY <1>2 DEF AcceptRetry
  <2>3. c \in Nat
    BY ConfigAssumption
  <2> QED
    BY <2>1, <2>2, <2>3, AcceptType
<1>3. CASE RespondOK(w, k)
  BY <1>3, RespondType, InjectType DEF RespondOK
<1>4. CASE RespondError(w, k)
  BY <1>4, RespondType, PanicType, InjectType DEF RespondError
<1>5. CASE RespondConflict(w, k)
  <2>1. faults' \in Nat
    BY <1>5, InjectType DEF RespondConflict
  <2> DEFINE ok == TestOf[w] = "custom_ethereum_contract"
  <2>2. ok \in BOOLEAN
    OBVIOUS
  <2>3. RunOncePanic \/ Respond(w, k, ok)
    BY <1>5 DEF RespondConflict
  <2> HIDE DEF ok
  <2> QED
    BY <2>1, <2>2, <2>3, RespondType, PanicType
<1> QED
  BY <1>1, <1>2, <1>3, <1>4, <1>5 DEF RunOnceStep, RunOnceFault
-----------------------------------------------------------------------------
LEMMA EventStepType ==
  ASSUME TypeInv, NEW n \in Nodes, EventStep(n)
  PROVE  TypeInv'
<1>1. WorkerTypeOK' /\ CollectOpen'
  <2>1. CASE Deliver(n)
    BY <2>1 DEF Deliver, AwaitsEvent, TypeInv, TypeOK, WorkerTypeOK,
                CollectOpen, trackVars
  <2>2. CASE ~Deliver(n)
    <3>1. UNCHANGED <<workerVars, trackVars>>
      BY <2>2 DEF EventStep, ReceiveUnknown, ReceiveWithoutURI, ReceiveEvent,
                  TakeEvent, CloseLoop
    <3> QED
      BY <3>1, WorkersKept DEF TypeInv, TypeOK
  <2> QED
    BY <2>1, <2>2
<1>2. EventTypeOK'
  <2> USE DEF TypeInv, TypeOK, EventTypeOK
  <2>1. CASE Deliver(n)
    BY <2>1 DEF Deliver, netVars
  <2>2. CASE CloseLoop(n)
    BY <2>2 DEF CloseLoop, netVars
  <2>3. ASSUME NEW e \in pending[n],
               \/ ReceiveUnknown(n, e) \/ ReceiveWithoutURI(n, e)
               \/ ReceiveEvent(n, e)
        PROVE  EventTypeOK'
    <3>1. pending' \in [Nodes -> SUBSET Events]
      BY <2>3 DEF ReceiveUnknown, ReceiveWithoutURI, ReceiveEvent, TakeEvent
    <3>2. /\ epc' \in [Nodes -> {"receive", "deliver", "dead", "closed"}]
          /\ event' \in [Nodes -> Events \cup {NoEvent}]
      BY <2>3 DEF ReceiveUnknown, ReceiveWithoutURI, ReceiveEvent
    <3>3. UNCHANGED accepted
      BY <2>3 DEF ReceiveUnknown, ReceiveWithoutURI, ReceiveEvent, TakeEvent
    <3> QED
      BY <3>1, <3>2, <3>3
  <2> QED
    BY <2>1, <2>2, <2>3 DEF EventStep
<1>3. FlagTypeOK'
  <2>1. ctxDone' \in BOOLEAN
    BY Zenon DEF EventStep, ReceiveUnknown, ReceiveWithoutURI, ReceiveEvent,
           Deliver, CloseLoop, clockVars, TypeInv, TypeOK, FlagTypeOK
  <2>2. UNCHANGED <<stopping, recorded, signalled, lengthElapsed>>
    BY DEF EventStep, ReceiveUnknown, ReceiveWithoutURI, ReceiveEvent,
           TakeEvent, Deliver, CloseLoop, clockVars, mainVars
  <2> QED
    BY <2>1, <2>2, Zenon DEF TypeInv, TypeOK, FlagTypeOK
<1>4. MainTypeOK' /\ DispatchRoom'
  <2> USE DEF TypeInv, TypeOK, MainTypeOK, DispatchRoom, MainLoop
  <2>1. CASE Deliver(n) \/ CloseLoop(n)
    BY <2>1 DEF Deliver, CloseLoop, mainVars, countVars, netVars
  <2>2. ASSUME NEW e \in pending[n],
               \/ ReceiveUnknown(n, e) \/ ReceiveWithoutURI(n, e)
               \/ ReceiveEvent(n, e)
        PROVE  MainTypeOK' /\ DispatchRoom'
    <3>1. /\ receivedEvents' = receivedEvents + 1
          /\ UNCHANGED <<bfr, dispatched, submissionCount, totalActions,
               faults>>
      BY <2>2 DEF ReceiveUnknown, ReceiveWithoutURI, ReceiveEvent, TakeEvent
    <3>2. mpc' = mpc \/ mpc' = "panicked"
      BY <2>2 DEF ReceiveUnknown, ReceiveWithoutURI, ReceiveEvent
    <3> QED
      BY <3>1, <3>2
  <2> QED
    BY <2>1, <2>2 DEF EventStep
<1> QED
  BY <1>1, <1>2, <1>3, <1>4 DEF TypeInv, TypeOK

LEMMA EnvironmentType ==
  ASSUME TypeInv, Environment
  PROVE  TypeInv'
<1>1. CASE LengthElapses \/ Interrupt
  <2>1. WorkerTypeOK' /\ CollectOpen'
    BY <1>1, WorkersKept DEF LengthElapses, Interrupt, TypeInv, TypeOK
  <2>2. EventTypeOK'
    BY <1>1, EventsKept DEF LengthElapses, Interrupt, TypeInv, TypeOK, netVars
  <2>3. FlagTypeOK'
    BY <1>1, Zenon DEF LengthElapses, Interrupt, TypeInv, TypeOK, FlagTypeOK,
                       mainVars
  <2>4. faults' \in Nat
    BY <1>1, InjectType DEF LengthElapses, Interrupt, netVars
  <2>5. MainTypeOK' /\ DispatchRoom'
    BY <1>1, <2>4 DEF LengthElapses, Interrupt, TypeInv, TypeOK, MainTypeOK,
                      DispatchRoom, mainVars, countVars
  <2> QED
    BY <2>1, <2>2, <2>3, <2>5 DEF TypeInv, TypeOK
<1>2. ASSUME NEW id \in msgTimeMap, BecomeOverdue(id)
      PROVE  TypeInv'
  <2> USE DEF BecomeOverdue
  <2>1. WorkerTypeOK' /\ CollectOpen'
    BY <1>2 DEF TypeInv, TypeOK, WorkerTypeOK, CollectOpen, workerVars,
       loopVars
  <2>2. EventTypeOK'
    BY <1>2, EventsKept DEF TypeInv, TypeOK, netVars
  <2>3. FlagTypeOK'
    BY <1>2, FlagsKept DEF TypeInv, TypeOK, mainVars
  <2>4. MainTypeOK' /\ DispatchRoom'
    BY <1>2, MainKept DEF TypeInv, TypeOK, mainVars, netVars
  <2> QED
    BY <2>1, <2>2, <2>3, <2>4 DEF TypeInv, TypeOK
<1>3. ASSUME NEW n \in Nodes,
             \/ LoseConnection(n)
             \/ \E p \in accepted : \E e \in EventsOf(p[1], p[2]) :
                  Redeliver(n, e)
             \/ \E kind \in StrayKinds, w \in Workers : EmitStray(n, kind, w)
      PROVE  TypeInv'
  <2>1. /\ UNCHANGED <<mainVars, clockVars, countVars, trackVars, workerVars,
                       event, accepted>>
        /\ faults' = faults + 1
    BY <1>3 DEF LoseConnection, Redeliver, EmitStray, Inject, eventVars
  <2>2. WorkerTypeOK' /\ CollectOpen'
    BY <2>1, WorkersKept DEF TypeInv, TypeOK
  <2>3. FlagTypeOK'
    BY <2>1, FlagsKept DEF TypeInv, TypeOK, mainVars
  <2>4. MainTypeOK' /\ DispatchRoom'
    BY <2>1 DEF TypeInv, TypeOK, MainTypeOK, DispatchRoom, mainVars, countVars
  <2>5. EventTypeOK'
    <3> USE DEF TypeInv, TypeOK, EventTypeOK
    <3>1. CASE LoseConnection(n)
      BY <3>1 DEF LoseConnection
    <3>2. ASSUME NEW p \in accepted, NEW e \in EventsOf(p[1], p[2]),
                 Redeliver(n, e)
          PROVE  EventTypeOK'
      <4>1. e \in Events
        BY EventsOfActions DEF Actions
      <4> QED
        BY <3>2, <4>1 DEF Redeliver, eventVars
    <3>3. ASSUME NEW kind \in StrayKinds, NEW w \in Workers,
                 EmitStray(n, kind, w)
          PROVE  EventTypeOK'
      <4>1. Stray(kind, w) \in Events
        BY DEF Stray, Events, Actions
      <4> QED
        BY <3>3, <4>1 DEF EmitStray, eventVars
    <3> QED
      BY <1>3, <3>1, <3>2, <3>3
  <2> QED
    BY <2>2, <2>3, <2>4, <2>5 DEF TypeInv, TypeOK
<1> QED
  BY <1>1, <1>2, <1>3 DEF Environment
-----------------------------------------------------------------------------
LEMMA StutterType ==
  ASSUME TypeInv, UNCHANGED vars
  PROVE  TypeInv'
<1>1. WorkerTypeOK' /\ CollectOpen'
  BY WorkersKept DEF vars, TypeInv, TypeOK
<1>2. EventTypeOK'
  BY EventsKept DEF vars, netVars, TypeInv, TypeOK
<1>3. FlagTypeOK'
  BY FlagsKept DEF vars, mainVars, TypeInv, TypeOK
<1>4. MainTypeOK' /\ DispatchRoom'
  BY MainKept DEF vars, mainVars, netVars, TypeInv, TypeOK
<1> QED
  BY <1>1, <1>2, <1>3, <1>4 DEF TypeInv, TypeOK

LEMMA NextTypeInv == TypeInv /\ [Next]_vars => TypeInv'
<1> SUFFICES ASSUME TypeInv, [Next]_vars PROVE TypeInv'
  OBVIOUS
<1>1. CASE MainStep
  BY <1>1, MainStepType
<1>2. ASSUME NEW w \in Workers, WorkerStep(w) PROVE TypeInv'
  BY <1>2, WorkerStepType
<1>3. ASSUME NEW w \in Workers, NEW k \in running[w],
             RunOnceStep(w, k) \/ RunOnceFault(w, k)
      PROVE  TypeInv'
  BY <1>3, RunOnceType
<1>4. ASSUME NEW n \in Nodes, EventStep(n) PROVE TypeInv'
  BY <1>4, EventStepType
<1>5. CASE Environment
  BY <1>5, EnvironmentType
<1>6. CASE UNCHANGED vars
  BY <1>6, StutterType
<1> QED
  BY <1>1, <1>2, <1>3, <1>4, <1>5, <1>6 DEF Next, Ended

(* Whatever fails, is lost or comes twice, every variable of the runner    *)
(* keeps its type and every counter and channel its limit.                 *)
THEOREM TypeCorrect == Spec => []TypeOK
<1>1. TypeInv => TypeOK
  BY DEF TypeInv
<1> QED
  BY <1>1, InitTypeInv, NextTypeInv, PTL DEF Spec
-----------------------------------------------------------------------------
(* Tracking.  The half of TrackingExact that every worker keeps.           *)

TrackedListed ==
  \A id \in msgTimeMap :
    /\ wpc[id[1]] \in {"collect", "confirm", "failed", "stopped"}
    /\ \E m \in 1 .. Len(trackingIDs[id[1]]) : trackingIDs[id[1]][m] = id

TrackingInv == TypeInv /\ LoopLedger /\ TrackedListed

LEMMA InitTracking == Init => TrackingInv
<1> SUFFICES ASSUME Init PROVE TrackingInv
  OBVIOUS
<1>1. TypeInv
  BY InitTypeInv
<1>2. LoopLedger
  BY FS_EmptySet, WorkerNumbers DEF Init, LoopLedger, Ledger
<1>3. TrackedListed
  BY DEF Init, TrackedListed
<1> QED
  BY <1>1, <1>2, <1>3 DEF TrackingInv
-----------------------------------------------------------------------------
(* A worker whose loop a step does not touch keeps its ledger; a step that *)
(* touches none of it keeps both invariants.                               *)

LEMMA LedgerKept ==
  ASSUME NEW w \in Workers, Ledger(w),
         wpc'[w] = wpc[w], actionsCompleted'[w] = actionsCompleted[w],
         running'[w] = running[w], responses'[w] = responses[w],
         resultCount'[w] = resultCount[w], trackingIDs'[w] = trackingIDs[w],
         confirmedActions'[w] = confirmedActions[w]
  PROVE  Ledger(w)'
BY DEF Ledger

LEMMA LoopsKept ==
  ASSUME LoopLedger, TrackedListed,
         UNCHANGED <<wpc, actionsCompleted, running, responses, resultCount,
                     trackingIDs, confirmedActions, msgTimeMap>>
  PROVE  LoopLedger' /\ TrackedListed'
<1>1. LoopLedger'
  BY LedgerKept DEF LoopLedger
<1>2. TrackedListed'
  BY DEF TrackedListed
<1> QED
  BY <1>1, <1>2

(* The loop of worker v is not touched by a step of worker w.              *)
LoopUntouched(v) ==
  /\ wpc'[v] = wpc[v] /\ loop'[v] = loop[v]
  /\ actionsCompleted'[v] = actionsCompleted[v]
  /\ running'[v] = running[v] /\ responses'[v] = responses[v]
  /\ resultCount'[v] = resultCount[v] /\ trackingIDs'[v] = trackingIDs[v]
  /\ confirmedActions'[v] = confirmedActions[v]

LEMMA OtherWorkersKept ==
  ASSUME TypeInv, LoopLedger, NEW w \in Workers, NEW v \in Workers, v # w,
         \/ WorkerStep(w)
         \/ \E k \in running[w], ok \in BOOLEAN : Respond(w, k, ok)
  PROVE  Ledger(v)' /\ LoopUntouched(v)
<1> USE DEF TypeInv, TypeOK, WorkerTypeOK
<1>1. LoopUntouched(v)
  <2> USE DEF LoopUntouched
  <2>1. CASE \E k \in running[w], ok \in BOOLEAN : Respond(w, k, ok)
    BY <2>1 DEF Respond
  <2>2. CASE RampUp(w) \/ TakeToken(w) \/ StopIdle(w) \/ EndSubmit(w)
             \/ AwaitCancelled(w)
    BY <2>2 DEF RampUp, TakeToken, StopIdle, EndSubmit, AwaitCancelled,
       loopVars
  <2>3. CASE SpawnAction(w)
    BY <2>3 DEF SpawnAction
  <2>4. CASE CollectSuccess(w)
    BY <2>4 DEF CollectSuccess, TakeResponse
  <2>5. CASE CollectError(w)
    BY <2>5 DEF CollectError, TakeResponse
  <2>6. CASE ActionConfirmed(w)
    BY <2>6 DEF ActionConfirmed
  <2>7. CASE FinishLoop(w)
    BY <2>7 DEF FinishLoop
  <2> QED
    BY <2>1, <2>2, <2>3, <2>4, <2>5, <2>6, <2>7 DEF WorkerStep
<1> QED
  BY <1>1, LedgerKept DEF LoopLedger, LoopUntouched

(* So a step of worker w that restores w's own ledger and tracks what it   *)
(* adds to msgTimeMap is enough.                                           *)
LEMMA OwnWorkerEnough ==
  ASSUME TrackingInv, NEW w \in Workers,
         \/ WorkerStep(w)
         \/ \E k \in running[w], ok \in BOOLEAN : Respond(w, k, ok),
         Ledger(w)',
         \A id \in msgTimeMap' \ msgTimeMap : id[1] = w,
         \A id \in msgTimeMap' : id[1] = w =>
            /\ wpc'[w] \in {"collect", "confirm", "failed", "stopped"}
            /\ \E m \in 1 .. Len(trackingIDs'[w]) : trackingIDs'[w][m] = id
  PROVE  LoopLedger' /\ TrackedListed'
<1> USE DEF TrackingInv
<1>1. LoopLedger'
  BY OtherWorkersKept DEF LoopLedger
<1>2. TrackedListed'
  <2> SUFFICES ASSUME NEW id \in msgTimeMap', id[1] # w
               PROVE  /\ wpc'[id[1]] \in {"collect", "confirm", "failed",
                           "stopped"}
                      /\ \E m \in 1 .. Len(trackingIDs'[id[1]]) :
                           trackingIDs'[id[1]][m] = id
    BY DEF TrackedListed
  <2>1. id \in msgTimeMap
    OBVIOUS
  <2>2. id[1] \in Workers
    BY <2>1 DEF TypeInv, TypeOK, WorkerTypeOK, Actions
  <2>3. wpc'[id[1]] = wpc[id[1]] /\ trackingIDs'[id[1]] = trackingIDs[id[1]]
    BY <2>2, OtherWorkersKept DEF LoopUntouched
  <2> QED
    BY <2>1, <2>3 DEF TrackedListed
<1> QED
  BY <1>1, <1>2
-----------------------------------------------------------------------------
LEMMA RunningFinite ==
  ASSUME TrackingInv, NEW w \in Workers
  PROVE  /\ IsFiniteSet(running[w]) /\ Cardinality(running[w]) \in Nat
         /\ Cardinality(running[w]) = 0 <=> running[w] = {}
<1>1. actionsCompleted[w] \in Nat
  BY WorkerNumbers DEF TrackingInv, TypeInv, TypeOK, WorkerTypeOK
<1>2. IsFiniteSet(0 .. actionsCompleted[w] - 1)
  BY <1>1, FS_Interval
<1>3. IsFiniteSet(running[w])
  BY <1>2, FS_Subset DEF TrackingInv, LoopLedger, Ledger
<1> QED
  BY <1>3, FS_CardinalityType, FS_EmptySet

LEMMA LoopNumbers ==
  ASSUME TrackingInv, NEW w \in Workers
  PROVE  /\ actionsCompleted[w] \in Nat /\ actionsCompleted[w] <= ActionsPerLoop
         /\ resultCount[w] \in Nat /\ confirmedActions[w] \in Nat
         /\ responses[w] \in Seq(Responses) /\ Len(responses[w]) \in Nat
         /\ trackingIDs[w] \in Seq(Actions) /\ Len(trackingIDs[w]) \in Nat
         /\ Cardinality(running[w]) \in Nat
         /\ Ledger(w)
BY WorkerNumbers, RunningFinite
   DEF TrackingInv, TypeInv, TypeOK, WorkerTypeOK, LoopLedger

LEMMA AnswersAddUp ==
  ASSUME TrackingInv, NEW w \in Workers
  PROVE  resultCount[w] + Len(responses[w]) + Cardinality(running[w])
           = actionsCompleted[w]
BY LoopNumbers DEF Ledger

(* A worker that has counted all the answers of a loop has none left.      *)
LEMMA LoopEmpty ==
  ASSUME TrackingInv, NEW w \in Workers, wpc[w] = "confirm"
  PROVE  /\ actionsCompleted[w] = ActionsPerLoop
         /\ responses[w] = <<>> /\ running[w] = {}
<1>1. /\ resultCount[w] + Len(responses[w]) + Cardinality(running[w])
           = actionsCompleted[w]
      /\ resultCount[w] = ActionsPerLoop
  BY LoopNumbers, AnswersAddUp DEF Ledger
<1>2. /\ actionsCompleted[w] = ActionsPerLoop
      /\ Len(responses[w]) = 0 /\ Cardinality(running[w]) = 0
  BY <1>1, LoopNumbers, WorkerNumbers
<1>3. running[w] = {}
  BY <1>2, RunningFinite
<1>4. responses[w] = <<>>
  BY <1>2, LoopNumbers
<1> QED
  BY <1>2, <1>3, <1>4

(* The worker's own step.  Its ledger, then what it tracks.                *)
LEMMA OwnLedger ==
  ASSUME TrackingInv, NEW w \in Workers, WorkerStep(w)
  PROVE  Ledger(w)'
<1> USE WorkerNumbers
    DEF TrackingInv, TypeInv, TypeOK, WorkerTypeOK, LoopLedger, CollectOpen
<1>1. CASE RampUp(w) \/ TakeToken(w) \/ StopIdle(w)
  BY <1>1 DEF RampUp, TakeToken, StopIdle, loopVars, Ledger
<1>2. CASE SpawnAction(w)
  <2>1. actionsCompleted[w] \notin running[w]
    BY DEF Ledger
  <2>2. Cardinality(running'[w]) = Cardinality(running[w]) + 1
    <3>1. running'[w] = running[w] \cup {actionsCompleted[w]}
      BY <1>2 DEF SpawnAction
    <3> QED
      BY <2>1, <3>1, RunningFinite, FS_AddElement
  <2>3. running'[w] \subseteq 0 .. actionsCompleted'[w] - 1
    BY <1>2 DEF SpawnAction, Ledger
  <2> QED
    <3>1. /\ wpc[w] = "submit" /\ actionsCompleted'[w] = actionsCompleted[w] + 1
          /\ UNCHANGED <<wpc, responses, resultCount, trackingIDs,
                         confirmedActions>>
      BY <1>2 DEF SpawnAction
    <3> HIDE DEF TrackingInv, TypeInv, TypeOK, WorkerTypeOK, CollectOpen
    <3>2. resultCount'[w] + Len(responses'[w]) + Cardinality(running'[w])
            = actionsCompleted'[w]
      <4>1. /\ resultCount'[w] = resultCount[w]
            /\ Len(responses'[w]) = Len(responses[w])
        BY <3>1
      <4>2. resultCount[w] + Len(responses[w]) + Cardinality(running[w])
              = actionsCompleted[w]
        BY AnswersAddUp
      <4>3. /\ resultCount[w] \in Nat /\ Len(responses[w]) \in Nat
            /\ Cardinality(running[w]) \in Nat
        BY LoopNumbers
      <4> QED
        BY <2>2, <3>1, <4>1, <4>2, <4>3
    <3>3. /\ confirmedActions[w] = 0 /\ trackingIDs[w] = <<>>
          /\ \A m \in 1 .. Len(responses[w]) : responses[w][m].id[1] = w
      BY <3>1, LoopNumbers DEF Ledger
    <3>4. Len(trackingIDs'[w]) = 0 /\ resultCount'[w] \in Nat
      BY <3>1, <3>3, LoopNumbers
    <3>5. \A m \in 1 .. Len(responses'[w]) : responses'[w][m].id[1] = w
      BY <3>1, <3>3
    <3> QED
      BY <2>3, <3>1, <3>2, <3>3, <3>4, <3>5 DEF Ledger
<1>3. CASE EndSubmit(w) \/ AwaitCancelled(w)
  <2>1. /\ UNCHANGED loopVars
        /\ \/ wpc[w] = "submit" /\ wpc'[w] = "collect"
           \/ wpc[w] = "confirm" /\ wpc'[w] = "stopped"
    BY <1>3 DEF EndSubmit, AwaitCancelled, AwaitsEvent
  <2> HIDE DEF TrackingInv, TypeInv, TypeOK, WorkerTypeOK, CollectOpen
  <2>2. Ledger(w) /\ resultCount[w] \in Nat
    BY LoopNumbers
  <2> QED
    BY <2>1, <2>2 DEF loopVars, Ledger
<1>4. CASE CollectSuccess(w) \/ CollectError(w)
  <2>1. /\ wpc[w] = "collect" /\ responses[w] # <<>>
        /\ responses'[w] = Tail(responses[w])
        /\ resultCount'[w] = resultCount[w] + 1
        /\ UNCHANGED <<actionsCompleted, running, confirmedActions>>
    BY <1>4 DEF CollectSuccess, CollectError, TakeResponse
  <2>2. /\ Len(responses'[w]) = Len(responses[w]) - 1
        /\ \A m \in 1 .. Len(responses'[w]) :
              responses'[w][m] = responses[w][m + 1]
        /\ responses'[w] \in Seq(Responses)
    BY <2>1, HeadTailProperties
  <2>3. \A m \in 1 .. Len(responses'[w]) : responses'[w][m].id[1] = w
    <3> HIDE DEF TrackingInv, TypeInv, TypeOK, WorkerTypeOK, CollectOpen,
                 LoopLedger
    <3> SUFFICES ASSUME NEW m \in 1 .. Len(responses'[w])
                 PROVE  responses[w][m + 1].id[1] = w
      BY <2>2
    <3>1. m + 1 \in 1 .. Len(responses[w])
      BY <2>2, LoopNumbers
    <3> QED
      BY <3>1, LoopNumbers DEF Ledger
  <2>4. Len(trackingIDs'[w]) <= resultCount'[w]
    <3>1. CASE CollectError(w)
      BY <3>1, <2>1 DEF CollectError, Ledger
    <3>2. CASE CollectSuccess(w)
      <4>1. trackingIDs'[w] = Append(trackingIDs[w], Head(responses[w]).id)
        BY <3>2 DEF CollectSuccess
      <4>2. Len(trackingIDs'[w]) = Len(trackingIDs[w]) + 1
        BY <4>1
      <4> QED
        BY <4>2, <2>1 DEF Ledger
    <3> QED
      BY <1>4, <3>1, <3>2
  <2>5. /\ wpc'[w] \in {"collect", "confirm", "failed"}
        /\ wpc'[w] = "confirm" => resultCount'[w] = ActionsPerLoop
    BY <1>4 DEF CollectSuccess, CollectError, TakeResponse, AfterResponse
  <2>6. resultCount'[w] + Len(responses'[w]) + Cardinality(running'[w])
          = actionsCompleted'[w]
    <3> HIDE DEF TrackingInv, TypeInv, TypeOK, WorkerTypeOK, CollectOpen
    <3>1. resultCount[w] + Len(responses[w]) + Cardinality(running[w])
            = actionsCompleted[w]
      BY AnswersAddUp
    <3>2. running'[w] = running[w] /\ actionsCompleted'[w] = actionsCompleted[w]
      BY <2>1
    <3>3. /\ resultCount[w] \in Nat /\ Len(responses[w]) \in Nat
          /\ Cardinality(running[w]) \in Nat /\ actionsCompleted[w] \in Nat
      BY LoopNumbers
    <3>4. /\ resultCount'[w] = resultCount[w] + 1
          /\ Len(responses'[w]) = Len(responses[w]) - 1
      BY <2>1, <2>2
    <3> QED
      BY <3>1, <3>2, <3>3, <3>4
  <2>7. resultCount'[w] <= actionsCompleted'[w]
    <3> HIDE DEF TrackingInv, TypeInv, TypeOK, WorkerTypeOK, CollectOpen
    <3>1. Len(responses'[w]) \in Nat
      BY <2>2
    <3> QED
      BY <2>1, <2>6, <3>1, LoopNumbers
  <2>8. running'[w] \subseteq 0 .. actionsCompleted'[w] - 1
    BY <2>1 DEF Ledger
  <2>9. confirmedActions'[w] = 0 /\ actionsCompleted'[w] \in Nat
    BY <2>1 DEF Ledger
  <2>10. Len(trackingIDs'[w]) <= actionsCompleted'[w] - confirmedActions'[w]
    <3>1. Len(trackingIDs'[w]) \in Nat
      BY <1>4 DEF CollectSuccess, CollectError
    <3>2. resultCount'[w] \in Nat
      BY <2>1
    <3> QED
      BY <3>1, <3>2, <2>4, <2>7, <2>9
  <2> HIDE DEF TrackingInv, TypeInv, TypeOK, WorkerTypeOK, CollectOpen,
               LoopLedger
  <2> QED
    BY <2>3, <2>4, <2>5, <2>6, <2>8, <2>9, <2>10 DEF Ledger
<1>5. CASE ActionConfirmed(w)
  <2>1. /\ wpc[w] = "confirm" /\ confirmedActions[w] < actionsCompleted[w]
        /\ confirmedActions'[w] = confirmedActions[w] + 1
        /\ UNCHANGED <<wpc, actionsCompleted, running, responses, resultCount>>
    BY <1>5 DEF ActionConfirmed
  <2>2. Len(trackingIDs'[w])
          <= actionsCompleted'[w] - confirmedActions'[w]
    <3>1. CASE trackingIDs[w] = <<>>
      BY <1>5, <2>1, <3>1 DEF ActionConfirmed
    <3>2. CASE trackingIDs[w] # <<>>
      <4>1. trackingIDs'[w] = Tail(trackingIDs[w])
        BY <1>5, <3>2 DEF ActionConfirmed
      <4>2. Len(trackingIDs'[w]) = Len(trackingIDs[w]) - 1
        BY <3>2, <4>1, HeadTailProperties
      <4>3. Len(trackingIDs[w]) \in Nat
        OBVIOUS
      <4> QED
        BY <2>1, <4>2, <4>3 DEF Ledger
    <3> QED
      BY <3>1, <3>2
  <2> QED
    BY <2>1, <2>2 DEF Ledger
<1>6. CASE FinishLoop(w)
  <2>3. responses[w] = <<>> /\ running[w] = {}
    <3> HIDE DEF TrackingInv, TypeInv, TypeOK, WorkerTypeOK, CollectOpen,
                 LoopLedger
    <3> QED
      BY <1>6, LoopEmpty DEF FinishLoop
  <2>4. /\ wpc'[w] = "idle" /\ actionsCompleted'[w] = 0 /\ resultCount'[w] = 0
        /\ trackingIDs'[w] = <<>> /\ confirmedActions'[w] = 0
        /\ running'[w] = {} /\ responses'[w] = <<>>
    BY <1>6, <2>3 DEF FinishLoop
  <2> QED
    BY <2>4, FS_EmptySet DEF Ledger
<1> QED
  BY <1>1, <1>2, <1>3, <1>4, <1>5, <1>6 DEF WorkerStep

LEMMA OwnTracking ==
  ASSUME TrackingInv, NEW w \in Workers, WorkerStep(w)
  PROVE  /\ \A id \in msgTimeMap' \ msgTimeMap : id[1] = w
         /\ \A id \in msgTimeMap' : id[1] = w =>
              /\ wpc'[w] \in {"collect", "confirm", "failed", "stopped"}
              /\ \E m \in 1 .. Len(trackingIDs'[w]) : trackingIDs'[w][m] = id
<1>1. \A id \in msgTimeMap : id[1] = w =>
         /\ wpc[w] \in {"collect", "confirm", "failed", "stopped"}
         /\ \E m \in 1 .. Len(trackingIDs[w]) : trackingIDs[w][m] = id
  BY DEF TrackingInv, TrackedListed
<1> USE DEF TrackingInv, TypeInv, TypeOK, WorkerTypeOK
<1>2. CASE RampUp(w) \/ TakeToken(w) \/ StopIdle(w) \/ AwaitCancelled(w)
           \/ EndSubmit(w) \/ SpawnAction(w)
  BY <1>1, <1>2 DEF RampUp, TakeToken, StopIdle, AwaitCancelled, AwaitsEvent,
                    EndSubmit, SpawnAction, loopVars, trackVars
<1>3. CASE CollectError(w)
  BY <1>1, <1>3 DEF CollectError, TakeResponse, AfterResponse, trackVars
<1>4. CASE CollectSuccess(w)
  <2> DEFINE id == Head(responses[w]).id
  <2>1. /\ responses[w] # <<>> /\ msgTimeMap' = msgTimeMap \cup {id}
        /\ trackingIDs'[w] = Append(trackingIDs[w], id)
        /\ wpc'[w] \in {"collect", "confirm"}
    BY <1>4 DEF CollectSuccess, TakeResponse, AfterResponse
  <2>2. id[1] = w /\ id \in Actions
    <3>1. Head(responses[w]) = responses[w][1] /\ 1 \in 1 .. Len(responses[w])
      BY <2>1, LoopNumbers
    <3>2. Head(responses[w]) \in Responses
      BY <2>1, LoopNumbers, HeadTailProperties
    <3>3. Ledger(w)
      BY LoopNumbers
    <3> QED
      BY <3>1, <3>2, <3>3 DEF Ledger, Responses
  <2> HIDE DEF id
  <2>3. /\ Len(trackingIDs'[w]) = Len(trackingIDs[w]) + 1
        /\ \A m \in 1 .. Len(trackingIDs[w]) :
             trackingIDs'[w][m] = trackingIDs[w][m]
        /\ trackingIDs'[w][Len(trackingIDs[w]) + 1] = id
    BY <2>1, <2>2, LoopNumbers, AppendProperties
  <2>4. ASSUME NEW x \in msgTimeMap', x[1] = w
        PROVE  \E m \in 1 .. Len(trackingIDs'[w]) : trackingIDs'[w][m] = x
    <3>1. CASE x = id
      BY <3>1, <2>3, LoopNumbers
    <3>2. CASE x # id
      <4>1. PICK m \in 1 .. Len(trackingIDs[w]) : trackingIDs[w][m] = x
        BY <3>2, <2>1, <2>4, <1>1
      <4>2. Len(trackingIDs[w]) \in Nat
        BY LoopNumbers
      <4>3. m \in 1 .. Len(trackingIDs'[w])
        BY <4>1, <4>2, <2>3
      <4> QED
        BY <4>1, <4>3, <2>3
    <3> QED
      BY <3>1, <3>2
  <2> QED
    BY <2>1, <2>2, <2>4
<1>5. CASE ActionConfirmed(w)
  <2>1. wpc[w] = "confirm" /\ wpc' = wpc
    BY <1>5 DEF ActionConfirmed
  <2>2. CASE trackingIDs[w] = <<>>
    BY <1>1, <1>5, <2>1, <2>2 DEF ActionConfirmed
  <2>3. CASE trackingIDs[w] # <<>>
    <3>1. /\ trackingIDs'[w] = Tail(trackingIDs[w])
          /\ msgTimeMap' = msgTimeMap \ {Head(trackingIDs[w])}
      BY <1>5, <2>3 DEF ActionConfirmed, stopTrackingRequest
    <3>2. /\ Len(trackingIDs'[w]) = Len(trackingIDs[w]) - 1
          /\ \A m \in 1 .. Len(trackingIDs'[w]) :
                trackingIDs'[w][m] = trackingIDs[w][m + 1]
          /\ Head(trackingIDs[w]) = trackingIDs[w][1]
      BY <2>3, <3>1, LoopNumbers, HeadTailProperties
    <3>3. ASSUME NEW x \in msgTimeMap', x[1] = w
          PROVE  \E m \in 1 .. Len(trackingIDs'[w]) : trackingIDs'[w][m] = x
      <4>1. PICK m \in 1 .. Len(trackingIDs[w]) : trackingIDs[w][m] = x
        BY <3>1, <3>3, <1>1
      <4>2. m # 1
        BY <3>1, <3>2, <4>1
      <4>3. m - 1 \in 1 .. Len(trackingIDs'[w])
        BY <3>2, <4>1, <4>2, LoopNumbers
      <4>4. trackingIDs'[w][m - 1] = x
        BY <3>2, <4>1, <4>3
      <4> QED
        BY <4>3, <4>4
    <3> QED
      BY <2>1, <3>1, <3>3
  <2> QED
    BY <2>2, <2>3
<1>6. CASE FinishLoop(w)
  <2>1. trackingIDs[w] = <<>>
    BY <1>6, LoopNumbers DEF FinishLoop, AllConfirmed, Ledger
  <2>2. msgTimeMap' = msgTimeMap
    BY <1>6 DEF FinishLoop, trackVars
  <2>3. \A id \in msgTimeMap : id[1] # w
    BY <1>1, <2>1
  <2> QED
    BY <2>2, <2>3
<1> QED
  BY <1>2, <1>3, <1>4, <1>5, <1>6 DEF WorkerStep
-----------------------------------------------------------------------------
LEMMA RespondTracking ==
  ASSUME TrackingInv, NEW w \in Workers, NEW k \in running[w],
         NEW ok \in BOOLEAN, Respond(w, k, ok)
  PROVE  LoopLedger' /\ TrackedListed'
<1>1. /\ running'[w] = running[w] \ {k}
      /\ responses'[w] = Append(responses[w], ActionResponse(w, k, ok))
      /\ UNCHANGED <<wpc, actionsCompleted, resultCount, trackingIDs,
                     confirmedActions, msgTimeMap>>
  <2>1. running \in [Workers -> SUBSET (0 .. ActionsPerLoop - 1)]
        /\ responses \in [Workers -> Seq(Responses)]
    BY DEF TrackingInv, TypeInv, TypeOK, WorkerTypeOK
  <2> QED
    BY <2>1 DEF Respond, trackVars
<1>2. ActionResponse(w, k, ok) \in Responses /\ ActionResponse(w, k,
                                                  ok).id[1] = w
  <2>2. trackingID(Act(w, k)) \in Actions
    BY RunningActs DEF TrackingInv
  <2>3. trackingID(Act(w, k))[1] = w
    BY DEF trackingID, Act
  <2> QED
    BY <2>2, <2>3, Zenon DEF ActionResponse, Responses
<1>3. Cardinality(running'[w]) = Cardinality(running[w]) - 1
  <2>1. Cardinality(running[w] \ {k}) = Cardinality(running[w]) - 1
    BY RunningFinite, FS_RemoveElement
  <2> QED
    BY <1>1, <2>1
<1>4. /\ Len(responses'[w]) = Len(responses[w]) + 1
      /\ \A m \in 1 .. Len(responses[w]) : responses'[w][m] = responses[w][m]
      /\ responses'[w][Len(responses[w]) + 1] = ActionResponse(w, k, ok)
  BY <1>1, <1>2, LoopNumbers, AppendProperties
<1>5. \A m \in 1 .. Len(responses'[w]) : responses'[w][m].id[1] = w
  <2>1. \A m \in 1 .. Len(responses[w]) : responses[w][m].id[1] = w
    BY LoopNumbers DEF Ledger
  <2>2. Len(responses[w]) \in Nat
    BY LoopNumbers
  <2>3. ASSUME NEW m \in 1 .. Len(responses'[w]) PROVE responses'[w][m].id[1] = w
    <3>1. m \in 1 .. Len(responses[w]) \/ m = Len(responses[w]) + 1
      BY <1>4, <2>2
    <3> QED
      BY <1>2, <1>4, <2>1, <3>1
  <2> QED
    BY <2>3
<1>6. resultCount'[w] + Len(responses'[w]) + Cardinality(running'[w])
        = actionsCompleted'[w]
  <2>1. resultCount[w] + Len(responses[w]) + Cardinality(running[w])
          = actionsCompleted[w]
    BY LoopNumbers DEF Ledger
  <2>2. resultCount' = resultCount /\ actionsCompleted' = actionsCompleted
    BY <1>1
  <2>3. /\ resultCount[w] \in Nat /\ Len(responses[w]) \in Nat
        /\ Cardinality(running[w]) \in Nat /\ actionsCompleted[w] \in Nat
    BY LoopNumbers
  <2> QED
    BY <1>3, <1>4, <2>1, <2>2, <2>3
<1>7. Ledger(w)'
  <2>1. running'[w] \subseteq 0 .. actionsCompleted'[w] - 1
    BY <1>1, LoopNumbers DEF Ledger
  <2> QED
    BY <1>1, <1>5, <1>6, <2>1, LoopNumbers DEF Ledger
<1>8. \A id \in msgTimeMap' : id[1] = w =>
         /\ wpc'[w] \in {"collect", "confirm", "failed", "stopped"}
         /\ \E m \in 1 .. Len(trackingIDs'[w]) : trackingIDs'[w][m] = id
  BY <1>1 DEF TrackingInv, TrackedListed
<1> QED
  BY <1>1, <1>7, <1>8, OwnWorkerEnough

LEMMA NextTrackingInv == TrackingInv /\ [Next]_vars => TrackingInv'
<1> SUFFICES ASSUME TrackingInv, [Next]_vars PROVE TrackingInv'
  OBVIOUS
<1>1. TypeInv'
  BY NextTypeInv DEF TrackingInv
<1>2. LoopLedger' /\ TrackedListed'
  <2>1. ASSUME NEW w \in Workers, WorkerStep(w)
        PROVE  LoopLedger' /\ TrackedListed'
    BY <2>1, OwnLedger, OwnTracking, OwnWorkerEnough
  <2>2. ASSUME NEW w \in Workers, NEW k \in running[w], NEW ok \in BOOLEAN,
               Respond(w, k, ok)
        PROVE  LoopLedger' /\ TrackedListed'
    BY <2>2, RespondTracking
  <2> DEFINE Kept == UNCHANGED <<wpc, actionsCompleted, running, responses,
                                 resultCount, trackingIDs, confirmedActions,
                                 msgTimeMap>>
  <2>3. Kept => LoopLedger' /\ TrackedListed'
    BY LoopsKept DEF TrackingInv
  <2>4. CASE MainStep
    <3>1. Kept
      BY <2>4 DEF MainStep, LoopCheck, SelectSignal, SelectSend, LimiterWait,
         SelectTimeout, StopTest, DrainTallied, DrainIdle, LeaveDrain, Report,
         Cleanup, workerVars, loopVars, trackVars
    <3> QED
      BY <2>3, <3>1
  <2>5. ASSUME NEW w \in Workers, NEW k \in running[w],
               RunOnceStep(w, k) \/ RunOnceFault(w, k)
        PROVE  LoopLedger' /\ TrackedListed'
    <3>1. Kept \/ \E ok \in BOOLEAN : Respond(w, k, ok)
      <4>1. CASE AcceptFirst(w, k) \/ AcceptRetry(w, k)
        BY <4>1 DEF AcceptFirst, AcceptRetry, Accept, workerVars, loopVars,
                    trackVars
      <4>2. CASE RespondOK(w, k)
        BY <4>2 DEF RespondOK
      <4>3. CASE RunOncePanic
        BY <4>3 DEF RunOncePanic, workerVars, loopVars, trackVars
      <4>4. CASE RespondError(w, k) /\ ~RunOncePanic
        BY <4>4 DEF RespondError
      <4>5. CASE RespondConflict(w, k) /\ ~RunOncePanic
        <5> DEFINE ok == TestOf[w] = "custom_ethereum_contract"
        <5>1. Respond(w, k, ok)
          BY <4>5 DEF RespondConflict
        <5>2. ok \in BOOLEAN
          OBVIOUS
        <5> HIDE DEF ok
        <5> QED
          BY <5>1, <5>2
      <4> QED
        BY <2>5, <4>1, <4>2, <4>3, <4>4, <4>5 DEF RunOnceStep, RunOnceFault
    <3> QED
      BY <2>2, <2>3, <3>1
  <2>6. ASSUME NEW n \in Nodes, EventStep(n)
        PROVE  LoopLedger' /\ TrackedListed'
    <3>1. Kept
      BY <2>6 DEF EventStep, ReceiveUnknown, ReceiveWithoutURI, ReceiveEvent,
         TakeEvent, Deliver, CloseLoop, workerVars, loopVars, trackVars
    <3> QED
      BY <2>3, <3>1
  <2>7. CASE Environment
    <3>1. Kept
      BY <2>7 DEF Environment, LengthElapses, Interrupt, BecomeOverdue,
         LoseConnection, Redeliver, EmitStray, workerVars, loopVars, trackVars
    <3> QED
      BY <2>3, <3>1
  <2>8. CASE UNCHANGED vars
    <3>1. Kept
      BY <2>8 DEF vars, workerVars, loopVars, trackVars
    <3> QED
      BY <2>3, <3>1
  <2> QED
    BY <2>1, <2>4, <2>5, <2>6, <2>7, <2>8 DEF Next, Ended
<1> QED
  BY <1>1, <1>2 DEF TrackingInv
-----------------------------------------------------------------------------
(* No answer of a RunOnce goroutine is lost or counted twice, whatever     *)
(* fails: the collection loop reads exactly the answers of its own loop.   *)
THEOREM AnswersAccountedFor == Spec => []LoopLedger
<1>1. TrackingInv => LoopLedger
  BY DEF TrackingInv
<1> QED
  BY <1>1, InitTracking, NextTrackingInv, PTL DEF Spec

-----------------------------------------------------------------------------
(* The other half: an ID in a worker's list is in msgTimeMap.  It would be *)
(* gone if another entry of the list, or of another worker's list, had the *)
(* same ID and were confirmed first.  So the IDs in a worker's list and    *)
(* among its answers are all different: each is that of an action of the   *)
(* current loop whose RunOnce has returned.                                *)

DoneIDs(w) ==
  {Act(w, k) : k \in (0 .. actionsCompleted[w] - 1) \ running[w]}

OwnIDs(w) ==
  /\ \A m \in 1 .. Len(trackingIDs[w]) :
       trackingIDs[w][m] \in msgTimeMap \cap DoneIDs(w)
  /\ \A m \in 1 .. Len(responses[w]) : responses[w][m].id \in DoneIDs(w)
  /\ \A m, l \in 1 .. Len(trackingIDs[w]) :
       trackingIDs[w][m] = trackingIDs[w][l] => m = l
  /\ \A m, l \in 1 .. Len(responses[w]) :
       responses[w][m].id = responses[w][l].id => m = l
  /\ \A m \in 1 .. Len(trackingIDs[w]), l \in 1 .. Len(responses[w]) :
       trackingIDs[w][m] # responses[w][l].id

ListsOwn(w) ==
  \A m \in 1 .. Len(trackingIDs[w]) : trackingIDs[w][m][1] = w

LeftForReason(w) ==
  /\ wpc[w] = "failed" => DelinquentAction = "exit"
  /\ wpc[w] = "stopped" => ctxDone = TRUE

Exact(w) ==
  /\ ListsOwn(w) /\ LeftForReason(w)
  /\ TestOf[w] \notin WorkerIDTests => OwnIDs(w)

ExactInv == \A w \in Workers : Exact(w)

LEMMA InitExact == Init => ExactInv
  BY DEF Init, ExactInv, Exact, ListsOwn, LeftForReason, OwnIDs

(* A worker whose loop a step does not touch, and whose entries it leaves  *)
(* in msgTimeMap.                                                          *)
LEMMA ExactKept ==
  ASSUME NEW v \in Workers, Exact(v), LoopUntouched(v),
         ctxDone = TRUE => ctxDone' = TRUE,
         \A id \in msgTimeMap : id[1] = v => id \in msgTimeMap'
  PROVE  Exact(v)'
<1> USE DEF LoopUntouched
<1>1. ListsOwn(v)' /\ LeftForReason(v)'
  BY DEF Exact, ListsOwn, LeftForReason
<1>2. ASSUME OwnIDs(v)
      PROVE  OwnIDs(v)'
  <2>1. DoneIDs(v)' = DoneIDs(v)
    BY DEF DoneIDs, Act
  <2>2. \A m \in 1 .. Len(trackingIDs[v]) : trackingIDs[v][m] \in msgTimeMap'
    BY <1>2 DEF OwnIDs, Exact, ListsOwn
  <2> QED
    BY <1>2, <2>1, <2>2 DEF OwnIDs
<1> QED
  BY <1>1, <1>2 DEF Exact

(* The worker's own steps that change neither its lists nor its indices.   *)
LEMMA QuietStepExact ==
  ASSUME TrackingInv, ExactInv, NEW w \in Workers,
         RampUp(w) \/ TakeToken(w) \/ StopIdle(w) \/ EndSubmit(w)
           \/ AwaitCancelled(w)
  PROVE  Exact(w)'
<1> USE DEF RampUp, TakeToken, StopIdle, EndSubmit, AwaitCancelled, loopVars,
            trackVars
<1>1. Exact(w)
  BY DEF ExactInv
<1>2. wpc'[w] \notin {"failed", "stopped"} \/ (wpc'[w] = "stopped" /\ ctxDone)
  BY DEF TrackingInv, TypeInv, TypeOK, WorkerTypeOK
<1>3. LeftForReason(w)'
  <2>1. CASE wpc'[w] \notin {"failed", "stopped"}
    BY <2>1 DEF LeftForReason
  <2>2. CASE wpc'[w] = "stopped" /\ ctxDone
    <3>1. ctxDone = TRUE
      BY <2>2, Zenon DEF TrackingInv, TypeInv, TypeOK, FlagTypeOK
    <3>2. ctxDone' = ctxDone
      BY DEF clockVars
    <3> QED
      BY <2>2, <3>1, <3>2 DEF LeftForReason
  <2> QED
    BY <1>2, <2>1, <2>2
<1>4. ListsOwn(w)'
  BY <1>1 DEF Exact, ListsOwn
<1>5. UNCHANGED <<loop, actionsCompleted, running, responses, trackingIDs,
                  msgTimeMap>>
  OBVIOUS
<1> HIDE DEF RampUp, TakeToken, StopIdle, EndSubmit, AwaitCancelled
<1>6. OwnIDs(w) => OwnIDs(w)'
  BY <1>5 DEF OwnIDs, DoneIDs, Act
<1> QED
  BY <1>1, <1>3, <1>4, <1>6 DEF Exact

LEMMA SpawnExact ==
  ASSUME TrackingInv, ExactInv, NEW w \in Workers, SpawnAction(w)
  PROVE  Exact(w)'
<1>1. Exact(w)
  BY DEF ExactInv
<1>2. /\ running'[w] = running[w] \cup {actionsCompleted[w]}
      /\ actionsCompleted'[w] = actionsCompleted[w] + 1
      /\ UNCHANGED <<wpc, loop, responses, trackingIDs, msgTimeMap, ctxDone>>
  BY DEF SpawnAction, TrackingInv, TypeInv, TypeOK, WorkerTypeOK, clockVars,
         trackVars
<1>3. DoneIDs(w) \subseteq DoneIDs(w)'
  <2>1. actionsCompleted[w] \in Nat
    BY LoopNumbers
  <2>2. (0 .. actionsCompleted[w] - 1) \ running[w]
           \subseteq (0 .. actionsCompleted'[w] - 1) \ running'[w]
    BY <1>2, <2>1
  <2> QED
    BY <1>2, <2>2 DEF DoneIDs, Act
<1>4. OwnIDs(w) => OwnIDs(w)'
  BY <1>2, <1>3 DEF OwnIDs
<1> QED
  BY <1>1, <1>2, <1>4 DEF Exact, ListsOwn, LeftForReason

(* An answer is read: it leaves the channel, and its ID may be listed.     *)
LEMMA ReadAnswer ==
  ASSUME TrackingInv, NEW w \in Workers, TakeResponse(w)
  PROVE  /\ Len(responses[w]) \in Nat \ {0}
         /\ Head(responses[w]) = responses[w][1]
         /\ Len(responses'[w]) = Len(responses[w]) - 1
         /\ \A m \in 1 .. Len(responses'[w]) :
              responses'[w][m] = responses[w][m + 1]
         /\ Head(responses[w]).id \in Actions
         /\ Head(responses[w]).id[1] = w
<1>1. /\ responses[w] # <<>> /\ responses[w] \in Seq(Responses)
      /\ responses'[w] = Tail(responses[w])
  BY LoopNumbers
  DEF TakeResponse, TrackingInv, TypeInv, TypeOK, WorkerTypeOK
<1>2. Len(responses[w]) \in Nat /\ Len(responses[w]) # 0
  BY <1>1
<1>3. Head(responses[w]) \in Responses /\ Head(responses[w]) = responses[w][1]
  BY <1>1, HeadTailProperties
<1>4. responses[w][1].id[1] = w
  BY <1>2, LoopNumbers DEF Ledger
<1>5. /\ Len(responses'[w]) = Len(responses[w]) - 1
      /\ \A m \in 1 .. Len(responses'[w]) :
           responses'[w][m] = responses[w][m + 1]
  BY <1>1, HeadTailProperties
<1> QED
  BY <1>2, <1>3, <1>4, <1>5 DEF Responses

(* The answers that remain are of actions of this loop, all different, and *)
(* none is the one read or one already listed.                             *)
LEMMA RestOfAnswers ==
  ASSUME TrackingInv, NEW w \in Workers, TakeResponse(w), OwnIDs(w)
  PROVE  /\ \A m \in 1 .. Len(responses'[w]) :
              /\ responses'[w][m].id \in DoneIDs(w)
              /\ responses'[w][m].id # responses[w][1].id
         /\ \A m, l \in 1 .. Len(responses'[w]) :
              responses'[w][m].id = responses'[w][l].id => m = l
         /\ \A m \in 1 .. Len(trackingIDs[w]), l \in 1 .. Len(responses'[w]) :
              trackingIDs[w][m] # responses'[w][l].id
<1>1. 1 \in 1 .. Len(responses[w])
  BY ReadAnswer
<1>2. ASSUME NEW m \in 1 .. Len(responses'[w])
      PROVE  /\ m + 1 \in 1 .. Len(responses[w]) /\ m + 1 # 1
             /\ responses'[w][m] = responses[w][m + 1]
  BY ReadAnswer
<1>3. ASSUME NEW m \in 1 .. Len(responses'[w])
      PROVE  /\ responses'[w][m].id \in DoneIDs(w)
             /\ responses'[w][m].id # responses[w][1].id
  <2>1. /\ responses[w][m + 1].id \in DoneIDs(w)
        /\ responses[w][m + 1].id # responses[w][1].id
    BY <1>1, <1>2 DEF OwnIDs
  <2> QED
    BY <1>2, <2>1
<1>4. ASSUME NEW m \in 1 .. Len(responses'[w]),
             NEW l \in 1 .. Len(responses'[w]),
             responses'[w][m].id = responses'[w][l].id
      PROVE  m = l
  <2>1. responses[w][m + 1].id = responses[w][l + 1].id
    BY <1>2, <1>4
  <2>2. m + 1 = l + 1
    BY <1>2, <2>1 DEF OwnIDs
  <2> QED
    BY <2>2
<1>5. ASSUME NEW m \in 1 .. Len(trackingIDs[w]),
             NEW l \in 1 .. Len(responses'[w])
      PROVE  trackingIDs[w][m] # responses'[w][l].id
  <2>1. trackingIDs[w][m] # responses[w][l + 1].id
    BY <1>2 DEF OwnIDs
  <2> QED
    BY <1>2, <2>1
<1> QED
  BY <1>3, <1>4, <1>5

LEMMA CollectErrorExact ==
  ASSUME TrackingInv, ExactInv, NEW w \in Workers, CollectError(w)
  PROVE  Exact(w)'
<1>1. Exact(w)
  BY DEF ExactInv
<1>2. /\ UNCHANGED <<loop, actionsCompleted, running, trackingIDs, msgTimeMap>>
      /\ TakeResponse(w)
      /\ wpc'[w] \in {"collect", "confirm"}
           \/ (wpc'[w] = "failed" /\ DelinquentAction = "exit")
  BY DEF CollectError, AfterResponse, TrackingInv, TypeInv, TypeOK,
         WorkerTypeOK, trackVars
<1>3. LeftForReason(w)' /\ ListsOwn(w)'
  BY <1>1, <1>2 DEF LeftForReason, Exact, ListsOwn
<1>4. ASSUME OwnIDs(w)
      PROVE  OwnIDs(w)'
  <2>1. DoneIDs(w)' = DoneIDs(w)
    BY <1>2 DEF DoneIDs, Act
  <2>2. \A m \in 1 .. Len(trackingIDs[w]) :
          trackingIDs[w][m] \in msgTimeMap \cap DoneIDs(w)
    BY <1>4 DEF OwnIDs
  <2>3. \A m, l \in 1 .. Len(trackingIDs[w]) :
          trackingIDs[w][m] = trackingIDs[w][l] => m = l
    BY <1>4 DEF OwnIDs
  <2>4. /\ \A m \in 1 .. Len(responses'[w]) : responses'[w][m].id \in DoneIDs(w)
        /\ \A m, l \in 1 .. Len(responses'[w]) :
             responses'[w][m].id = responses'[w][l].id => m = l
        /\ \A m \in 1 .. Len(trackingIDs[w]), l \in 1 .. Len(responses'[w]) :
             trackingIDs[w][m] # responses'[w][l].id
    BY <1>2, <1>4, RestOfAnswers
  <2> QED
    BY <1>2, <2>1, <2>2, <2>3, <2>4 DEF OwnIDs
<1> QED
  BY <1>1, <1>3, <1>4 DEF Exact

(* The ID of the answer goes to the end of the list: it is none of those   *)
(* already there, and none of those still to be read.                      *)
LEMMA CollectSuccessExact ==
  ASSUME TrackingInv, ExactInv, NEW w \in Workers, CollectSuccess(w)
  PROVE  Exact(w)'
<1> DEFINE id == Head(responses[w]).id
<1>1. Exact(w)
  BY DEF ExactInv
<1>2. /\ UNCHANGED <<loop, actionsCompleted, running>>
      /\ TakeResponse(w) /\ wpc'[w] \in {"collect", "confirm"}
      /\ msgTimeMap' = msgTimeMap \cup {id}
      /\ trackingIDs'[w] = Append(trackingIDs[w], id)
  BY DEF CollectSuccess, AfterResponse, TrackingInv, TypeInv, TypeOK,
         WorkerTypeOK
<1>3. /\ id = responses[w][1].id /\ id \in Actions /\ id[1] = w
      /\ 1 \in 1 .. Len(responses[w])
  BY <1>2, ReadAnswer
<1> HIDE DEF id
<1>4. /\ Len(trackingIDs'[w]) = Len(trackingIDs[w]) + 1
      /\ \A m \in 1 .. Len(trackingIDs[w]) :
           trackingIDs'[w][m] = trackingIDs[w][m]
      /\ trackingIDs'[w][Len(trackingIDs[w]) + 1] = id
      /\ Len(trackingIDs[w]) \in Nat
  BY <1>2, <1>3, LoopNumbers, AppendProperties
<1>5. \A m \in 1 .. Len(trackingIDs'[w]) :
        m \in 1 .. Len(trackingIDs[w]) \/ m = Len(trackingIDs[w]) + 1
  BY <1>4
<1>6. ListsOwn(w)' /\ LeftForReason(w)'
  BY <1>1, <1>2, <1>3, <1>4, <1>5 DEF Exact, ListsOwn, LeftForReason
<1>7. ASSUME OwnIDs(w)
      PROVE  OwnIDs(w)'
  <2>1. DoneIDs(w)' = DoneIDs(w)
    BY <1>2 DEF DoneIDs, Act
  <2>2. /\ \A m \in 1 .. Len(responses'[w]) :
             responses'[w][m].id \in DoneIDs(w) /\ responses'[w][m].id # id
        /\ \A m, l \in 1 .. Len(responses'[w]) :
             responses'[w][m].id = responses'[w][l].id => m = l
        /\ \A m \in 1 .. Len(trackingIDs[w]), l \in 1 .. Len(responses'[w]) :
             trackingIDs[w][m] # responses'[w][l].id
    BY <1>2, <1>3, <1>7, RestOfAnswers
  <2>3. id \in DoneIDs(w)
    BY <1>3, <1>7 DEF OwnIDs
  <2>4. \A m \in 1 .. Len(trackingIDs[w]) : trackingIDs[w][m] # id
    BY <1>3, <1>7 DEF OwnIDs
  <2>5. \A m \in 1 .. Len(trackingIDs'[w]) :
          trackingIDs'[w][m] \in msgTimeMap' \cap DoneIDs(w)
    BY <1>2, <1>4, <1>5, <1>7, <2>3 DEF OwnIDs
  <2>6. \A m, l \in 1 .. Len(trackingIDs'[w]) :
          trackingIDs'[w][m] = trackingIDs'[w][l] => m = l
    BY <1>4, <1>5, <1>7, <2>4 DEF OwnIDs
  <2>7. \A m \in 1 .. Len(trackingIDs'[w]), l \in 1 .. Len(responses'[w]) :
          trackingIDs'[w][m] # responses'[w][l].id
    BY <1>4, <1>5, <2>2
  <2> QED
    BY <2>1, <2>2, <2>5, <2>6, <2>7 DEF OwnIDs
<1> QED
  BY <1>1, <1>6, <1>7 DEF Exact

(* The head of the list is confirmed; the rest has other IDs.              *)
LEMMA ConfirmedExact ==
  ASSUME TrackingInv, ExactInv, NEW w \in Workers, ActionConfirmed(w)
  PROVE  Exact(w)'
<1>1. Exact(w)
  BY DEF ExactInv
<1>2. /\ UNCHANGED <<wpc, loop, actionsCompleted, running, responses>>
      /\ wpc[w] = "confirm" /\ responses[w] = <<>>
  BY LoopEmpty DEF ActionConfirmed
<1>3. CASE trackingIDs[w] = <<>>
  <2>1. UNCHANGED <<trackingIDs, msgTimeMap>>
    BY <1>3 DEF ActionConfirmed
  <2> QED
    BY <1>1, <1>2, <2>1
    DEF Exact, ListsOwn, LeftForReason, OwnIDs, DoneIDs, Act
<1>4. CASE trackingIDs[w] # <<>>
  <2>1. /\ trackingIDs'[w] = Tail(trackingIDs[w])
        /\ msgTimeMap' = msgTimeMap \ {Head(trackingIDs[w])}
    BY <1>4 DEF ActionConfirmed, stopTrackingRequest, TrackingInv, TypeInv,
                TypeOK, WorkerTypeOK
  <2>2. /\ Len(trackingIDs'[w]) = Len(trackingIDs[w]) - 1
        /\ \A m \in 1 .. Len(trackingIDs'[w]) :
             trackingIDs'[w][m] = trackingIDs[w][m + 1]
        /\ Head(trackingIDs[w]) = trackingIDs[w][1]
        /\ Len(trackingIDs[w]) \in Nat \ {0}
    BY <1>4, <2>1, LoopNumbers, HeadTailProperties
  <2>3. \A m \in 1 .. Len(trackingIDs'[w]) :
          m + 1 \in 1 .. Len(trackingIDs[w]) /\ m + 1 # 1
    BY <2>2
  <2>4. 1 \in 1 .. Len(trackingIDs[w])
    BY <2>2
  <2>5. ListsOwn(w)' /\ LeftForReason(w)'
    BY <1>1, <1>2, <2>2, <2>3 DEF Exact, ListsOwn, LeftForReason
  <2>6. ASSUME OwnIDs(w)
        PROVE  OwnIDs(w)'
    <3>1. DoneIDs(w)' = DoneIDs(w)
      BY <1>2 DEF DoneIDs, Act
    <3>2. \A m \in 1 .. Len(trackingIDs'[w]) :
            /\ trackingIDs'[w][m] # Head(trackingIDs[w])
            /\ trackingIDs'[w][m] \in msgTimeMap \cap DoneIDs(w)
      BY <2>2, <2>3, <2>4, <2>6 DEF OwnIDs
    <3>3. \A m, l \in 1 .. Len(trackingIDs'[w]) :
            trackingIDs'[w][m] = trackingIDs'[w][l] => m = l
      BY <2>2, <2>3, <2>6 DEF OwnIDs
    <3>4. Len(responses'[w]) = 0
      BY <1>2
    <3>5. \A m \in 1 .. Len(trackingIDs'[w]) :
            trackingIDs'[w][m] \in msgTimeMap' \cap DoneIDs(w)'
      BY <2>1, <3>1, <3>2
    <3>6. 1 .. Len(responses'[w]) = {}
      BY <3>4
    <3> QED
      BY <3>3, <3>5, <3>6 DEF OwnIDs
  <2> QED
    BY <1>1, <2>5, <2>6 DEF Exact
<1> QED
  BY <1>3, <1>4

LEMMA FinishExact ==
  ASSUME TrackingInv, NEW w \in Workers, FinishLoop(w)
  PROVE  Exact(w)'
<1>1. /\ trackingIDs'[w] = <<>> /\ responses' = responses
      /\ wpc'[w] = "idle" /\ responses[w] = <<>>
  BY LoopEmpty DEF FinishLoop, TrackingInv, TypeInv, TypeOK, WorkerTypeOK
<1> QED
  BY <1>1 DEF Exact, ListsOwn, LeftForReason, OwnIDs

(* A new answer is that of an index that was still running.                *)
LEMMA RespondExact ==
  ASSUME TrackingInv, ExactInv, NEW w \in Workers, NEW k \in running[w],
         NEW ok \in BOOLEAN, Respond(w, k, ok)
  PROVE  Exact(w)'
<1> DEFINE id == trackingID(Act(w, k))
<1>1. Exact(w) /\ id \in Actions
  BY RunningActs DEF ExactInv, TrackingInv
<1>2. /\ UNCHANGED <<wpc, loop, actionsCompleted, trackingIDs, msgTimeMap,
                     ctxDone>>
      /\ running'[w] = running[w] \ {k}
      /\ responses'[w] = Append(responses[w], ActionResponse(w, k, ok))
  BY DEF Respond, clockVars, trackVars, TrackingInv, TypeInv, TypeOK,
         WorkerTypeOK
<1>3. ActionResponse(w, k, ok) \in Responses /\ ActionResponse(w, k, ok).id = id
  BY <1>1, Zenon DEF ActionResponse, Responses
<1>4. /\ Len(responses'[w]) = Len(responses[w]) + 1
      /\ \A m \in 1 .. Len(responses[w]) : responses'[w][m] = responses[w][m]
      /\ responses'[w][Len(responses[w]) + 1].id = id
      /\ Len(responses[w]) \in Nat
  BY <1>2, <1>3, LoopNumbers, AppendProperties
<1>5. \A m \in 1 .. Len(responses'[w]) :
        m \in 1 .. Len(responses[w]) \/ m = Len(responses[w]) + 1
  BY <1>4
<1>6. ListsOwn(w)' /\ LeftForReason(w)'
  BY <1>1, <1>2 DEF Exact, ListsOwn, LeftForReason
<1>7. ASSUME TestOf[w] \notin WorkerIDTests, OwnIDs(w)
      PROVE  OwnIDs(w)'
  <2>1. id = Act(w, k)
    BY <1>7 DEF trackingID, Act
  <2>2. k \in 0 .. actionsCompleted[w] - 1
    BY LoopNumbers DEF Ledger
  <2>3. DoneIDs(w)' = DoneIDs(w) \cup {id} /\ id \notin DoneIDs(w)
    <3>1. (0 .. actionsCompleted'[w] - 1) \ running'[w]
             = ((0 .. actionsCompleted[w] - 1) \ running[w]) \cup {k}
      BY <1>2, <2>2
    <3> QED
      BY <1>2, <2>1, <3>1 DEF DoneIDs, Act
  <2> HIDE DEF id
  <2>4. \A m \in 1 .. Len(trackingIDs[w]) : trackingIDs[w][m] # id
    BY <1>7, <2>3 DEF OwnIDs
  <2>5. \A m \in 1 .. Len(responses[w]) : responses[w][m].id # id
    BY <1>7, <2>3 DEF OwnIDs
  <2>6. \A m \in 1 .. Len(responses'[w]) : responses'[w][m].id \in DoneIDs(w)'
    BY <1>4, <1>5, <1>7, <2>3 DEF OwnIDs
  <2>7. \A m, l \in 1 .. Len(responses'[w]) :
          responses'[w][m].id = responses'[w][l].id => m = l
    BY <1>4, <1>5, <1>7, <2>5 DEF OwnIDs
  <2>8. \A m \in 1 .. Len(trackingIDs[w]), l \in 1 .. Len(responses'[w]) :
          trackingIDs[w][m] # responses'[w][l].id
    <3>1. ASSUME NEW m \in 1 .. Len(trackingIDs[w]),
                 NEW l \in 1 .. Len(responses[w])
          PROVE  trackingIDs[w][m] # responses[w][l].id
      BY <1>7 DEF OwnIDs
    <3>2. ASSUME NEW m \in 1 .. Len(trackingIDs[w]),
                 NEW l \in 1 .. Len(responses'[w])
          PROVE  trackingIDs[w][m] # responses'[w][l].id
      <4>1. CASE l \in 1 .. Len(responses[w])
        BY <1>4, <3>1, <4>1
      <4>2. CASE l = Len(responses[w]) + 1
        BY <1>4, <2>4, <4>2
      <4> QED
        BY <1>5, <4>1, <4>2
    <3> QED
      BY <3>2
  <2> QED
    BY <1>2, <1>7, <2>3, <2>6, <2>7, <2>8 DEF OwnIDs
<1> QED
  BY <1>1, <1>6, <1>7 DEF Exact

(* What a worker does to msgTimeMap concerns its own entries.              *)
LEMMA OthersTracked ==
  ASSUME TrackingInv, ExactInv, NEW w \in Workers, NEW v \in Workers, v # w,
         \/ WorkerStep(w)
         \/ \E k \in running[w], ok \in BOOLEAN : Respond(w, k, ok),
         NEW id \in msgTimeMap, id[1] = v
  PROVE  id \in msgTimeMap'
<1>1. CASE ActionConfirmed(w)
  <2>1. CASE trackingIDs[w] = <<>>
    BY <1>1, <2>1 DEF ActionConfirmed
  <2>2. CASE trackingIDs[w] # <<>>
    <3>1. Head(trackingIDs[w]) = trackingIDs[w][1] /\ Len(trackingIDs[w]) # 0
      BY <2>2, LoopNumbers, HeadTailProperties
    <3>2. Head(trackingIDs[w])[1] = w
      BY <3>1, LoopNumbers DEF ExactInv, Exact, ListsOwn
    <3>3. msgTimeMap' = msgTimeMap \ {Head(trackingIDs[w])}
      BY <1>1, <2>2 DEF ActionConfirmed, stopTrackingRequest
    <3> QED
      BY <3>2, <3>3
  <2> QED
    BY <2>1, <2>2
<1>2. CASE CollectSuccess(w)
  BY <1>2 DEF CollectSuccess
<1>3. CASE ~ActionConfirmed(w) /\ ~CollectSuccess(w)
  BY <1>3 DEF WorkerStep, RampUp, TakeToken, StopIdle, SpawnAction, EndSubmit,
     CollectError, AwaitCancelled, FinishLoop, Respond, trackVars
<1> QED
  BY <1>1, <1>2, <1>3

(* Nobody takes back a cancellation.                                       *)
LEMMA CancelledForGood ==
  ASSUME TypeOK, [Next]_vars, ctxDone = TRUE
  PROVE  ctxDone' = TRUE
<1>1. CASE MainStep
  BY <1>1 DEF MainStep, LoopCheck, SelectSignal, SelectSend, LimiterWait,
     SelectTimeout, StopTest, DrainTallied, DrainIdle, LeaveDrain, Report,
     Cleanup, clockVars
<1>2. ASSUME NEW w \in Workers, WorkerStep(w)
      PROVE  ctxDone' = TRUE
  BY <1>2 DEF WorkerStep, RampUp, TakeToken, StopIdle, SpawnAction, EndSubmit,
     CollectSuccess, CollectError, AwaitCancelled, ActionConfirmed, FinishLoop,
     clockVars
<1>3. ASSUME NEW w \in Workers, NEW k \in running[w],
             RunOnceStep(w, k) \/ RunOnceFault(w, k)
      PROVE  ctxDone' = TRUE
  BY <1>3 DEF RunOnceStep, RunOnceFault, AcceptFirst, AcceptRetry, Accept,
     RespondOK, RespondError, RespondConflict, RunOncePanic, Respond, clockVars
<1>4. ASSUME NEW n \in Nodes, EventStep(n)
      PROVE  ctxDone' = TRUE
  <2>1. CASE Deliver(n) \/ CloseLoop(n)
    BY <2>1 DEF Deliver, CloseLoop, clockVars
  <2>2. ASSUME NEW e \in pending[n],
               ReceiveUnknown(n, e) \/ ReceiveWithoutURI(n, e)
        PROVE  ctxDone' = TRUE
    BY <2>2 DEF ReceiveUnknown, ReceiveWithoutURI
  <2>3. ASSUME NEW e \in pending[n], ReceiveEvent(n, e)
        PROVE  ctxDone' = TRUE
    BY <2>3, Zenon DEF ReceiveEvent
  <2> QED
    BY <1>4, <2>1, <2>2, <2>3 DEF EventStep
<1>5. CASE Environment
  BY <1>5 DEF Environment, LengthElapses, Interrupt, BecomeOverdue,
     LoseConnection, Redeliver, EmitStray, clockVars
<1>6. CASE UNCHANGED vars
  BY <1>6 DEF vars, clockVars
<1> QED
  BY <1>1, <1>2, <1>3, <1>4, <1>5, <1>6 DEF Next, Ended

LEMMA NextExact ==
  ASSUME TrackingInv, ExactInv, [Next]_vars
  PROVE  ExactInv'
<1>1. ctxDone = TRUE => ctxDone' = TRUE
  BY CancelledForGood DEF TrackingInv, TypeInv
<1>2. ASSUME NEW w \in Workers,
             \/ WorkerStep(w)
             \/ \E k \in running[w], ok \in BOOLEAN : Respond(w, k, ok)
      PROVE  \A v \in Workers \ {w} : Exact(v)'
  <2>1. TypeInv /\ LoopLedger
    BY DEF TrackingInv
  <2> SUFFICES ASSUME NEW v \in Workers, v # w
               PROVE  Exact(v)'
    OBVIOUS
  <2>2. LoopUntouched(v)
    BY <1>2, <2>1, OtherWorkersKept
  <2>3. \A id \in msgTimeMap : id[1] = v => id \in msgTimeMap'
    BY <1>2, OthersTracked
  <2> QED
    BY <1>1, <2>2, <2>3, ExactKept DEF ExactInv
<1>3. ASSUME NEW w \in Workers, WorkerStep(w)
      PROVE  ExactInv'
  <2>1. Exact(w)'
    BY <1>3, QuietStepExact, SpawnExact, CollectErrorExact, CollectSuccessExact,
       ConfirmedExact, FinishExact DEF WorkerStep
  <2> QED
    BY <1>2, <1>3, <2>1 DEF ExactInv
<1>4. ASSUME NEW w \in Workers, NEW k \in running[w], NEW ok \in BOOLEAN,
             Respond(w, k, ok)
      PROVE  ExactInv'
  BY <1>2, <1>4, RespondExact DEF ExactInv
<1>5. ASSUME UNCHANGED <<wpc, loop, actionsCompleted, running, responses,
                         resultCount, trackingIDs, confirmedActions, msgTimeMap>>
      PROVE  ExactInv'
  BY <1>1, <1>5, ExactKept DEF ExactInv, LoopUntouched
<1>6. CASE MainStep
  BY <1>5, <1>6 DEF MainStep, LoopCheck, SelectSignal, SelectSend, LimiterWait,
     SelectTimeout, StopTest, DrainTallied, DrainIdle, LeaveDrain, Report,
     Cleanup, workerVars, loopVars, trackVars
<1>7. ASSUME NEW w \in Workers, NEW k \in running[w],
             RunOnceStep(w, k) \/ RunOnceFault(w, k)
      PROVE  ExactInv'
  <2>1. CASE AcceptFirst(w, k) \/ AcceptRetry(w, k) \/ RunOncePanic
    BY <1>5, <2>1 DEF AcceptFirst, AcceptRetry, Accept, RunOncePanic,
       workerVars, loopVars, trackVars
  <2>2. CASE ~RunOncePanic /\ (RespondOK(w, k) \/ RespondError(w, k)
                               \/ RespondConflict(w, k))
    <3> DEFINE ok == TestOf[w] = "custom_ethereum_contract"
    <3>1. Respond(w, k, TRUE) \/ Respond(w, k, FALSE) \/ Respond(w, k, ok)
      BY <2>2 DEF RespondOK, RespondError, RespondConflict
    <3>2. ok \in BOOLEAN
      OBVIOUS
    <3> HIDE DEF ok
    <3> QED
      BY <1>4, <3>1, <3>2
  <2> QED
    BY <1>7, <2>1, <2>2 DEF RunOnceStep, RunOnceFault
<1>8. ASSUME NEW n \in Nodes, EventStep(n)
      PROVE  ExactInv'
  BY <1>5, <1>8 DEF EventStep, ReceiveUnknown, ReceiveWithoutURI,
     ReceiveEvent, TakeEvent, Deliver, CloseLoop, workerVars, loopVars,
     trackVars
<1>9. CASE Environment \/ UNCHANGED vars
  BY <1>5, <1>9 DEF Environment, LengthElapses, Interrupt, BecomeOverdue,
     LoseConnection, Redeliver, EmitStray, vars, workerVars, loopVars,
     trackVars
<1> QED
  BY <1>3, <1>6, <1>7, <1>8, <1>9 DEF Next, Ended

(* msgTimeMap and the workers' own lists agree: whatever is tracked is in  *)
(* flight for a worker inside its loop, or for one that has left it for    *)
(* one of two reasons, and a counted action with an ID of its own stays    *)
(* tracked until it is confirmed.                                          *)
THEOREM TrackingIsExact == Spec => []TrackingExact
<1>1. TrackingInv /\ ExactInv => TrackingExact
  <2> SUFFICES ASSUME TrackingInv, ExactInv, NEW w \in Workers
               PROVE  /\ Tracked(w) \subseteq InFlight(w)
                      /\ TestOf[w] \notin WorkerIDTests =>
                           InFlight(w) \subseteq Tracked(w)
                      /\ Tracked(w) # {} =>
                           wpc[w] \in {"collect", "confirm"} \/ HasLeft(w)
    BY DEF TrackingExact
  <2>1. Exact(w)
    BY DEF ExactInv
  <2>2. Tracked(w) \subseteq InFlight(w)
    BY DEF Tracked, InFlight, TrackingInv, TrackedListed
  <2>3. TestOf[w] \notin WorkerIDTests => InFlight(w) \subseteq Tracked(w)
    BY <2>1 DEF Exact, OwnIDs, ListsOwn, Tracked, InFlight
  <2>4. Tracked(w) # {} => wpc[w] \in {"collect", "confirm"} \/ HasLeft(w)
    BY <2>1 DEF Tracked, TrackingInv, TrackedListed, Exact, LeftForReason,
                HasLeft
  <2> QED
    BY <2>2, <2>3, <2>4
<1>2. Init => TrackingInv /\ ExactInv
  BY InitTracking, InitExact
<1>3. TrackingInv /\ ExactInv /\ [Next]_vars => (TrackingInv /\ ExactInv)'
  BY NextTrackingInv, NextExact
<1> QED
  BY <1>1, <1>2, <1>3, PTL DEF Spec
-----------------------------------------------------------------------------
(* What totalActionsCounter counts.  The steps that matter are few.        *)

LEMMA CountingSteps ==
  ASSUME [Next]_vars
  PROVE  \/ \E w \in Workers : \/ SpawnAction(w) \/ FinishLoop(w)
                               \/ CollectSuccess(w) \/ CollectError(w)
         \/ \E w \in Workers : \E k \in running[w], c \in Nat : Accept(w, k, c)
         \/ \E w \in Workers : \E k \in running[w], ok \in BOOLEAN :
              Respond(w, k, ok) /\ (ok => Copies(w, k) # {})
         \/ UNCHANGED <<totalActions, actionsCompleted, resultCount, responses,
                        running, loop, accepted>>
<1> DEFINE Kept == UNCHANGED <<totalActions, actionsCompleted, resultCount,
                               responses, running, loop, accepted>>
<1>1. CASE MainStep
  <2>1. Kept
    BY <1>1 DEF MainStep, LoopCheck, SelectSignal, SelectSend, LimiterWait,
       SelectTimeout, StopTest, DrainTallied, DrainIdle, LeaveDrain, Report,
       Cleanup, workerVars, loopVars, countVars, netVars
  <2> QED
    BY <2>1
<1>2. ASSUME NEW w \in Workers, WorkerStep(w)
      PROVE  \/ SpawnAction(w) \/ FinishLoop(w) \/ CollectSuccess(w)
             \/ CollectError(w) \/ Kept
  BY <1>2 DEF WorkerStep, RampUp, TakeToken, StopIdle, EndSubmit,
     AwaitCancelled, ActionConfirmed, loopVars, countVars, netVars
<1>3. ASSUME NEW w \in Workers, NEW k \in running[w],
             RunOnceStep(w, k) \/ RunOnceFault(w, k)
      PROVE  \/ \E c \in Nat : Accept(w, k, c)
             \/ \E ok \in BOOLEAN : Respond(w, k, ok)
                                    /\ (ok => Copies(w, k) # {})
             \/ Kept
  <2>1. CASE AcceptFirst(w, k)
    BY <2>1 DEF AcceptFirst
  <2>2. CASE AcceptRetry(w, k)
    <3>1. PICK c \in 1 .. MaxFaults : Accept(w, k, c)
      BY <2>2 DEF AcceptRetry
    <3>2. c \in Nat
      BY ConfigAssumption
    <3> QED
      BY <3>1, <3>2
  <2>3. CASE RespondOK(w, k)
    BY <2>3 DEF RespondOK
  <2>4. CASE RunOncePanic
    BY <2>4 DEF RunOncePanic, workerVars, loopVars, countVars
  <2>5. CASE RespondError(w, k) /\ ~RunOncePanic
    BY <2>5 DEF RespondError
  <2>6. CASE RespondConflict(w, k) /\ ~RunOncePanic
    <3> DEFINE ok == TestOf[w] = "custom_ethereum_contract"
    <3>1. Respond(w, k, ok) /\ Copies(w, k) # {}
      BY <2>6 DEF RespondConflict
    <3>2. ok \in BOOLEAN
      OBVIOUS
    <3> HIDE DEF ok
    <3> QED
      BY <3>1, <3>2
  <2> QED
    BY <1>3, <2>1, <2>2, <2>3, <2>4, <2>5, <2>6 DEF RunOnceStep, RunOnceFault
<1>4. ASSUME NEW n \in Nodes, EventStep(n) PROVE Kept
  BY <1>4 DEF EventStep, ReceiveUnknown, ReceiveWithoutURI, ReceiveEvent,
     TakeEvent, Deliver, CloseLoop, workerVars, loopVars, countVars, netVars
<1>5. CASE Environment
  <2>1. Kept
    BY <1>5 DEF Environment, LengthElapses, Interrupt, BecomeOverdue,
       LoseConnection, Redeliver, EmitStray, workerVars, loopVars, countVars,
       netVars
  <2> QED
    BY <2>1
<1>6. CASE UNCHANGED vars
  BY <1>6 DEF vars, workerVars, loopVars, countVars, netVars
<1> QED
  BY <1>1, <1>2, <1>3, <1>4, <1>5, <1>6 DEF Next, Ended
-----------------------------------------------------------------------------
(* The overshoot.  A slot is an index of a worker's loop; it is open from  *)
(* the start of its RunOnce goroutine until its answer has been read.  No  *)
(* slot opens once the counter has reached MaxActions, and each open one   *)
(* can raise it once.                                                      *)
Slots == Workers \X (0 .. ActionsPerLoop - 1)

OpenSlots == {s \in Slots : /\ resultCount[s[1]] <= s[2]
                            /\ s[2] < actionsCompleted[s[1]]}

OvershootInv ==
  MaxActions > 0 =>
    \/ totalActions < MaxActions
    \/ totalActions + Cardinality(OpenSlots)
         <= MaxActions - 1 + TotalWorkers * ActionsPerLoop

LEMMA SlotsFinite ==
  /\ IsFiniteSet(Slots) /\ Cardinality(Slots) = TotalWorkers * ActionsPerLoop
  /\ TotalWorkers * ActionsPerLoop \in Nat
<1>1. /\ IsFiniteSet(Workers) /\ Cardinality(Workers) = TotalWorkers
  BY FS_Interval, ConfigAssumption DEF Workers
<1>2. /\ IsFiniteSet(0 .. ActionsPerLoop - 1)
      /\ Cardinality(0 .. ActionsPerLoop - 1) = ActionsPerLoop
  BY FS_Interval, WorkerNumbers
<1>3. /\ IsFiniteSet(Slots)
      /\ Cardinality(Slots) = TotalWorkers * ActionsPerLoop
  BY <1>1, <1>2, FS_Product DEF Slots
<1> QED
  BY <1>3, FS_CardinalityType

LEMMA OpenSlotsFinite ==
  /\ IsFiniteSet(OpenSlots) /\ Cardinality(OpenSlots) \in Nat
  /\ Cardinality(OpenSlots) <= TotalWorkers * ActionsPerLoop
BY SlotsFinite, FS_Subset, FS_CardinalityType DEF OpenSlots

(* Reading an answer closes a slot.                                        *)
LEMMA CollectClosesSlot ==
  ASSUME TrackingInv, NEW w \in Workers, TakeResponse(w),
         UNCHANGED actionsCompleted
  PROVE  Cardinality(OpenSlots') = Cardinality(OpenSlots) - 1
<1> DEFINE s == <<w, resultCount[w]>>
<1>1. /\ resultCount' = [resultCount EXCEPT ![w] = @ + 1]
      /\ resultCount \in [Workers -> 0 .. ActionsPerLoop]
      /\ actionsCompleted \in [Workers -> 0 .. ActionsPerLoop]
  BY DEF TakeResponse, TrackingInv, TypeInv, TypeOK, WorkerTypeOK
<1>2. resultCount[w] < actionsCompleted[w]
  <2>1. Len(responses[w]) > 0
    BY LoopNumbers DEF TakeResponse
  <2> QED
    BY <2>1, AnswersAddUp, LoopNumbers
<1>3. s \in OpenSlots
  BY <1>1, <1>2, WorkerNumbers DEF OpenSlots, Slots
<1>4. OpenSlots' = OpenSlots \ {s}
  BY <1>1, <1>2, WorkerNumbers DEF OpenSlots, Slots
<1> QED
  BY <1>3, <1>4, OpenSlotsFinite, FS_RemoveElement

LEMMA NextOvershoot ==
  ASSUME TrackingInv, OvershootInv, [Next]_vars
  PROVE  OvershootInv'
<1> DEFINE Bound == MaxActions - 1 + TotalWorkers * ActionsPerLoop
<1> SUFFICES ASSUME MaxActions > 0
             PROVE  \/ totalActions' < MaxActions
                    \/ totalActions' + Cardinality(OpenSlots') <= Bound
  BY DEF OvershootInv
<1>1. MaxActions \in Nat /\ totalActions \in Nat /\ Bound \in Int
  BY ConfigAssumption, SlotsFinite
     DEF TrackingInv, TypeInv, TypeOK, MainTypeOK
<1>2. \/ totalActions < MaxActions
      \/ totalActions + Cardinality(OpenSlots) <= Bound
  BY DEF OvershootInv
<1>3. ASSUME NEW w \in Workers, SpawnAction(w)
      PROVE  totalActions' < MaxActions
  BY <1>1, <1>3 DEF SpawnAction, allActionsComplete, countVars
<1>4. ASSUME NEW w \in Workers, CollectSuccess(w) \/ CollectError(w)
      PROVE  \/ totalActions' < MaxActions
             \/ totalActions' + Cardinality(OpenSlots') <= Bound
  <2>1. Cardinality(OpenSlots') = Cardinality(OpenSlots) - 1
    BY <1>4, CollectClosesSlot DEF CollectSuccess, CollectError
  <2>2. totalActions' \in {totalActions, totalActions + 1}
    BY <1>4 DEF CollectSuccess, CollectError, countVars
  <2> HIDE DEF Bound
  <2>3. CASE totalActions < MaxActions - 1
    BY <1>1, <2>2, <2>3
  <2>4. CASE totalActions = MaxActions - 1
    <3>1. Cardinality(OpenSlots) <= TotalWorkers * ActionsPerLoop
      BY OpenSlotsFinite
    <3>2. totalActions' + Cardinality(OpenSlots') <= Bound
      BY <1>1, <2>1, <2>2, <2>4, <3>1, SlotsFinite, OpenSlotsFinite DEF Bound
    <3> QED
      BY <3>2
  <2>5. CASE totalActions >= MaxActions
    BY <1>1, <1>2, <2>1, <2>2, <2>5, OpenSlotsFinite
  <2> QED
    BY <1>1, <2>3, <2>4, <2>5
<1>5. ASSUME NEW w \in Workers, FinishLoop(w)
      PROVE  OpenSlots' = OpenSlots /\ totalActions' = totalActions
  <2>1. resultCount[w] = ActionsPerLoop
    BY <1>5, LoopNumbers DEF FinishLoop, Ledger
  <2>2. /\ resultCount' = [resultCount EXCEPT ![w] = 0]
        /\ actionsCompleted' = [actionsCompleted EXCEPT ![w] = 0]
        /\ totalActions' = totalActions
    BY <1>5 DEF FinishLoop, countVars
  <2>3. /\ resultCount \in [Workers -> 0 .. ActionsPerLoop]
        /\ actionsCompleted \in [Workers -> 0 .. ActionsPerLoop]
    BY DEF TrackingInv, TypeInv, TypeOK, WorkerTypeOK
  <2> QED
    BY <2>1, <2>2, <2>3, WorkerNumbers DEF OpenSlots, Slots
<1>6. ASSUME UNCHANGED <<totalActions, actionsCompleted, resultCount>>
      PROVE  OpenSlots' = OpenSlots /\ totalActions' = totalActions
  BY <1>6 DEF OpenSlots
<1>7. ASSUME NEW w \in Workers, NEW k,
             (\E c \in Nat : Accept(w, k, c)) \/ (\E ok \in BOOLEAN :
                                                   Respond(w, k, ok))
      PROVE  UNCHANGED <<totalActions, actionsCompleted, resultCount>>
  BY <1>7 DEF Accept, Respond, workerVars, loopVars, countVars
<1>8. CASE OpenSlots' = OpenSlots /\ totalActions' = totalActions
  BY <1>2, <1>8
<1> QED
  BY CountingSteps, <1>3, <1>4, <1>5, <1>6, <1>7, <1>8
-----------------------------------------------------------------------------
(* Each count has its transaction.  An accepted action is answered once    *)
(* its RunOnce goroutine has returned; every positive answer, counted or   *)
(* still waiting in actionResponses, is that of another answered action.   *)
(* The place of an answer in its loop's channel is numbered from 1.        *)
AcceptedActions == {p[1] : p \in accepted}

Answered ==
  {a \in AcceptedActions : ~(a[2] = loop[a[1]] /\ a[3] \in running[a[1]])}

OkWaiting ==
  {s \in Workers \X (1 .. ActionsPerLoop) :
     /\ s[2] - resultCount[s[1]] \in 1 .. Len(responses[s[1]])
     /\ responses[s[1]][s[2] - resultCount[s[1]]].ok = TRUE}

AcceptedKnown ==
  \A a \in AcceptedActions :
    a[2] <= loop[a[1]] /\ (a[2] = loop[a[1]] => a[3] < actionsCompleted[a[1]])

CountsInv ==
  /\ IsFiniteSet(AcceptedActions)
  /\ totalActions + Cardinality(OkWaiting) <= Cardinality(Answered)

LEMMA OkWaitingFinite ==
  ASSUME NEW S, S \subseteq Workers \X (1 .. ActionsPerLoop)
  PROVE  IsFiniteSet(S) /\ Cardinality(S) \in Nat
<1>1. IsFiniteSet(Workers) /\ IsFiniteSet(1 .. ActionsPerLoop)
  BY FS_Interval, ConfigAssumption DEF Workers
<1>2. IsFiniteSet(Workers \X (1 .. ActionsPerLoop))
  BY <1>1, FS_Product
<1> QED
  BY <1>2, FS_Subset, FS_CardinalityType

LEMMA CountingTypes ==
  ASSUME TrackingInv
  PROVE  /\ resultCount \in [Workers -> 0 .. ActionsPerLoop]
         /\ actionsCompleted \in [Workers -> 0 .. ActionsPerLoop]
         /\ responses \in [Workers -> Seq(Responses)]
         /\ running \in [Workers -> SUBSET (0 .. ActionsPerLoop - 1)]
         /\ loop \in [Workers -> Nat]
         /\ AcceptedActions \subseteq Actions
         /\ totalActions \in Nat
BY DEF TrackingInv, TypeInv, TypeOK, WorkerTypeOK, EventTypeOK, MainTypeOK,
       AcceptedActions

LEMMA AnsweredFinite ==
  ASSUME CountsInv
  PROVE  IsFiniteSet(Answered) /\ Cardinality(Answered) \in Nat
BY FS_Subset, FS_CardinalityType DEF CountsInv, Answered

(* Sets of places are equal if they have the same pairs.                   *)
LEMMA SamePlaces ==
  ASSUME NEW S, NEW T, S \subseteq Workers \X (1 .. ActionsPerLoop),
         T \subseteq Workers \X (1 .. ActionsPerLoop),
         \A v \in Workers, p \in 1 .. ActionsPerLoop :
            <<v, p>> \in S <=> <<v, p>> \in T
  PROVE  S = T
<1>1. ASSUME NEW s \in Workers \X (1 .. ActionsPerLoop)
      PROVE  s \in S <=> s \in T
  <2>1. s = <<s[1], s[2]>> /\ s[1] \in Workers /\ s[2] \in 1 .. ActionsPerLoop
    OBVIOUS
  <2> QED
    BY <2>1
<1> QED
  BY <1>1

(* Reading an answer takes its place out of OkWaiting, and no other.       *)
LEMMA CollectTakesOne ==
  ASSUME TrackingInv, NEW w \in Workers, TakeResponse(w)
  PROVE  OkWaiting' = OkWaiting \ {<<w, resultCount[w] + 1>>}
<1>1. /\ resultCount' = [resultCount EXCEPT ![w] = @ + 1]
      /\ responses' = [responses EXCEPT ![w] = Tail(@)]
      /\ resultCount[w] \in Nat
  BY LoopNumbers DEF TakeResponse
<1>2. /\ Len(Tail(responses[w])) = Len(responses[w]) - 1
      /\ \A m \in 1 .. Len(Tail(responses[w])) :
            Tail(responses[w])[m] = responses[w][m + 1]
      /\ Len(responses[w]) \in Nat \ {0}
  BY LoopNumbers, HeadTailProperties DEF TakeResponse
<1> SUFFICES ASSUME NEW v \in Workers, NEW p \in 1 .. ActionsPerLoop
             PROVE  <<v, p>> \in OkWaiting' <=>
                      <<v, p>> \in OkWaiting /\ <<v, p>> # <<w,
                                                  resultCount[w] + 1>>
  <2>1. /\ OkWaiting \subseteq Workers \X (1 .. ActionsPerLoop)
        /\ OkWaiting' \subseteq Workers \X (1 .. ActionsPerLoop)
    BY DEF OkWaiting
  <2> QED
    BY <2>1, SamePlaces
<1>3. CASE v # w
  BY <1>1, <1>3, CountingTypes DEF OkWaiting
<1>4. CASE v = w
  <2> DEFINE m == p - resultCount[w]
  <2>1. resultCount'[w] = resultCount[w] + 1 /\ responses'[w] = Tail(responses[w])
    BY <1>1, CountingTypes
  <2>2. p - resultCount'[w] = m - 1 /\ m \in Int /\ p \in Int
    BY <1>1, <2>1, WorkerNumbers
  <2>3. <<w, p>> \in OkWaiting' <=> /\ m - 1 \in 1 .. Len(responses[w]) - 1
                                     /\ Tail(responses[w])[m - 1].ok = TRUE
    BY <1>2, <2>1, <2>2 DEF OkWaiting
  <2>4. <<w, p>> \in OkWaiting <=> /\ m \in 1 .. Len(responses[w])
                                    /\ responses[w][m].ok = TRUE
    BY DEF OkWaiting
  <2>5. <<w, p>> = <<w, resultCount[w] + 1>> <=> m = 1
    BY <1>1, <2>2
  <2> HIDE DEF m
  <2>6. m - 1 \in 1 .. Len(responses[w]) - 1 <=>
          m \in 1 .. Len(responses[w]) /\ m # 1
    BY <1>2, <2>2
  <2>7. m - 1 \in 1 .. Len(responses[w]) - 1 =>
          Tail(responses[w])[m - 1] = responses[w][m]
    BY <1>2, <2>2
  <2> QED
    BY <1>4, <2>3, <2>4, <2>5, <2>6, <2>7
<1> QED
  BY <1>3, <1>4

(* An answer takes the next place.                                         *)
LEMMA RespondAddsOne ==
  ASSUME TrackingInv, NEW w \in Workers, NEW k \in running[w],
         NEW ok \in BOOLEAN, Respond(w, k, ok)
  PROVE  \E p : /\ <<w, p>> \notin OkWaiting
                /\ OkWaiting' = IF ok THEN OkWaiting \cup {<<w, p>>}
                                ELSE OkWaiting
<1> DEFINE len == Len(responses[w])
           place == resultCount[w] + len + 1
           r == ActionResponse(w, k, ok)
<1>1. /\ len \in Nat /\ resultCount[w] \in Nat
      /\ responses[w] \in Seq(Responses)
  BY LoopNumbers
<1>2. place \in 1 .. ActionsPerLoop
  <2>1. Cardinality(running[w]) # 0 /\ Cardinality(running[w]) \in Nat
    BY RunningFinite
  <2>2. /\ resultCount[w] + Len(responses[w]) + Cardinality(running[w])
             = actionsCompleted[w]
        /\ actionsCompleted[w] \in Nat /\ actionsCompleted[w] <= ActionsPerLoop
    BY AnswersAddUp, LoopNumbers
  <2> QED
    BY <1>1, <2>1, <2>2, WorkerNumbers
<1>3. /\ responses' = [responses EXCEPT ![w] = Append(@, r)]
      /\ UNCHANGED resultCount
  BY DEF Respond
<1>4. r \in Responses /\ r.ok = ok
  <2>1. trackingID(Act(w, k)) \in Actions
    BY RunningActs DEF TrackingInv
  <2> QED
    BY <2>1, Zenon DEF ActionResponse, Responses
<1>5. /\ Len(Append(responses[w], r)) = len + 1
      /\ \A m \in 1 .. len : Append(responses[w], r)[m] = responses[w][m]
      /\ Append(responses[w], r)[len + 1] = r
  BY <1>1, <1>4, AppendProperties
<1>6. <<w, place>> \notin OkWaiting
  BY <1>1 DEF OkWaiting
<1>7. ASSUME NEW v \in Workers, NEW p \in 1 .. ActionsPerLoop
      PROVE  <<v, p>> \in OkWaiting' <=>
               <<v, p>> \in OkWaiting \/ (ok = TRUE /\ <<v, p>> = <<w, place>>)
  <2>1. CASE v # w
    BY <1>3, <2>1, CountingTypes DEF OkWaiting
  <2>2. CASE v = w
    <3> DEFINE m == p - resultCount[w]
    <3>1. m \in Int /\ (p = place <=> m = len + 1)
      BY <1>1, WorkerNumbers
    <3>2. /\ responses'[w] = Append(responses[w], r)
          /\ resultCount'[w] = resultCount[w]
      BY <1>3, CountingTypes
    <3>3. <<w, p>> \in OkWaiting' <=> /\ m \in 1 .. len + 1
                                       /\ Append(responses[w], r)[m].ok = TRUE
      BY <1>5, <3>2 DEF OkWaiting
    <3>4. <<w, p>> \in OkWaiting <=> /\ m \in 1 .. len
                                      /\ responses[w][m].ok = TRUE
      BY DEF OkWaiting
    <3> HIDE DEF m, len, r, place
    <3>5. m \in 1 .. len + 1 <=> m \in 1 .. len \/ m = len + 1
      BY <1>1, <3>1
    <3>6. m = len + 1 => m \notin 1 .. len
      BY <1>1, <3>1
    <3> QED
      BY <1>4, <1>5, <2>2, <3>1, <3>3, <3>4, <3>5, <3>6
  <2> QED
    BY <2>1, <2>2
<1> HIDE DEF len, r, place
<1>8. OkWaiting' = IF ok THEN OkWaiting \cup {<<w, place>>} ELSE OkWaiting
  <2>1. /\ OkWaiting \subseteq Workers \X (1 .. ActionsPerLoop)
        /\ OkWaiting' \subseteq Workers \X (1 .. ActionsPerLoop)
        /\ <<w, place>> \in Workers \X (1 .. ActionsPerLoop)
    BY <1>2 DEF OkWaiting
  <2>2. CASE ok = TRUE
    BY <1>7, <2>1, <2>2, SamePlaces
  <2>3. CASE ok = FALSE
    BY <1>7, <2>1, <2>3, SamePlaces
  <2> QED
    BY <2>2, <2>3
<1> QED
  BY <1>6, <1>8

-----------------------------------------------------------------------------
LEMMA NextCounts ==
  ASSUME TrackingInv, AcceptedKnown, CountsInv, [Next]_vars
  PROVE  AcceptedKnown' /\ CountsInv'
<1> USE CountingTypes
<1>1. /\ Cardinality(OkWaiting) \in Nat /\ totalActions \in Nat
      /\ IsFiniteSet(OkWaiting)
  BY OkWaitingFinite DEF OkWaiting
<1>2. ASSUME NEW w \in Workers, SpawnAction(w)
      PROVE  AcceptedKnown' /\ CountsInv'
  <2>1. /\ running' = [running EXCEPT ![w] = @ \cup {actionsCompleted[w]}]
        /\ actionsCompleted' = [actionsCompleted EXCEPT ![w] = @ + 1]
        /\ UNCHANGED <<totalActions, responses, resultCount, loop, accepted>>
    BY <1>2 DEF SpawnAction, countVars, netVars
  <2>2. OkWaiting' = OkWaiting /\ AcceptedActions' = AcceptedActions
    BY <2>1 DEF OkWaiting, AcceptedActions
  <2>3. AcceptedKnown'
    BY <2>1, <2>2 DEF AcceptedKnown, Actions
  <2>4. Answered' = Answered
    BY <2>1, <2>2 DEF Answered, AcceptedKnown, Actions
  <2> QED
    BY <2>1, <2>2, <2>3, <2>4 DEF CountsInv
<1>3. ASSUME NEW w \in Workers, FinishLoop(w)
      PROVE  AcceptedKnown' /\ CountsInv'
  <2>1. /\ actionsCompleted' = [actionsCompleted EXCEPT ![w] = 0]
        /\ resultCount' = [resultCount EXCEPT ![w] = 0]
        /\ loop' = [loop EXCEPT ![w] = @ + 1]
        /\ UNCHANGED <<totalActions, responses, running, accepted>>
    BY <1>3 DEF FinishLoop, countVars, netVars
  <2>2. responses[w] = <<>> /\ running[w] = {}
    BY <1>3, LoopEmpty DEF FinishLoop
  <2>3. AcceptedActions' = AcceptedActions
    BY <2>1 DEF AcceptedActions
  <2>4. AcceptedKnown'
    BY <2>1, <2>3 DEF AcceptedKnown, Actions
  <2>5. Answered' = Answered
    BY <2>1, <2>2, <2>3 DEF Answered, Actions
  <2>6. OkWaiting' = OkWaiting
    BY <2>1, <2>2 DEF OkWaiting
  <2> QED
    BY <2>1, <2>3, <2>4, <2>5, <2>6 DEF CountsInv
<1>4. ASSUME NEW w \in Workers, CollectSuccess(w) \/ CollectError(w)
      PROVE  AcceptedKnown' /\ CountsInv'
  <2>1. UNCHANGED <<actionsCompleted, running, loop, accepted>>
    BY <1>4 DEF CollectSuccess, CollectError, netVars
  <2>2. /\ AcceptedActions' = AcceptedActions /\ Answered' = Answered
        /\ AcceptedKnown'
    BY <2>1 DEF AcceptedActions, Answered, AcceptedKnown
  <2> DEFINE s == <<w, resultCount[w] + 1>>
  <2>3. OkWaiting' = OkWaiting \ {s}
    BY <1>4, CollectTakesOne DEF CollectSuccess, CollectError
  <2>4. totalActions' + Cardinality(OkWaiting')
          <= totalActions + Cardinality(OkWaiting)
    <3>1. CASE CollectSuccess(w)
      <4>1. s \in OkWaiting
        <5>1. /\ Len(responses[w]) \in Nat \ {0} /\ resultCount[w] \in Nat
              /\ Head(responses[w]) = responses[w][1]
              /\ Head(responses[w]) \in Responses
          BY <3>1, LoopNumbers, HeadTailProperties
             DEF CollectSuccess, TakeResponse
        <5>2. resultCount[w] + 1 \in 1 .. ActionsPerLoop
          BY <3>1, <5>1, WorkerNumbers
             DEF CollectSuccess, TakeResponse, TrackingInv, TypeInv,
                CollectOpen
        <5>3. responses[w][1].ok = TRUE
          BY <3>1, <5>1 DEF CollectSuccess, Responses
        <5>4. (resultCount[w] + 1) - resultCount[w] = 1
          BY <5>1
        <5> QED
          BY <5>1, <5>2, <5>3, <5>4 DEF OkWaiting
      <4>2. Cardinality(OkWaiting') = Cardinality(OkWaiting) - 1
        BY <1>1, <2>3, <4>1, FS_RemoveElement
      <4>3. totalActions' = totalActions + 1
        BY <3>1 DEF CollectSuccess
      <4> QED
        BY <1>1, <4>2, <4>3
    <3>2. CASE CollectError(w)
      <4>1. totalActions' = totalActions
        BY <3>2 DEF CollectError, countVars
      <4>2. Cardinality(OkWaiting') <= Cardinality(OkWaiting)
            /\ Cardinality(OkWaiting') \in Nat
        BY <1>1, <2>3, FS_Subset, FS_CardinalityType
      <4> QED
        BY <1>1, <4>1, <4>2
    <3> QED
      BY <1>4, <3>1, <3>2
  <2>5. /\ totalActions' \in Nat /\ Cardinality(OkWaiting') \in Nat
        /\ Cardinality(Answered) \in Nat
    <3>1. totalActions' \in {totalActions, totalActions + 1}
      BY <1>4 DEF CollectSuccess, CollectError, countVars
    <3>2. Cardinality(OkWaiting') \in Nat
      BY <1>1, <2>3, FS_Subset, FS_CardinalityType
    <3> QED
      BY <1>1, <3>1, <3>2, AnsweredFinite
  <2> QED
    BY <1>1, <2>2, <2>4, <2>5 DEF CountsInv
<1>5. ASSUME NEW w \in Workers, NEW k \in running[w], NEW c \in Nat,
             Accept(w, k, c)
      PROVE  AcceptedKnown' /\ CountsInv'
  <2>1. /\ accepted' = accepted \cup {<<Act(w, k), c>>}
        /\ UNCHANGED <<totalActions, actionsCompleted, running, responses,
                       resultCount, loop>>
    BY <1>5 DEF Accept, countVars, workerVars, loopVars
  <2>2. AcceptedActions' = AcceptedActions \cup {Act(w, k)}
    <3> DEFINE p == <<Act(w, k), c>>
    <3>1. p[1] = Act(w, k) /\ accepted' = accepted \cup {p}
      BY <2>1
    <3> HIDE DEF p
    <3> QED
      BY <3>1 DEF AcceptedActions
  <2>3. OkWaiting' = OkWaiting
    BY <2>1 DEF OkWaiting
  <2>4. Answered' = Answered
    BY <2>1, <2>2 DEF Answered, Act
  <2>5. IsFiniteSet(AcceptedActions')
    BY <2>2, FS_AddElement DEF CountsInv
  <2>6. k \in 0 .. actionsCompleted[w] - 1
    BY LoopNumbers DEF Ledger
  <2>7. AcceptedKnown'
    BY <2>1, <2>2, <2>6 DEF AcceptedKnown, Act
  <2> QED
    BY <2>1, <2>3, <2>4, <2>5, <2>7 DEF CountsInv
<1>6. ASSUME NEW w \in Workers, NEW k \in running[w], NEW ok \in BOOLEAN,
             Respond(w, k, ok), ok => Copies(w, k) # {}
      PROVE  AcceptedKnown' /\ CountsInv'
  <2>1. /\ running' = [running EXCEPT ![w] = @ \ {k}]
        /\ UNCHANGED <<totalActions, actionsCompleted, loop, accepted>>
    BY <1>6 DEF Respond, countVars
  <2>2. AcceptedActions' = AcceptedActions /\ AcceptedKnown'
    BY <2>1 DEF AcceptedActions, AcceptedKnown
  <2>3. Answered \subseteq Answered' /\ IsFiniteSet(Answered')
    <3>1. Answered \subseteq Answered'
      BY <2>1, <2>2 DEF Answered, Actions
    <3>2. Answered' \subseteq AcceptedActions'
      BY DEF Answered
    <3> QED
      BY <2>2, <3>1, <3>2, FS_Subset DEF CountsInv
  <2>4. PICK p : /\ <<w, p>> \notin OkWaiting
                 /\ OkWaiting' = IF ok THEN OkWaiting \cup {<<w, p>>}
                                 ELSE OkWaiting
    BY <1>6, RespondAddsOne
  <2>5. CASE ok = FALSE
    <3>1. OkWaiting' = OkWaiting
      BY <2>4, <2>5
    <3>2. Cardinality(Answered) <= Cardinality(Answered')
          /\ Cardinality(Answered') \in Nat
      BY <2>3, FS_Subset, FS_CardinalityType
    <3> QED
      BY <1>1, <2>1, <2>2, <3>1, <3>2, AnsweredFinite DEF CountsInv
  <2>6. CASE ok = TRUE
    <3>1. Cardinality(OkWaiting') = Cardinality(OkWaiting) + 1
      BY <1>1, <2>4, <2>6, FS_AddElement
    <3>2. Act(w, k) \in AcceptedActions
      BY <1>6, <2>6 DEF Copies, AcceptedActions
    <3>3. Act(w, k) \notin Answered
      BY DEF Answered, Act
    <3>4. Act(w, k) \in Answered'
      BY <2>1, <2>2, <3>2 DEF Answered, Act
    <3>5. /\ Cardinality(Answered \cup {Act(w, k)}) = Cardinality(Answered) + 1
          /\ Answered \cup {Act(w, k)} \subseteq Answered'
      BY <2>3, <3>3, <3>4, AnsweredFinite, FS_AddElement
    <3>6. /\ Cardinality(Answered) + 1 <= Cardinality(Answered')
          /\ Cardinality(Answered') \in Nat
      BY <2>3, <3>5, FS_Subset, FS_CardinalityType
    <3> QED
      BY <1>1, <2>1, <2>2, <3>1, <3>6, AnsweredFinite DEF CountsInv
  <2> QED
    BY <2>5, <2>6
<1>7. ASSUME UNCHANGED <<totalActions, actionsCompleted, resultCount,
           responses,
                         running, loop, accepted>>
      PROVE  AcceptedKnown' /\ CountsInv'
  BY <1>7 DEF AcceptedKnown, CountsInv, AcceptedActions, Answered, OkWaiting
<1> QED
  BY CountingSteps, <1>2, <1>3, <1>4, <1>5, <1>6, <1>7
-----------------------------------------------------------------------------
CountingInv == TrackingInv /\ OvershootInv /\ AcceptedKnown /\ CountsInv

LEMMA InitCounting == Init => CountingInv
<1> SUFFICES ASSUME Init PROVE CountingInv
  OBVIOUS
<1>1. TrackingInv
  BY InitTracking
<1>2. OvershootInv
  BY ConfigAssumption DEF Init, OvershootInv
<1>3. AcceptedActions = {} /\ AcceptedKnown
  BY DEF Init, AcceptedActions, AcceptedKnown
<1>4. OkWaiting = {} /\ Answered = {}
  BY <1>3 DEF Init, OkWaiting, Answered
<1>5. CountsInv
  BY <1>3, <1>4, FS_EmptySet DEF Init, CountsInv
<1> QED
  BY <1>1, <1>2, <1>3, <1>5 DEF CountingInv

LEMMA NextCounting == CountingInv /\ [Next]_vars => CountingInv'
BY NextTrackingInv, NextOvershoot, NextCounts DEF CountingInv

(* The counter that ends the test passes MaxActions by less than the       *)
(* actions all the workers can have in one loop, however submissions,      *)
(* answers and failures interleave (runLoop tests it before each RunOnce). *)
THEOREM OvershootIsBounded == Spec => []OvershootBound
<1>1. CountingInv => OvershootBound
  <2> SUFFICES ASSUME CountingInv, MaxActions > 0
               PROVE  totalActions
                        <= MaxActions - 1 + TotalWorkers * ActionsPerLoop
    BY DEF OvershootBound
  <2>1. totalActions \in Nat /\ MaxActions \in Nat
    BY ConfigAssumption, CountingTypes DEF CountingInv
  <2> QED
    BY <2>1, SlotsFinite, OpenSlotsFinite DEF CountingInv, OvershootInv
<1> QED
  BY <1>1, InitCounting, NextCounting, PTL DEF Spec

(* Whatever is retried, refused or lost, the action count of the report    *)
(* never exceeds the actions FireFly has accepted.                         *)
THEOREM CountIsBacked == Spec => []CountsAccepted
<1>1. CountingInv => CountsAccepted
  <2> SUFFICES ASSUME CountingInv
               PROVE  totalActions <= Cardinality(AcceptedActions)
    BY DEF CountsAccepted, AcceptedActions
  <2>1. Cardinality(OkWaiting) \in Nat /\ totalActions \in Nat
    BY OkWaitingFinite, CountingTypes DEF OkWaiting, CountingInv
  <2>2. /\ Cardinality(Answered) <= Cardinality(AcceptedActions)
        /\ Cardinality(Answered) \in Nat /\ Cardinality(AcceptedActions) \in Nat
    BY FS_Subset, FS_CardinalityType DEF CountingInv, CountsInv, Answered
  <2> QED
    BY <2>1, <2>2 DEF CountingInv, CountsInv
<1> QED
  BY <1>1, InitCounting, NextCounting, PTL DEF Spec
=============================================================================
