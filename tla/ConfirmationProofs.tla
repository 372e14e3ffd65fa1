------------------------- MODULE ConfirmationProofs -------------------------
(***************************************************************************)
(* What a run without faults owes its workers: the confirmations a worker  *)
(* waits for are those on their way, no event loop is held up by a worker  *)
(* that has moved on, no worker moves on early, and PerfRunner implements  *)
(* the closed loop of ClosedLoop.                                          *)
(*                                                                         *)
(* The invariant follows each confirmation from the acceptance of its      *)
(* action to the worker: it is in transit (pending on its node, or held by *)
(* the node's event loop) until ActionConfirmed counts it, and Balanced    *)
(* adds the two up.  Only the count of what is in transit is compared with *)
(* confirmations, because runLoop counts events without looking whose they *)
(* are; that they are the right ones is TransitIsCurrent.                  *)
(***************************************************************************)
EXTENDS PerfRunnerProofs

(* The runs for which the code's count of confirmations can be right.  It  *)
(* waits for confirmations at all; filterEvent finds the worker of an      *)
(* event (that of an ERC-20 transfer has the amount in the worker's place);*)
(* a mint releases its worker with its message or with its transfer, not   *)
(* with both or neither; a private message has a sender and a recipient    *)
(* that are two nodes.  core.cfg is such a run.                            *)
SteadyConfig ==
  /\ Faults = {} /\ NoWaitSubmission = FALSE /\ SkipMintConfirmations = FALSE
  /\ \A w \in Workers :
       /\ TestOf[w] # "erc20_transfer"
       /\ TestOf[w] = "token_mint" => (SupportsData <=> ~SupportsURI)
       /\ TestOf[w] \in PrivateTests => Cardinality(Parties) = 2

(* The one event of an action by which a node releases its worker.         *)
ReleasePart(w) ==
  IF TestOf[w] = "token_mint" /\ SupportsURI THEN "transfer" ELSE "message"

Release(w, k) == [kind |-> "own", action |-> Act(w, k), copy |-> 0,
                  part |-> ReleasePart(w)]

(* No answer is an error, so no worker fails and nothing is cancelled.     *)
NoFailure ==
  /\ ctxDone = FALSE
  /\ \A w \in Workers :
       /\ wpc[w] \notin {"failed", "stopped"}
       /\ \A m \in 1 .. Len(responses[w]) : responses[w][m].ok = TRUE

(* Every submission is accepted once, unless its goroutine still runs.     *)
AcceptedOnce ==
  /\ \A p \in accepted : p[2] = 0
  /\ \A w \in Workers : \A k \in 0 .. actionsCompleted[w] - 1 :
       k \in running[w] \/ <<Act(w, k), 0>> \in accepted

(* Nodes only have events of accepted actions that concern them, and an    *)
(* event loop holds one it has taken off the websocket.                    *)
FromAccepted(n, e) ==
  /\ <<e.action, 0>> \in accepted /\ e \in EventsOf(e.action, 0)
  /\ n \in Confirmers(e.action[1])

EventsKnown ==
  \A n \in Nodes :
    /\ \A e \in pending[n] : FromAccepted(n, e)
    /\ epc[n] # "deliver" => event[n] = NoEvent
    /\ epc[n] = "deliver" =>
         /\ FromAccepted(n, event[n]) /\ event[n] \notin pending[n]
         /\ filterEvent(event[n]) = event[n].action[1]

(* The confirmations in transit are of the worker's loop.  Until it waits  *)
(* for them none is consumed; then what is in transit and what it has      *)
(* counted add up to what it has not yet ticked off.  Once the test is     *)
(* stopping events are dropped, and the sum can only fall behind.          *)
Owing(w) ==
  (actionsCompleted[w] - confirmedActions[w]) * confirmationsPerAction(w)

Balanced(w) ==
  /\ \A t \in InTransit(w) : t[2].action[2] = loop[w]
  /\ wpc[w] \in {"submit", "collect"} /\ ~stopping =>
       \A k \in 0 .. ActionsPerLoop - 1, n \in Confirmers(w) :
         <<Act(w, k), 0>> \in accepted => <<n, Release(w, k)>> \in InTransit(w)
  /\ wpc[w] # "confirm" => confirmations[w] = 0
  /\ wpc[w] = "confirm" =>
       /\ Cardinality(InTransit(w)) + confirmations[w] <= Owing(w)
       /\ ~stopping => Cardinality(InTransit(w)) + confirmations[w] = Owing(w)

SteadyInv ==
  /\ CountingInv /\ SteadyConfig /\ NoFailure /\ AcceptedOnce /\ EventsKnown
  /\ \A w \in Workers : Balanced(w)
-----------------------------------------------------------------------------
LEMMA ConfirmersCount ==
  ASSUME SteadyConfig, NEW w \in Workers
  PROVE  /\ Confirmers(w) \subseteq Nodes /\ IsFiniteSet(Confirmers(w))
         /\ Cardinality(Confirmers(w)) = confirmationsPerAction(w)
         /\ confirmationsPerAction(w) \in Nat
<1>1. Confirmers(w) \subseteq Nodes /\ IsFiniteSet(Confirmers(w))
  BY ConfigAssumption, FS_Subset DEF Confirmers
<1>2. Cardinality(Confirmers(w)) = confirmationsPerAction(w)
  BY DEF SteadyConfig, Confirmers, confirmationsPerAction
<1> QED
  BY <1>1, <1>2, FS_CardinalityType

(* filterEvent finds the worker of an action in exactly one of its events. *)
LEMMA FilterOwn ==
  ASSUME SteadyConfig, NEW a \in Actions, NEW e \in EventsOf(a, 0)
  PROVE  /\ e.action = a /\ e.kind = "own"
         /\ filterEvent(e) \in {a[1], NoWorker} /\ a[1] # NoWorker
         /\ filterEvent(e) = a[1] =>
              e = [kind |-> "own", action |-> a, copy |-> 0,
                   part |-> ReleasePart(a[1])]
<1>1. PICK p \in EventParts(a[1]) :
        e = [kind |-> "own", action |-> a, copy |-> 0, part |-> p]
  BY DEF EventsOf
<1>2. a[1] \in Workers /\ a[1] # NoWorker
  BY DEF Actions, Workers, NoWorker
<1>3. filterEvent(e) = IF p = "transfer" /\ ~SupportsURI THEN NoWorker ELSE a[1]
  BY <1>1, <1>2 DEF filterEvent, SteadyConfig
<1>4. p = "transfer" /\ SupportsURI => ReleasePart(a[1]) = p
  BY <1>1, <1>2 DEF EventParts, ReleasePart
<1>5. p # "transfer" => p = "message" /\ ReleasePart(a[1]) = p
  BY <1>1, <1>2 DEF EventParts, ReleasePart, SteadyConfig
<1> QED
  BY <1>1, <1>2, <1>3, <1>4, <1>5

LEMMA ReleaseIsEvent ==
  ASSUME SteadyConfig, TypeInv, NEW w \in Workers, NEW k \in Nat
  PROVE  /\ Release(w, k) \in EventsOf(Act(w, k), 0)
         /\ filterEvent(Release(w, k)) = w
<1>1. ReleasePart(w) \in EventParts(w)
  BY DEF ReleasePart, EventParts, SteadyConfig
<1>2. Release(w, k) \in EventsOf(Act(w, k), 0)
  BY <1>1 DEF EventsOf, Release, Act
<1>3. ReleasePart(w) = "transfer" => SupportsURI
  BY DEF ReleasePart
<1>4. filterEvent(Release(w, k)) = w
  BY <1>3 DEF filterEvent, Release, SteadyConfig, Act
<1> QED
  BY <1>2, <1>4

LEMMA NoEventIsNobodys == filterEvent(NoEvent) = NoWorker
BY DEF filterEvent, NoEvent, StrayKinds

LEMMA InTransitIs ==
  \A w, n, e : <<n, e>> \in InTransit(w) <=>
                 n \in Nodes /\ (e \in pending[n] \/ e = event[n])
                 /\ filterEvent(e) = w
<1> SUFFICES ASSUME NEW w, NEW n, NEW e
             PROVE  <<n, e>> \in InTransit(w) <=>
                      n \in Nodes /\ (e \in pending[n] \/ e = event[n])
                      /\ filterEvent(e) = w
  OBVIOUS
<1>1. ASSUME n \in Nodes, e \in pending[n] \/ e = event[n]
      PROVE  <<n, e>> \in UNION {{m} \X (pending[m] \cup {event[m]}) :
           m \in Nodes}
  <2>1. <<n, e>> \in {n} \X (pending[n] \cup {event[n]})
    BY <1>1
  <2> QED
    BY <1>1, <2>1
<1>2. ASSUME <<n, e>> \in UNION {{m} \X (pending[m] \cup {event[m]}) :
           m \in Nodes}
      PROVE  n \in Nodes /\ (e \in pending[n] \/ e = event[n])
  <2>1. PICK m \in Nodes : <<n, e>> \in {m} \X (pending[m] \cup {event[m]})
    BY <1>2
  <2> QED
    BY <2>1
<1> DEFINE p == <<n, e>>
<1>3. p[2] = e
  OBVIOUS
<1> QED
  BY <1>1, <1>2, <1>3 DEF InTransit

LEMMA InTransitIsNext ==
  \A w, n, e : <<n, e>> \in InTransit(w)' <=>
                 n \in Nodes /\ (e \in pending'[n] \/ e = event'[n])
                 /\ filterEvent(e) = w
<1>1. (\A w, n, e : <<n, e>> \in InTransit(w) <=>
                      n \in Nodes /\ (e \in pending[n] \/ e = event[n])
                      /\ filterEvent(e) = w)'
  BY InTransitIs, PTL
<1> QED
  BY <1>1

LEMMA InTransitPairs ==
  \A w : \A t \in InTransit(w) : t = <<t[1], t[2]>>
<1> SUFFICES ASSUME NEW w, NEW t \in InTransit(w) PROVE t = <<t[1], t[2]>>
  OBVIOUS
<1>1. PICK m \in Nodes : t \in {m} \X (pending[m] \cup {event[m]})
  BY DEF InTransit
<1> QED
  BY <1>1

LEMMA InTransitPairsNext ==
  \A w : \A t \in InTransit(w)' : t = <<t[1], t[2]>>
<1>1. (\A w : \A t \in InTransit(w) : t = <<t[1], t[2]>>)'
  BY InTransitPairs, PTL
<1> QED
  BY <1>1

(* Two states of a worker's events that agree on every pair are the same.  *)
LEMMA SameTransit ==
  ASSUME NEW w, NEW D,
         \A n, e : <<n, e>> \in InTransit(w)' <=>
                     <<n, e>> \in InTransit(w) /\ <<n, e>> \notin D
  PROVE  InTransit(w)' = InTransit(w) \ D
<1>1. \A t \in InTransit(w)' : t \in InTransit(w) \ D
  BY InTransitPairsNext
<1>2. \A t \in InTransit(w) \ D : t \in InTransit(w)'
  BY InTransitPairs
<1> QED
  BY <1>1, <1>2

LEMMA TransitKept ==
  ASSUME NEW w, UNCHANGED <<pending, event>>
  PROVE  InTransit(w)' = InTransit(w)
BY DEF InTransit
-----------------------------------------------------------------------------
LEMMA SteadyTypes ==
  ASSUME SteadyInv
  PROVE  /\ TypeInv /\ TrackingInv
         /\ wpc \in [Workers -> {"ramp", "idle", "submit", "collect",
              "confirm",
                                 "failed", "stopped"}]
         /\ loop \in [Workers -> Nat]
         /\ actionsCompleted \in [Workers -> 0 .. ActionsPerLoop]
         /\ running \in [Workers -> SUBSET (0 .. ActionsPerLoop - 1)]
         /\ responses \in [Workers -> Seq(Responses)]
         /\ resultCount \in [Workers -> 0 .. ActionsPerLoop]
         /\ confirmedActions \in [Workers -> 0 .. ActionsPerLoop]
         /\ confirmations \in [Workers -> Nat]
         /\ epc \in [Nodes -> {"receive", "deliver", "dead", "closed"}]
         /\ event \in [Nodes -> Events \cup {NoEvent}]
         /\ pending \in [Nodes -> SUBSET Events]
         /\ accepted \in SUBSET (Actions \X Nat)
BY DEF SteadyInv, CountingInv, TrackingInv, TypeInv, TypeOK, WorkerTypeOK,
       EventTypeOK

(* What is on its way to a worker are releases of its current loop.        *)
LEMMA TransitIsCurrent ==
  ASSUME SteadyInv, NEW w \in Workers, NEW n, NEW e, <<n, e>> \in InTransit(w)
  PROVE  /\ n \in Confirmers(w)
         /\ e.action[3] \in 0 .. actionsCompleted[w] - 1
         /\ e = Release(w, e.action[3])
         /\ <<Act(w, e.action[3]), 0>> \in accepted
<1>1. n \in Nodes /\ (e \in pending[n] \/ e = event[n]) /\ filterEvent(e) = w
  BY InTransitIs
<1>2. w # NoWorker
  BY DEF Workers, NoWorker
<1>3. FromAccepted(n, e)
  BY <1>1, <1>2, NoEventIsNobodys DEF SteadyInv, EventsKnown
<1> DEFINE a == e.action
<1>4. a \in Actions /\ <<a, 0>> \in accepted /\ e \in EventsOf(a, 0)
  BY <1>3, SteadyTypes DEF FromAccepted
<1>5. /\ w = a[1]
      /\ e = [kind |-> "own", action |-> a, copy |-> 0,
           part |-> ReleasePart(w)]
  BY <1>1, <1>2, <1>4, FilterOwn DEF SteadyInv
<1>6. a[2] = loop[w]
  <2> DEFINE t == <<n, e>>
  <2>1. t \in InTransit(w) /\ t[2] = e
    OBVIOUS
  <2> HIDE DEF t
  <2> QED
    BY <2>1 DEF SteadyInv, Balanced
<1>7. a = Act(w, a[3]) /\ a[3] \in Nat
  BY <1>4, <1>5, <1>6 DEF Act, Actions
<1>8. a[3] < actionsCompleted[w]
  <2> DEFINE p == <<a, 0>>
  <2>1. p \in accepted /\ p[1] = a
    BY <1>4
  <2> HIDE DEF p
  <2>2. a \in AcceptedActions
    BY <2>1 DEF AcceptedActions
  <2> QED
    BY <2>2, <1>5, <1>6 DEF SteadyInv, CountingInv, AcceptedKnown
<1>9. a[3] \in 0 .. actionsCompleted[w] - 1
  BY <1>7, <1>8, SteadyTypes, WorkerNumbers
<1> QED
  BY <1>3, <1>4, <1>5, <1>7, <1>9 DEF FromAccepted, Release

(* All the releases of a loop, and how many that are.                      *)
Releases(w) ==
  {<<c[1], Release(w, c[2])>> :
       c \in Confirmers(w) \X (0 .. ActionsPerLoop - 1)}

LEMMA ReleasesCount ==
  ASSUME SteadyConfig, NEW w \in Workers
  PROVE  /\ IsFiniteSet(Releases(w))
         /\ Cardinality(Releases(w)) = confirmationsPerAction(w) * ActionsPerLoop
<1> DEFINE C == Confirmers(w) \X (0 .. ActionsPerLoop - 1)
           f == [c \in C |-> <<c[1], Release(w, c[2])>>]
<1>1. /\ IsFiniteSet(0 .. ActionsPerLoop - 1)
      /\ Cardinality(0 .. ActionsPerLoop - 1) = ActionsPerLoop
  BY FS_Interval, WorkerNumbers
<1>2. /\ IsFiniteSet(C)
      /\ Cardinality(C) = confirmationsPerAction(w) * ActionsPerLoop
  BY <1>1, ConfirmersCount, FS_Product
<1>3. f \in Surjection(C, Releases(w))
  BY DEF Surjection, Releases
<1>4. f \in Injection(C, Releases(w))
  <2>1. ASSUME NEW c \in C, NEW d \in C, f[c] = f[d] PROVE c = d
    <3>1. c = <<c[1], c[2]>> /\ d = <<d[1], d[2]>>
      OBVIOUS
    <3>2. <<c[1], Release(w, c[2])>> = <<d[1], Release(w, d[2])>>
      BY <2>1
    <3>3. c[1] = d[1] /\ Release(w, c[2]) = Release(w, d[2])
      BY <3>2
    <3>4. Release(w, c[2]).action[3] = c[2] /\ Release(w,
                                                 d[2]).action[3] = d[2]
      BY DEF Release, Act
    <3> QED
      BY <3>1, <3>3, <3>4
  <2>2. f \in [C -> Releases(w)]
    BY DEF Releases
  <2> HIDE DEF f, C
  <2> QED
    BY <2>1, <2>2 DEF Injection, IsInjective
<1> QED
  BY <1>2, <1>3, <1>4, FS_Surjection

LEMMA TransitFinite ==
  ASSUME SteadyInv, NEW w \in Workers
  PROVE  /\ InTransit(w) \subseteq Releases(w) /\ IsFiniteSet(InTransit(w))
         /\ Cardinality(InTransit(w)) \in Nat
<1>1. ASSUME NEW t \in InTransit(w) PROVE t \in Releases(w)
  <2> DEFINE n == t[1]
             e == t[2]
  <2>1. t = <<n, e>>
    BY InTransitPairs
  <2>2. /\ n \in Confirmers(w) /\ e.action[3] \in 0 .. actionsCompleted[w] - 1
        /\ e = Release(w, e.action[3])
    BY <2>1, TransitIsCurrent
  <2>3. e.action[3] \in 0 .. ActionsPerLoop - 1
    BY <2>2, SteadyTypes, WorkerNumbers
  <2> DEFINE c == <<n, e.action[3]>>
  <2>4. c \in Confirmers(w) \X (0 .. ActionsPerLoop - 1)
        /\ c[1] = n /\ c[2] = e.action[3]
    BY <2>2, <2>3
  <2> HIDE DEF c, n, e
  <2> QED
    BY <2>1, <2>2, <2>4 DEF Releases
<1>2. IsFiniteSet(Releases(w))
  BY ReleasesCount DEF SteadyInv
<1> QED
  BY <1>1, <1>2, FS_Subset, FS_CardinalityType

-----------------------------------------------------------------------------
(* The steps that remain without faults.                                   *)
Quiet ==
  /\ UNCHANGED <<wpc, loop, actionsCompleted, running, responses,
                 confirmedActions, confirmations, epc, event, pending,
                 accepted, ctxDone>>
  /\ ~stopping' => ~stopping

LoopStep(w) ==
  \/ RampUp(w) \/ TakeToken(w) \/ SpawnAction(w) \/ EndSubmit(w)
  \/ CollectSuccess(w) \/ ActionConfirmed(w) \/ FinishLoop(w)

LEMMA NoFaults ==
  ASSUME SteadyConfig
  PROVE  \A kind : ~Inject(kind)
BY DEF SteadyConfig, Inject

LEMMA HeadIsOK ==
  ASSUME SteadyInv, NEW w \in Workers, responses[w] # <<>>
  PROVE  Head(responses[w]).ok = TRUE
<1>1. Len(responses[w]) \in Nat \ {0} /\ Head(responses[w]) = responses[w][1]
  BY SteadyTypes
<1> QED
  BY <1>1 DEF SteadyInv, NoFailure

LEMMA SteadySteps ==
  ASSUME SteadyInv, [Next]_vars
  PROVE  \/ Quiet
         \/ \E w \in Workers : LoopStep(w)
         \/ \E w \in Workers : \E k \in running[w] :
              AcceptFirst(w, k) \/ RespondOK(w, k)
         \/ \E n \in Nodes : \E e \in pending[n] : ReceiveEvent(n, e)
         \/ \E n \in Nodes : Deliver(n)
<1> USE NoFaults DEF SteadyInv
<1>1. CASE MainStep
  <2>1. UNCHANGED <<workerVars, eventVars, netVars, clockVars>> \/ SelectSignal
    BY <1>1 DEF MainStep, LoopCheck, SelectSend, LimiterWait,
       SelectTimeout, StopTest, DrainTallied, DrainIdle, LeaveDrain, Report,
       Cleanup
  <2>2. UNCHANGED <<workerVars, eventVars, netVars, ctxDone>>
    BY <2>1 DEF clockVars, SelectSignal
  <2>3. ~stopping' => ~stopping
    BY <1>1 DEF MainStep, LoopCheck, SelectSignal, SelectSend, LimiterWait,
       SelectTimeout, StopTest, DrainTallied, DrainIdle, LeaveDrain, Report,
       Cleanup
  <2> QED
    BY <2>2, <2>3 DEF Quiet, workerVars, loopVars, eventVars, netVars
<1>2. ASSUME NEW w \in Workers, WorkerStep(w) PROVE LoopStep(w)
  <2>1. ~StopIdle(w) /\ ~AwaitCancelled(w)
    BY DEF StopIdle, AwaitCancelled, NoFailure
  <2>2. ~CollectError(w)
    BY HeadIsOK DEF CollectError, TakeResponse
  <2> QED
    BY <1>2, <2>1, <2>2 DEF WorkerStep, LoopStep
<1>3. ASSUME NEW w \in Workers, NEW k \in running[w],
             RunOnceStep(w, k) \/ RunOnceFault(w, k)
      PROVE  AcceptFirst(w, k) \/ RespondOK(w, k)
  BY <1>3 DEF RunOnceStep, RunOnceFault, AcceptRetry, RespondError,
              RespondConflict
<1>4. ASSUME NEW n \in Nodes, EventStep(n)
      PROVE  Deliver(n) \/ \E e \in pending[n] : ReceiveEvent(n, e)
  <2>1. ~CloseLoop(n)
    BY DEF CloseLoop, NoFailure
  <2>2. ASSUME NEW e \in pending[n] PROVE e.kind = "own"
    <3>1. FromAccepted(n, e)
      BY DEF EventsKnown
    <3>2. e.action \in Actions
      BY <3>1, SteadyTypes DEF FromAccepted
    <3> QED
      BY <3>1, <3>2, FilterOwn DEF FromAccepted
  <2>3. \A e \in pending[n] : ~ReceiveUnknown(n, e) /\ ~ReceiveWithoutURI(n, e)
    BY <2>2 DEF ReceiveUnknown, ReceiveWithoutURI, MissesURI
  <2> QED
    BY <1>4, <2>1, <2>3 DEF EventStep
<1>5. CASE Environment
  <2>1. LengthElapses \/ \E id \in msgTimeMap : BecomeOverdue(id)
    BY <1>5 DEF Environment, Interrupt, LoseConnection, Redeliver, EmitStray
  <2> QED
    BY <2>1 DEF LengthElapses, BecomeOverdue, Quiet, mainVars, clockVars,
                workerVars, loopVars, eventVars, netVars
<1>6. CASE UNCHANGED vars
  BY <1>6 DEF vars, Quiet, mainVars, clockVars, workerVars, loopVars,
     eventVars,
              netVars
<1> QED
  BY <1>1, <1>2, <1>3, <1>4, <1>5, <1>6 DEF Next, Ended
-----------------------------------------------------------------------------
(* A worker that a step leaves alone stays in balance.                     *)
LEMMA BalancedKept ==
  ASSUME NEW w \in Workers, Balanced(w), InTransit(w)' = InTransit(w),
         wpc'[w] = wpc[w], loop'[w] = loop[w],
         actionsCompleted'[w] = actionsCompleted[w],
         confirmedActions'[w] = confirmedActions[w],
         confirmations'[w] = confirmations[w],
         \A k : <<Act(w, k), 0>> \in accepted' =>
              <<Act(w, k), 0>> \in accepted,
         ~stopping' => ~stopping
  PROVE  Balanced(w)'
<1>1. \A k : Act(w, k)' = Act(w, k) /\ Release(w, k)' = Release(w, k)
  BY DEF Act, Release
<1>2. Owing(w)' = Owing(w)
  BY DEF Owing
<1> QED
  BY <1>1, <1>2 DEF Balanced

LEMMA QuietSteady ==
  ASSUME SteadyInv, Quiet
  PROVE  /\ NoFailure' /\ AcceptedOnce' /\ EventsKnown'
         /\ \A w \in Workers : Balanced(w)'
<1> USE DEF Quiet, SteadyInv
<1>1. NoFailure' /\ AcceptedOnce' /\ EventsKnown'
  BY DEF NoFailure, AcceptedOnce, Act, EventsKnown, FromAccepted
<1>2. ASSUME NEW w \in Workers PROVE Balanced(w)'
  BY TransitKept, BalancedKept
<1> QED
  BY <1>1, <1>2

-----------------------------------------------------------------------------
(* The steps of a worker, one by one: what they leave alone first.         *)
LEMMA LoopStepFrame ==
  ASSUME SteadyInv, NEW w \in Workers, LoopStep(w)
  PROVE  /\ UNCHANGED <<epc, event, pending, accepted, ctxDone, stopping>>
         /\ \A v \in Workers : v # w =>
              /\ wpc'[v] = wpc[v] /\ loop'[v] = loop[v]
              /\ actionsCompleted'[v] = actionsCompleted[v]
              /\ running'[v] = running[v] /\ responses'[v] = responses[v]
              /\ confirmedActions'[v] = confirmedActions[v]
              /\ confirmations'[v] = confirmations[v]
<1> USE SteadyTypes DEF eventVars, netVars, clockVars, mainVars, loopVars
<1>1. CASE RampUp(w)
  BY <1>1 DEF RampUp
<1>2. CASE TakeToken(w)
  BY <1>2 DEF TakeToken
<1>3. CASE SpawnAction(w)
  BY <1>3 DEF SpawnAction
<1>4. CASE EndSubmit(w)
  BY <1>4 DEF EndSubmit
<1>5. CASE CollectSuccess(w)
  BY <1>5 DEF CollectSuccess, TakeResponse
<1>6. CASE ActionConfirmed(w)
  BY <1>6 DEF ActionConfirmed
<1>7. CASE FinishLoop(w)
  BY <1>7 DEF FinishLoop
<1> QED
  BY <1>1, <1>2, <1>3, <1>4, <1>5, <1>6, <1>7 DEF LoopStep

(* A loop that starts has nothing accepted and nothing on its way yet.     *)
LEMMA NothingYet ==
  ASSUME SteadyInv, NEW w \in Workers, wpc[w] \in {"ramp", "idle"}
  PROVE  /\ InTransit(w) = {} /\ actionsCompleted[w] = 0
         /\ \A k \in Nat : <<Act(w, k), 0>> \notin accepted
<1>1. actionsCompleted[w] = 0
  BY LoopNumbers, SteadyTypes DEF Ledger
<1>2. ASSUME NEW t \in InTransit(w) PROVE FALSE
  <2>1. <<t[1], t[2]>> \in InTransit(w)
    BY InTransitPairs
  <2>2. t[2].action[3] \in 0 .. actionsCompleted[w] - 1
    BY <2>1, TransitIsCurrent
  <2> QED
    BY <1>1, <2>2
<1>3. ASSUME NEW k \in Nat PROVE <<Act(w, k), 0>> \notin accepted
  <2> DEFINE p == <<Act(w, k), 0>>
  <2>1. p[1] = Act(w, k) /\ Act(w, k) = <<w, loop[w], k>>
    BY DEF Act
  <2> HIDE DEF p
  <2>2. p \in accepted => Act(w, k) \in AcceptedActions
    BY <2>1 DEF AcceptedActions
  <2>3. Act(w, k) \in AcceptedActions => k < actionsCompleted[w]
    BY <2>1 DEF SteadyInv, CountingInv, AcceptedKnown
  <2>4. p \notin accepted
    BY <1>1, <2>2, <2>3
  <2> QED
    BY <2>4 DEF p
<1> QED
  BY <1>1, <1>2, <1>3

(* When the last answer of a loop is read, every action of it has been     *)
(* accepted; unless the test is stopping, every release is on its way.     *)
LEMMA LastAnswer ==
  ASSUME SteadyInv, NEW w \in Workers, wpc[w] = "collect", responses[w] # <<>>,
         resultCount[w] + 1 = ActionsPerLoop
  PROVE  /\ actionsCompleted[w] = ActionsPerLoop
         /\ Cardinality(InTransit(w)) <= confirmationsPerAction(w) * ActionsPerLoop
         /\ ~stopping => Cardinality(InTransit(w))
                           = confirmationsPerAction(w) * ActionsPerLoop
<1> USE SteadyTypes
<1>1. /\ resultCount[w] + Len(responses[w]) + Cardinality(running[w])
           = actionsCompleted[w]
      /\ Len(responses[w]) # 0
  BY AnswersAddUp, LoopNumbers
<1>2. actionsCompleted[w] = ActionsPerLoop /\ Cardinality(running[w]) = 0
  BY <1>1, LoopNumbers, WorkerNumbers
<1>3. running[w] = {}
  BY <1>2, RunningFinite
<1>4. \A k \in 0 .. ActionsPerLoop - 1 : <<Act(w, k), 0>> \in accepted
  BY <1>2, <1>3 DEF SteadyInv, AcceptedOnce
<1>5. ASSUME ~stopping PROVE InTransit(w) = Releases(w)
  <2>1. \A k \in 0 .. ActionsPerLoop - 1, n \in Confirmers(w) :
          <<n, Release(w, k)>> \in InTransit(w)
    BY <1>4, <1>5 DEF SteadyInv, Balanced
  <2>2. Releases(w) \subseteq InTransit(w)
    BY <2>1 DEF Releases
  <2> QED
    BY <2>2, TransitFinite
<1>6. Cardinality(InTransit(w)) <= Cardinality(Releases(w))
  BY TransitFinite, ReleasesCount, FS_Subset DEF SteadyInv
<1> QED
  BY <1>2, <1>5, <1>6, ReleasesCount DEF SteadyInv

LEMMA LoopStepOwn ==
  ASSUME SteadyInv, NEW w \in Workers, LoopStep(w)
  PROVE  Balanced(w)'
<1> USE SteadyTypes
<1>0. InTransit(w)' = InTransit(w) /\ UNCHANGED <<accepted, stopping>>
  BY LoopStepFrame, TransitKept
<1>00. Balanced(w)
  BY DEF SteadyInv
<1>1. CASE RampUp(w) \/ TakeToken(w)
  <2>1. /\ wpc[w] \in {"ramp", "idle"} /\ wpc'[w] \in {"idle", "submit"}
        /\ UNCHANGED loopVars
    BY <1>1 DEF RampUp, TakeToken
  <2>2. \A k \in 0 .. ActionsPerLoop - 1 : <<Act(w, k), 0>> \notin accepted
    BY <2>1, NothingYet, WorkerNumbers
  <2>3. \A k : Act(w, k)' = Act(w, k)
    BY <2>1 DEF Act, loopVars
  <2> QED
    BY <1>0, <1>00, <2>1, <2>2, <2>3 DEF Balanced, loopVars
<1>2. CASE SpawnAction(w) \/ EndSubmit(w)
  <2>1. /\ wpc[w] = "submit" /\ wpc'[w] \in {"submit", "collect"}
        /\ UNCHANGED <<loop, confirmations>>
    BY <1>2 DEF SpawnAction, EndSubmit, loopVars
  <2>2. \A k : Act(w, k)' = Act(w, k) /\ Release(w, k)' = Release(w, k)
    BY <2>1 DEF Act, Release
  <2> QED
    BY <1>0, <1>00, <2>1, <2>2 DEF Balanced
<1>3. CASE CollectSuccess(w)
  <2>1. /\ wpc[w] = "collect" /\ responses[w] # <<>>
        /\ wpc'[w] = AfterResponse(w)
        /\ UNCHANGED <<loop, actionsCompleted, confirmedActions,
             confirmations>>
    BY <1>3 DEF CollectSuccess, TakeResponse
  <2>2. \A k : Act(w, k)' = Act(w, k) /\ Release(w, k)' = Release(w, k)
    BY <2>1 DEF Act, Release
  <2>3. CASE resultCount[w] + 1 = ActionsPerLoop
    <3>1. wpc'[w] = "confirm"
      BY <2>1, <2>3 DEF AfterResponse
    <3>2. confirmedActions[w] = 0 /\ confirmations[w] = 0
      BY <1>00, <2>1, LoopNumbers DEF Ledger, Balanced
    <3>3. Owing(w)' = confirmationsPerAction(w) * ActionsPerLoop
      BY <2>1, <2>3, <3>2, LastAnswer, ConfirmersCount, WorkerNumbers
         DEF Owing, SteadyInv
    <3>4. /\ Cardinality(InTransit(w)) <= Owing(w)'
          /\ ~stopping => Cardinality(InTransit(w)) = Owing(w)'
      BY <2>1, <2>3, <3>3, LastAnswer
    <3>5. Cardinality(InTransit(w)) + confirmations'[w] = Cardinality(InTransit(w))
      BY <2>1, <3>2, TransitFinite
    <3> QED
      BY <1>0, <1>00, <2>1, <3>1, <3>4, <3>5 DEF Balanced
  <2>4. CASE resultCount[w] + 1 # ActionsPerLoop
    <3>1. wpc'[w] = "collect"
      BY <2>1, <2>4 DEF AfterResponse
    <3> QED
      BY <1>0, <1>00, <2>1, <2>2, <3>1 DEF Balanced
  <2> QED
    BY <2>3, <2>4
<1>4. CASE ActionConfirmed(w)
  <2> DEFINE ac == actionsCompleted[w]
             ca == confirmedActions[w]
             p  == confirmationsPerAction(w)
             c  == Cardinality(InTransit(w))
  <2>1. /\ wpc[w] = "confirm" /\ wpc' = wpc /\ confirmations[w] = p
        /\ confirmedActions'[w] = ca + 1 /\ confirmations'[w] = 0
        /\ UNCHANGED <<loop, actionsCompleted>>
    BY <1>4 DEF ActionConfirmed
  <2>2. ac \in Int /\ ca \in Int /\ p \in Nat /\ c \in Nat
    BY ConfirmersCount, TransitFinite, LoopNumbers DEF SteadyInv
  <2>3. Owing(w) = (ac - ca) * p /\ Owing(w)' = (ac - (ca + 1)) * p
    BY <2>1 DEF Owing
  <2>4. /\ c + p <= (ac - ca) * p
        /\ ~stopping => c + p = (ac - ca) * p
    BY <1>00, <2>1, <2>3 DEF Balanced
  <2> HIDE DEF ac, ca, p, c
  <2>5. (ac - ca) * p = (ac - (ca + 1)) * p + p /\ (ac - (ca + 1)) * p \in Int
    BY <2>2
  <2>6. /\ c + 0 <= (ac - (ca + 1)) * p
        /\ ~stopping => c + 0 = (ac - (ca + 1)) * p
    BY <2>2, <2>4, <2>5
  <2> QED
    BY <1>0, <1>00, <2>1, <2>3, <2>6 DEF Balanced, c
<1>5. CASE FinishLoop(w)
  <2>1. /\ wpc[w] = "confirm" /\ wpc'[w] = "idle"
        /\ confirmedActions[w] = actionsCompleted[w]
        /\ UNCHANGED confirmations
    BY <1>5 DEF FinishLoop, AllConfirmed
  <2>2. Owing(w) = 0
    BY <2>1, ConfirmersCount, WorkerNumbers DEF Owing, SteadyInv
  <2>3. Cardinality(InTransit(w)) = 0 /\ confirmations[w] = 0
    BY <1>00, <2>1, <2>2, TransitFinite DEF Balanced
  <2>4. InTransit(w) = {}
    BY <2>3, TransitFinite, FS_EmptySet
  <2> QED
    BY <1>0, <2>1, <2>3, <2>4 DEF Balanced
<1> QED
  BY <1>1, <1>2, <1>3, <1>4, <1>5 DEF LoopStep

LEMMA LoopStepSteady ==
  ASSUME SteadyInv, NEW w \in Workers, LoopStep(w)
  PROVE  /\ NoFailure' /\ AcceptedOnce' /\ EventsKnown'
         /\ \A v \in Workers : Balanced(v)'
<1>0. /\ UNCHANGED <<epc, event, pending, accepted, ctxDone, stopping>>
      /\ \A v \in Workers : v # w =>
           /\ wpc'[v] = wpc[v] /\ loop'[v] = loop[v]
           /\ actionsCompleted'[v] = actionsCompleted[v]
           /\ running'[v] = running[v] /\ responses'[v] = responses[v]
           /\ confirmedActions'[v] = confirmedActions[v]
           /\ confirmations'[v] = confirmations[v]
  BY LoopStepFrame
<1>1. EventsKnown'
  BY <1>0 DEF SteadyInv, EventsKnown, FromAccepted
<1>2. ASSUME NEW v \in Workers PROVE Balanced(v)'
  <2>1. CASE v = w
    BY <2>1, LoopStepOwn
  <2>2. CASE v # w
    <3>1. InTransit(v)' = InTransit(v)
      BY <1>0, TransitKept
    <3>2. Balanced(v) /\ (~stopping' => ~stopping)
      BY <1>0 DEF SteadyInv
    <3>3. \A k : <<Act(v, k), 0>> \in accepted' =>
               <<Act(v, k), 0>> \in accepted
      BY <1>0
    <3> QED
      BY <1>0, <2>2, <3>1, <3>2, <3>3, BalancedKept
  <2> QED
    BY <2>1, <2>2
<1>3. NoFailure'
  <2>1. wpc'[w] \notin {"failed", "stopped"}
    <3>1. wpc'[w] \in {wpc[w], "idle", "submit", "collect", "confirm"}
      <4>1. CASE RampUp(w) \/ TakeToken(w) \/ EndSubmit(w)
        BY <4>1, SteadyTypes DEF RampUp, TakeToken, EndSubmit
      <4>2. CASE SpawnAction(w) \/ ActionConfirmed(w)
        BY <4>2 DEF SpawnAction, ActionConfirmed
      <4>3. CASE CollectSuccess(w)
        BY <4>3, SteadyTypes DEF CollectSuccess, TakeResponse, AfterResponse
      <4>4. CASE FinishLoop(w)
        BY <4>4, SteadyTypes DEF FinishLoop
      <4> QED
        BY <4>1, <4>2, <4>3, <4>4 DEF LoopStep
    <3> QED
      BY <3>1 DEF SteadyInv, NoFailure
  <2>2. \A m \in 1 .. Len(responses'[w]) : responses'[w][m].ok = TRUE
    <3>1. CASE CollectSuccess(w)
      <4>1. /\ responses'[w] = Tail(responses[w]) /\ responses[w] # <<>>
            /\ responses[w] \in Seq(Responses)
        BY <3>1, SteadyTypes DEF CollectSuccess, TakeResponse
      <4>2. /\ Len(responses'[w]) = Len(responses[w]) - 1
            /\ Len(responses[w]) \in Nat
            /\ \A m \in 1 .. Len(responses'[w]) :
                  responses'[w][m] = responses[w][m + 1]
        BY <4>1, HeadTailProperties
      <4>3. ASSUME NEW m \in 1 .. Len(responses'[w])
            PROVE  m + 1 \in 1 .. Len(responses[w])
        BY <4>2
      <4> QED
        BY <4>2, <4>3 DEF SteadyInv, NoFailure
    <3>2. CASE ~CollectSuccess(w)
      <4>1. responses'[w] = responses[w]
        BY <3>2 DEF LoopStep, RampUp, TakeToken, SpawnAction, EndSubmit,
                    ActionConfirmed, FinishLoop, loopVars
      <4> QED
        BY <4>1 DEF SteadyInv, NoFailure
    <3> QED
      BY <3>1, <3>2
  <2> QED
    BY <1>0, <2>1, <2>2 DEF SteadyInv, NoFailure
<1>4. AcceptedOnce'
  <2>1. \A p \in accepted' : p[2] = 0
    BY <1>0 DEF SteadyInv, AcceptedOnce
  <2>2. ASSUME NEW v \in Workers, NEW k \in 0 .. actionsCompleted'[v] - 1
        PROVE  k \in running'[v] \/ <<Act(v, k)', 0>> \in accepted'
    <3>1. CASE v # w
      BY <1>0, <2>2, <3>1 DEF Act, SteadyInv, AcceptedOnce
    <3>2. CASE v = w /\ SpawnAction(w)
      <4>1. /\ running'[w] = running[w] \cup {actionsCompleted[w]}
            /\ actionsCompleted'[w] = actionsCompleted[w] + 1
            /\ loop' = loop
        BY <3>2, SteadyTypes DEF SpawnAction
      <4>2. k \in 0 .. actionsCompleted[w] - 1 \/ k = actionsCompleted[w]
        BY <2>2, <3>2, <4>1, WorkerNumbers, SteadyTypes
      <4> QED
        BY <1>0, <3>2, <4>1, <4>2 DEF Act, SteadyInv, AcceptedOnce
    <3>3. CASE v = w /\ FinishLoop(w)
      <4>1. actionsCompleted'[w] = 0
        BY <3>3, SteadyTypes DEF FinishLoop
      <4> QED
        BY <2>2, <3>3, <4>1
    <3>4. CASE v = w /\ ~SpawnAction(w) /\ ~FinishLoop(w)
      <4>1. UNCHANGED <<actionsCompleted, running, loop>>
        BY <3>4 DEF LoopStep, RampUp, TakeToken, EndSubmit, CollectSuccess,
                    ActionConfirmed, loopVars
      <4> QED
        BY <1>0, <2>2, <3>4, <4>1 DEF Act, SteadyInv, AcceptedOnce
    <3> QED
      BY <3>1, <3>2, <3>3, <3>4
  <2> QED
    BY <2>1, <2>2 DEF AcceptedOnce
<1> QED
  BY <1>1, <1>2, <1>3, <1>4

-----------------------------------------------------------------------------
(* FireFly takes an action: every node that confirms it has a release on   *)
(* its way to the worker.                                                  *)
LEMMA AcceptTransit ==
  ASSUME SteadyInv, NEW w \in Workers, NEW k \in running[w], AcceptFirst(w, k),
         NEW v \in Workers, NEW n, NEW e
  PROVE  <<n, e>> \in InTransit(v)' <=>
           \/ <<n, e>> \in InTransit(v)
           \/ v = w /\ n \in Confirmers(w) /\ e = Release(w, k)
<1> USE SteadyTypes
<1>1. /\ event' = event
      /\ \A m \in Nodes : pending'[m] = IF m \in Confirmers(w)
                                        THEN pending[m] \cup EventsOf(Act(w,
                                             k), 0)
                                        ELSE pending[m]
  BY DEF AcceptFirst, Accept, eventVars
<1>2. Act(w, k) \in Actions /\ Act(w, k)[1] = w /\ k \in Nat
  BY RunningActs, WorkerNumbers DEF Act
<1>3. Confirmers(w) \subseteq Nodes /\ w # NoWorker /\ v # NoWorker
  BY ConfirmersCount DEF SteadyInv, Workers, NoWorker
<1>4. /\ Release(w, k) \in EventsOf(Act(w, k), 0)
      /\ filterEvent(Release(w, k)) = w
  BY <1>2, ReleaseIsEvent DEF SteadyInv
<1>5. e \in EventsOf(Act(w, k), 0) /\ filterEvent(e) = v <=>
        v = w /\ e = Release(w, k)
  <2>1. ASSUME e \in EventsOf(Act(w, k), 0), filterEvent(e) = v
        PROVE  v = w /\ e = Release(w, k)
    <3>1. v = w
      BY <1>2, <1>3, <2>1, FilterOwn DEF SteadyInv
    <3> QED
      BY <1>2, <2>1, <3>1, FilterOwn DEF SteadyInv, Release
  <2> QED
    BY <1>4, <2>1
<1>6. <<n, e>> \in InTransit(v)' <=>
        n \in Nodes /\ (e \in pending'[n] \/ e = event'[n]) /\ filterEvent(e) = v
  BY InTransitIsNext
<1>7. <<n, e>> \in InTransit(v) <=>
        n \in Nodes /\ (e \in pending[n] \/ e = event[n]) /\ filterEvent(e) = v
  BY InTransitIs
<1> QED
  BY <1>1, <1>3, <1>5, <1>6, <1>7

LEMMA AcceptSteady ==
  ASSUME SteadyInv, NEW w \in Workers, NEW k \in running[w], AcceptFirst(w, k)
  PROVE  /\ NoFailure' /\ AcceptedOnce' /\ EventsKnown'
         /\ \A v \in Workers : Balanced(v)'
<1> USE SteadyTypes
<1> DEFINE p == <<Act(w, k), 0>>
<1>1. /\ UNCHANGED <<wpc, loop, actionsCompleted, running, responses,
                     confirmedActions, confirmations, epc, event, ctxDone,
                     stopping>>
      /\ accepted' = accepted \cup {p}
      /\ \A m \in Nodes : pending'[m] = IF m \in Confirmers(w)
                                        THEN pending[m] \cup EventsOf(Act(w,
                                             k), 0)
                                        ELSE pending[m]
  BY DEF AcceptFirst, Accept, workerVars, loopVars, eventVars, clockVars,
     mainVars
<1>2. p[1] = Act(w, k) /\ p[2] = 0 /\ p \notin accepted
  <2>1. p[1] = Act(w, k) /\ p[2] = 0
    OBVIOUS
  <2> HIDE DEF p
  <2> QED
    BY <2>1 DEF AcceptFirst, Copies
<1>3. /\ Act(w, k) \in Actions /\ Act(w, k) = <<w, loop[w], k>>
      /\ k \in 0 .. actionsCompleted[w] - 1
  BY RunningActs, LoopNumbers DEF Act, Ledger
<1>4. wpc[w] \in {"submit", "collect"}
  <2>1. wpc[w] \notin {"ramp", "idle"}
    BY <1>3, NothingYet
  <2>2. wpc[w] # "confirm"
    BY LoopEmpty
  <2> QED
    BY <2>1, <2>2 DEF SteadyInv, NoFailure
<1>5. NoFailure'
  BY <1>1 DEF SteadyInv, NoFailure
<1>6. AcceptedOnce'
  BY <1>1, <1>2 DEF SteadyInv, AcceptedOnce, Act
<1>7. EventsKnown'
  <2> SUFFICES ASSUME NEW n \in Nodes
               PROVE  /\ \A e \in pending'[n] : FromAccepted(n, e)'
                      /\ epc'[n] # "deliver" => event'[n] = NoEvent
                      /\ epc'[n] = "deliver" =>
                           /\ FromAccepted(n, event[n])'
                           /\ event'[n] \notin pending'[n]
                           /\ filterEvent(event[n])' = event'[n].action[1]
    BY <1>1 DEF EventsKnown
  <2>1. \A e \in EventsOf(Act(w, k), 0) : e.action = Act(w, k)
    BY <1>3, FilterOwn DEF SteadyInv
  <2>2. ASSUME NEW e \in pending'[n] PROVE FromAccepted(n, e)'
    <3>1. CASE e \in pending[n]
      BY <1>1, <3>1 DEF SteadyInv, EventsKnown, FromAccepted
    <3>2. CASE e \notin pending[n]
      <4>1. e \in EventsOf(Act(w, k), 0) /\ n \in Confirmers(w)
        BY <1>1, <2>2, <3>2
      <4> HIDE SteadyTypes
      <4>2. e.action = Act(w, k) /\ e.action[1] = w
        <5>1. e.action = Act(w, k)
          BY <2>1, <4>1
        <5> QED
          BY <5>1 DEF Act
      <4>3. <<e.action, 0>> \in accepted'
        BY <1>1, <4>2
      <4>4. e \in EventsOf(e.action, 0) /\ n \in Confirmers(e.action[1])
        BY <4>1, <4>2
      <4> QED
        BY <4>3, <4>4 DEF FromAccepted
    <3> QED
      BY <3>1, <3>2
  <2>3. ASSUME epc[n] = "deliver" PROVE event[n] \notin pending'[n]
    <3>1. FromAccepted(n, event[n]) /\ event[n] \notin pending[n]
      BY <2>3 DEF SteadyInv, EventsKnown
    <3>2. event[n] \notin EventsOf(Act(w, k), 0)
      BY <1>2, <2>1, <3>1 DEF FromAccepted
    <3> QED
      BY <1>1, <3>1, <3>2
  <2> QED
    BY <1>1, <2>2, <2>3 DEF SteadyInv, EventsKnown, FromAccepted
<1>8. ASSUME NEW v \in Workers, v # w PROVE Balanced(v)'
  <2>1. InTransit(v)' = InTransit(v)
    <3>1. \A n, e : <<n, e>> \in InTransit(v)' <=> <<n, e>> \in InTransit(v)
      BY <1>8, AcceptTransit
    <3>2. InTransit(v)' = InTransit(v) \ {}
      BY <3>1, SameTransit
    <3> QED
      BY <3>2
  <2>2. \A j : <<Act(v, j), 0>> \in accepted' => <<Act(v, j), 0>> \in accepted
    BY <1>1, <1>3, <1>8 DEF Act
  <2>3. Balanced(v) /\ (~stopping' => ~stopping)
    BY <1>1 DEF SteadyInv
  <2> QED
    BY <1>1, <2>1, <2>2, <2>3, BalancedKept
<1>9. Balanced(w)'
  <2>1. Balanced(w)
    BY DEF SteadyInv
  <2>2. ASSUME NEW t \in InTransit(w)' PROVE t[2].action[2] = loop'[w]
    <3>1. t = <<t[1], t[2]>>
      BY InTransitPairsNext
    <3>2. t \in InTransit(w) \/ t[2] = Release(w, k)
      BY <3>1, AcceptTransit
    <3> QED
      BY <1>1, <2>1, <3>2 DEF Balanced, Release, Act
  <2>3. ASSUME ~stopping', NEW j \in 0 .. ActionsPerLoop - 1,
               NEW n \in Confirmers(w), <<Act(w, j)', 0>> \in accepted'
        PROVE  <<n, Release(w, j)'>> \in InTransit(w)'
    <3>1. Act(w, j)' = Act(w, j) /\ Release(w, j)' = Release(w, j)
      BY <1>1 DEF Act, Release
    <3>2. CASE <<Act(w, j), 0>> \in accepted
      <4>1. <<n, Release(w, j)>> \in InTransit(w)
        BY <1>1, <1>4, <2>1, <2>3, <3>2 DEF Balanced
      <4> QED
        BY <3>1, <4>1, AcceptTransit
    <3>3. CASE <<Act(w, j), 0>> \notin accepted
      <4>1. j = k
        BY <1>1, <2>3, <3>1, <3>3 DEF Act
      <4> QED
        BY <3>1, <4>1, AcceptTransit
    <3> QED
      BY <3>2, <3>3
  <2> QED
    BY <1>1, <1>4, <2>1, <2>2, <2>3 DEF Balanced
<1> QED
  BY <1>5, <1>6, <1>7, <1>8, <1>9

LEMMA RespondSteady ==
  ASSUME SteadyInv, NEW w \in Workers, NEW k \in running[w], RespondOK(w, k)
  PROVE  /\ NoFailure' /\ AcceptedOnce' /\ EventsKnown'
         /\ \A v \in Workers : Balanced(v)'
<1>1. /\ UNCHANGED <<wpc, loop, actionsCompleted, confirmedActions,
                     confirmations, epc, event, pending, accepted, ctxDone,
                     stopping>>
      /\ running' = [running EXCEPT ![w] = @ \ {k}]
      /\ responses' = [responses EXCEPT ![w] = Append(@, ActionResponse(w,
           k, TRUE))]
  BY DEF RespondOK, Respond, eventVars, clockVars, mainVars
<1>2. NoFailure'
  <2>1. ActionResponse(w, k, TRUE).ok = TRUE
        /\ ActionResponse(w, k, TRUE) \in Responses
    <3>1. trackingID(Act(w, k)) \in Actions
      BY RunningActs, SteadyTypes
    <3> QED
      BY <3>1, Zenon DEF ActionResponse, Responses
  <2>2. /\ Len(responses'[w]) = Len(responses[w]) + 1
        /\ \A m \in 1 .. Len(responses[w]) : responses'[w][m] = responses[w][m]
        /\ responses'[w][Len(responses[w]) + 1] = ActionResponse(w, k, TRUE)
        /\ Len(responses[w]) \in Nat
    <3>1. responses'[w] = Append(responses[w], ActionResponse(w, k, TRUE))
      BY <1>1, SteadyTypes
    <3>2. responses[w] \in Seq(Responses) /\ Len(responses[w]) \in Nat
      BY LoopNumbers, SteadyTypes
    <3> DEFINE r == ActionResponse(w, k, TRUE)
    <3>4. r \in Responses
      BY <2>1
    <3> HIDE DEF r
    <3>3. /\ Len(Append(responses[w], r)) = Len(responses[w]) + 1
          /\ \A m \in 1 .. Len(responses[w]) :
               Append(responses[w], r)[m] = responses[w][m]
          /\ Append(responses[w], r)[Len(responses[w]) + 1] = r
      BY <3>2, <3>4, AppendProperties
    <3> QED
      BY <3>1, <3>2, <3>3 DEF r
  <2>3. ASSUME NEW m \in 1 .. Len(responses'[w]) PROVE responses'[w][m].ok = TRUE
    <3>1. m \in 1 .. Len(responses[w]) \/ m = Len(responses[w]) + 1
      BY <2>2
    <3> QED
      BY <2>1, <2>2, <3>1 DEF SteadyInv, NoFailure
  <2> QED
    BY <1>1, <2>3, SteadyTypes DEF SteadyInv, NoFailure
<1>3. <<Act(w, k), 0>> \in accepted
  <2>1. PICK p \in accepted : p[1] = Act(w, k)
    BY DEF RespondOK, Copies
  <2>2. p = <<p[1], p[2]>> /\ p[2] = 0
    BY SteadyTypes DEF SteadyInv, AcceptedOnce
  <2> QED
    BY <2>1, <2>2
<1>4. AcceptedOnce'
  BY <1>1, <1>3, SteadyTypes DEF SteadyInv, AcceptedOnce, Act
<1>5. EventsKnown'
  BY <1>1 DEF SteadyInv, EventsKnown, FromAccepted
<1>6. ASSUME NEW v \in Workers PROVE Balanced(v)'
  <2>1. InTransit(v)' = InTransit(v)
    BY <1>1, TransitKept
  <2>2. Balanced(v) /\ (~stopping' => ~stopping)
    BY <1>1 DEF SteadyInv
  <2> QED
    BY <1>1, <2>1, <2>2, BalancedKept
<1> QED
  BY <1>2, <1>4, <1>5, <1>6
-----------------------------------------------------------------------------
(* An event loop takes an event: it keeps a release for its worker, unless *)
(* the test is stopping, and drops everything else.                        *)
LEMMA ReceiveTransit ==
  ASSUME SteadyInv, NEW n \in Nodes, NEW e \in pending[n], ReceiveEvent(n, e),
         NEW v \in Workers
  PROVE  /\ \/ InTransit(v)' = InTransit(v)
            \/ InTransit(v)' = InTransit(v) \ {<<n, e>>}
         /\ ~stopping => InTransit(v)' = InTransit(v)
<1> USE SteadyTypes
<1>1. /\ epc[n] = "receive" /\ event[n] = NoEvent
      /\ pending' = [pending EXCEPT ![n] = @ \ {e}]
  BY DEF ReceiveEvent, TakeEvent, SteadyInv, EventsKnown
<1>2. v # NoWorker /\ filterEvent(NoEvent) # v
  BY NoEventIsNobodys DEF Workers, NoWorker
<1>3. \A m, x : <<m, x>> \in InTransit(v)' <=>
        m \in Nodes /\ (x \in pending'[m] \/ x = event'[m]) /\ filterEvent(x) = v
  BY InTransitIsNext
<1>4. \A m, x : <<m, x>> \in InTransit(v) <=>
        m \in Nodes /\ (x \in pending[m] \/ x = event[m]) /\ filterEvent(x) = v
  BY InTransitIs
<1>5. CASE ReleasesWorkers /\ filterEvent(e) # NoWorker
  <2>1. event' = [event EXCEPT ![n] = e]
    BY <1>5 DEF ReceiveEvent
  <2>2. \A m, x : <<m, x>> \in InTransit(v)' <=> <<m, x>> \in InTransit(v)
    BY <1>1, <1>2, <1>3, <1>4, <2>1
  <2>3. InTransit(v)' = InTransit(v) \ {}
    BY <2>2, SameTransit
  <2> QED
    BY <2>3
<1>6. CASE ~(ReleasesWorkers /\ filterEvent(e) # NoWorker)
  <2>1. event' = event
    BY <1>6 DEF ReceiveEvent
  <2>2. \A m, x : <<m, x>> \in InTransit(v)' <=>
                    <<m, x>> \in InTransit(v) /\ <<m, x>> \notin {<<n, e>>}
    BY <1>1, <1>2, <1>3, <1>4, <2>1
  <2>3. InTransit(v)' = InTransit(v) \ {<<n, e>>}
    BY <2>2, SameTransit
  <2>4. ASSUME ~stopping PROVE <<n, e>> \notin InTransit(v)
    <3>1. filterEvent(e) = NoWorker
      BY <1>6, <2>4 DEF ReleasesWorkers, SteadyInv, SteadyConfig
    <3> QED
      BY <1>2, <1>4, <3>1
  <2> QED
    BY <2>3, <2>4
<1> QED
  BY <1>5, <1>6

LEMMA ReceiveSteady ==
  ASSUME SteadyInv, NEW n \in Nodes, NEW e \in pending[n], ReceiveEvent(n, e)
  PROVE  /\ NoFailure' /\ AcceptedOnce' /\ EventsKnown'
         /\ \A v \in Workers : Balanced(v)'
<1> USE SteadyTypes
<1>0. FromAccepted(n, e)
  BY DEF SteadyInv, EventsKnown
<1>1. e.kind = "own" /\ filterEvent(e) \in {e.action[1], NoWorker}
  BY <1>0, FilterOwn DEF SteadyInv, FromAccepted
<1>2. /\ UNCHANGED <<wpc, loop, actionsCompleted, running, responses,
                     confirmedActions, confirmations, accepted, stopping>>
      /\ epc[n] = "receive" /\ event[n] = NoEvent
      /\ pending' = [pending EXCEPT ![n] = @ \ {e}]
      /\ ctxDone' = ctxDone
  <2>1. ctxDone' = FALSE
    BY <1>1 DEF ReceiveEvent, SteadyInv, NoFailure
  <2>2. ctxDone' = ctxDone
    BY <2>1 DEF SteadyInv, NoFailure
  <2> QED
    BY <2>2 DEF ReceiveEvent, TakeEvent, SteadyInv, EventsKnown, workerVars,
                loopVars
<1>3. NoFailure' /\ AcceptedOnce'
  BY <1>2 DEF SteadyInv, NoFailure, AcceptedOnce, Act
<1>4. EventsKnown'
  <2>1. CASE ReleasesWorkers /\ filterEvent(e) # NoWorker
    <3>1. /\ epc' = [epc EXCEPT ![n] = "deliver"]
          /\ event' = [event EXCEPT ![n] = e]
      BY <2>1 DEF ReceiveEvent
    <3>2. e \notin pending'[n] /\ filterEvent(e) = e.action[1]
      BY <1>1, <1>2, <2>1
    <3> QED
      BY <1>0, <1>2, <3>1, <3>2 DEF SteadyInv, EventsKnown, FromAccepted
  <2>2. CASE ~(ReleasesWorkers /\ filterEvent(e) # NoWorker)
    <3>1. UNCHANGED <<epc, event>>
      BY <2>2 DEF ReceiveEvent
    <3> QED
      BY <1>2, <3>1 DEF SteadyInv, EventsKnown, FromAccepted
  <2> QED
    BY <2>1, <2>2
<1>5. ASSUME NEW v \in Workers PROVE Balanced(v)'
  <2>1. /\ InTransit(v)' = InTransit(v) \/ InTransit(v)' = InTransit(v) \ {<<n, e>>}
        /\ ~stopping => InTransit(v)' = InTransit(v)
    BY ReceiveTransit
  <2>2. Balanced(v) /\ (~stopping' => ~stopping)
    BY <1>2 DEF SteadyInv
  <2>3. CASE InTransit(v)' = InTransit(v)
    BY <1>2, <2>2, <2>3, BalancedKept
  <2>4. CASE InTransit(v)' = InTransit(v) \ {<<n, e>>} /\ stopping
    <3>1. /\ Cardinality(InTransit(v)') <= Cardinality(InTransit(v))
          /\ Cardinality(InTransit(v)') \in Nat
      BY <2>4, TransitFinite, FS_Subset, FS_CardinalityType
    <3>2. /\ Owing(v)' = Owing(v) /\ Owing(v) \in Int
          /\ confirmations[v] \in Nat /\ Cardinality(InTransit(v)) \in Nat
      <4>1. /\ actionsCompleted[v] - confirmedActions[v] \in Int
            /\ confirmationsPerAction(v) \in Int
        BY LoopNumbers, ConfirmersCount DEF SteadyInv
      <4> QED
        BY <1>2, <4>1, TransitFinite DEF Owing
    <3>3. \A t \in InTransit(v)' : t[2].action[2] = loop'[v]
      BY <1>2, <2>2, <2>4 DEF Balanced
    <3>4. wpc'[v] = "confirm" =>
            Cardinality(InTransit(v)') + confirmations'[v] <= Owing(v)'
      BY <1>2, <2>2, <3>1, <3>2 DEF Balanced
    <3>5. stopping'
      BY <1>2, <2>4
    <3> QED
      BY <1>2, <2>2, <3>3, <3>4, <3>5 DEF Balanced
  <2> QED
    BY <2>1, <2>3, <2>4
<1> QED
  BY <1>3, <1>4, <1>5
-----------------------------------------------------------------------------
(* The rendezvous: one release less on its way, one confirmation more.     *)
LEMMA DeliverTransit ==
  ASSUME SteadyInv, NEW n \in Nodes, Deliver(n), NEW v \in Workers
  PROVE  /\ v = filterEvent(event[n]) =>
              /\ <<n, event[n]>> \in InTransit(v)
              /\ InTransit(v)' = InTransit(v) \ {<<n, event[n]>>}
         /\ v # filterEvent(event[n]) => InTransit(v)' = InTransit(v)
<1> USE SteadyTypes
<1>1. /\ event[n] \notin pending[n] /\ pending' = pending
      /\ event' = [event EXCEPT ![n] = NoEvent]
  BY DEF Deliver, SteadyInv, EventsKnown, netVars
<1>2. v # NoWorker /\ filterEvent(NoEvent) # v
  BY NoEventIsNobodys DEF Workers, NoWorker
<1>3. \A m, x : <<m, x>> \in InTransit(v)' <=>
        m \in Nodes /\ (x \in pending'[m] \/ x = event'[m]) /\ filterEvent(x) = v
  BY InTransitIsNext
<1>4. \A m, x : <<m, x>> \in InTransit(v) <=>
        m \in Nodes /\ (x \in pending[m] \/ x = event[m]) /\ filterEvent(x) = v
  BY InTransitIs
<1>5. \A m, x : <<m, x>> \in InTransit(v)' <=>
                  <<m, x>> \in InTransit(v) /\ <<m, x>> \notin {<<n,
                                                 event[n]>>}
  BY <1>1, <1>2, <1>3, <1>4
<1>6. InTransit(v)' = InTransit(v) \ {<<n, event[n]>>}
  BY <1>5, SameTransit
<1> QED
  BY <1>4, <1>6

LEMMA DeliverSteady ==
  ASSUME SteadyInv, NEW n \in Nodes, Deliver(n)
  PROVE  /\ NoFailure' /\ AcceptedOnce' /\ EventsKnown'
         /\ \A v \in Workers : Balanced(v)'
<1>0. PICK w \in Workers : w = filterEvent(event[n])
  BY DEF Deliver
<1>1. /\ w \in Workers /\ wpc[w] = "confirm"
      /\ confirmations' = [confirmations EXCEPT ![w] = @ + 1]
      /\ epc' = [epc EXCEPT ![n] = "receive"]
      /\ event' = [event EXCEPT ![n] = NoEvent]
      /\ UNCHANGED <<wpc, loop, actionsCompleted, running, responses,
                     confirmedActions, accepted, pending, ctxDone, stopping>>
  BY <1>0 DEF Deliver, AwaitsEvent, netVars, clockVars, mainVars
<1>2. NoFailure' /\ AcceptedOnce' /\ EventsKnown'
  BY <1>1, SteadyTypes DEF SteadyInv, NoFailure, AcceptedOnce, Act,
     EventsKnown,
                           FromAccepted
<1>3. ASSUME NEW v \in Workers, v # w PROVE Balanced(v)'
  <2>1. InTransit(v)' = InTransit(v)
    BY <1>0, <1>3, DeliverTransit
  <2>2. Balanced(v) /\ (~stopping' => ~stopping)
    BY <1>1 DEF SteadyInv
  <2> QED
    BY <1>1, <1>3, <2>1, <2>2, BalancedKept, SteadyTypes
<1>4. Balanced(w)'
  <2>1. Balanced(w)
    BY <1>1 DEF SteadyInv
  <2>2. /\ InTransit(w)' = InTransit(w) \ {<<n, event[n]>>}
        /\ <<n, event[n]>> \in InTransit(w)
    BY <1>0, DeliverTransit
  <2>3. /\ Cardinality(InTransit(w)') = Cardinality(InTransit(w)) - 1
        /\ Cardinality(InTransit(w)) \in Nat /\ confirmations[w] \in Nat
        /\ confirmations'[w] = confirmations[w] + 1
    <3>1. confirmations[w] \in Nat /\ confirmations'[w] = confirmations[w] + 1
      BY <1>1, SteadyTypes
    <3>2. IsFiniteSet(InTransit(w)) /\ Cardinality(InTransit(w)) \in Nat
      BY TransitFinite
    <3>3. Cardinality(InTransit(w) \ {<<n,
               event[n]>>}) = Cardinality(InTransit(w)) - 1
      BY <2>2, <3>2, FS_RemoveElement
    <3> QED
      BY <2>2, <3>1, <3>2, <3>3
  <2>4. Cardinality(InTransit(w)') + confirmations'[w]
          = Cardinality(InTransit(w)) + confirmations[w]
    BY <2>3
  <2>5. Owing(w)' = Owing(w)
    BY <1>1 DEF Owing
  <2> QED
    BY <1>1, <2>1, <2>2, <2>4, <2>5 DEF Balanced
<1> QED
  BY <1>1, <1>2, <1>3, <1>4

-----------------------------------------------------------------------------
LEMMA InitSteady == SteadyConfig /\ Init => SteadyInv
<1> SUFFICES ASSUME SteadyConfig, Init PROVE SteadyInv
  OBVIOUS
<1>1. CountingInv
  BY InitCounting
<1>2. NoFailure
  BY DEF Init, NoFailure
<1>3. AcceptedOnce
  BY DEF Init, AcceptedOnce
<1>4. EventsKnown
  BY DEF Init, EventsKnown
<1>5. ASSUME NEW w \in Workers PROVE Balanced(w)
  <2>1. ASSUME NEW t \in InTransit(w) PROVE FALSE
    <3>1. t = <<t[1], t[2]>>
      BY InTransitPairs
    <3>2. /\ t[1] \in Nodes /\ (t[2] \in pending[t[1]] \/ t[2] = event[t[1]])
          /\ filterEvent(t[2]) = w
      BY <3>1, InTransitIs
    <3>3. t[2] = NoEvent
      BY <3>1, InTransitIs DEF Init
    <3> QED
      BY <3>2, <3>3, NoEventIsNobodys DEF Workers, NoWorker
  <2> QED
    BY <2>1 DEF Init, Balanced
<1> QED
  BY <1>1, <1>2, <1>3, <1>4, <1>5 DEF SteadyInv

LEMMA NextSteady == SteadyInv /\ [Next]_vars => SteadyInv'
<1> SUFFICES ASSUME SteadyInv, [Next]_vars PROVE SteadyInv'
  OBVIOUS
<1>1. CountingInv' /\ SteadyConfig
  BY NextCounting DEF SteadyInv
<1>2. /\ NoFailure' /\ AcceptedOnce' /\ EventsKnown'
      /\ \A w \in Workers : Balanced(w)'
  <2>1. CASE Quiet
    BY <2>1, QuietSteady
  <2>2. ASSUME NEW w \in Workers, LoopStep(w)
        PROVE  /\ NoFailure' /\ AcceptedOnce' /\ EventsKnown'
               /\ \A v \in Workers : Balanced(v)'
    BY <2>2, LoopStepSteady
  <2>3. ASSUME NEW w \in Workers, NEW k \in running[w],
               AcceptFirst(w, k) \/ RespondOK(w, k)
        PROVE  /\ NoFailure' /\ AcceptedOnce' /\ EventsKnown'
               /\ \A v \in Workers : Balanced(v)'
    BY <2>3, AcceptSteady, RespondSteady
  <2>4. ASSUME NEW n \in Nodes, NEW e \in pending[n], ReceiveEvent(n, e)
        PROVE  /\ NoFailure' /\ AcceptedOnce' /\ EventsKnown'
               /\ \A v \in Workers : Balanced(v)'
    BY <2>4, ReceiveSteady
  <2>5. ASSUME NEW n \in Nodes, Deliver(n)
        PROVE  /\ NoFailure' /\ AcceptedOnce' /\ EventsKnown'
               /\ \A v \in Workers : Balanced(v)'
    BY <2>5, DeliverSteady
  <2> QED
    BY SteadySteps, <2>1, <2>2, <2>3, <2>4, <2>5
<1> QED
  BY <1>1, <1>2 DEF SteadyInv, SteadyConfig

(* Without faults the confirmations a worker still waits for are exactly   *)
(* those on their way, for any number of nodes, workers and actions.       *)
THEOREM ConfirmationsAddUp ==
  SteadyConfig /\ Spec => []ConfirmationsBalance
<1>1. SteadyInv => ConfirmationsBalance
  <2> SUFFICES ASSUME SteadyInv, ~stopping, NEW w \in Workers
               PROVE  /\ wpc[w] \in {"ramp", "idle"} => InTransit(w) = {}
                      /\ wpc[w] = "confirm" =>
                           Cardinality(InTransit(w)) + confirmations[w] =
                             (actionsCompleted[w] - confirmedActions[w])
                               * confirmationsPerAction(w)
    BY DEF ConfirmationsBalance
  <2> QED
    BY NothingYet DEF SteadyInv, Balanced, Owing
<1> QED
  BY <1>1, InitSteady, NextSteady, PTL DEF Spec

(* An event loop waits for no worker that is done with the loop its event  *)
(* belongs to, even when the test is being stopped.                        *)
THEOREM EventLoopsBlockBriefly ==
  SteadyConfig /\ Spec => []BlockedOnCurrentLoop
<1>1. SteadyInv => BlockedOnCurrentLoop
  <2> SUFFICES ASSUME SteadyInv, NEW n \in Nodes, epc[n] = "deliver"
               PROVE  LET a == event[n].action IN
                        /\ wpc[a[1]] \in {"submit", "collect", "confirm"}
                        /\ a[2] = loop[a[1]] /\ a[3] < actionsCompleted[a[1]]
    BY DEF BlockedOnCurrentLoop
  <2> DEFINE a == event[n].action
             w == a[1]
  <2>1. /\ FromAccepted(n, event[n]) /\ filterEvent(event[n]) = w
        /\ a \in Actions /\ w \in Workers
    BY SteadyTypes DEF SteadyInv, EventsKnown, FromAccepted, Actions
  <2>2. <<n, event[n]>> \in InTransit(w)
    BY <2>1, InTransitIs
  <2>3. /\ a[3] \in 0 .. actionsCompleted[w] - 1
        /\ event[n] = Release(w, a[3])
    BY <2>1, <2>2, TransitIsCurrent
  <2>4. a[2] = loop[w]
    <3>1. a = Act(w, a[3])
      BY <2>3 DEF Release
    <3> QED
      BY <3>1 DEF Act
  <2>5. wpc[w] \notin {"ramp", "idle"}
    BY <2>1, <2>2, NothingYet
  <2>6. wpc[w] \in {"submit", "collect", "confirm"}
    BY <2>1, <2>5, SteadyTypes DEF SteadyInv, NoFailure
  <2>7. a[3] < actionsCompleted[w]
    BY <2>1, <2>3, SteadyTypes, WorkerNumbers
  <2> QED
    BY <2>4, <2>6, <2>7
<1> QED
  BY <1>1, InitSteady, NextSteady, PTL DEF Spec
-----------------------------------------------------------------------------
(* What Unconfirmed means for an action of the current loop: it is not     *)
(* accepted, or its event is still in transit.                             *)
Missing(w, k, n) ==
  <<Act(w, k), 0>> \notin accepted \/ <<n, Release(w, k)>> \in InTransit(w)

LEMMA UnconfirmedIsMissing ==
  SteadyInv => \A w \in Workers : \A k \in Nat, n \in Confirmers(w) :
                 Unconfirmed(w, k, n) <=> Missing(w, k, n)
<1> SUFFICES ASSUME SteadyInv, NEW w \in Workers, NEW k \in Nat,
                    NEW n \in Confirmers(w)
             PROVE  Unconfirmed(w, k, n) <=> Missing(w, k, n)
  OBVIOUS
<1>1. Copies(w, k) = {} <=> <<Act(w, k), 0>> \notin accepted
  <2> DEFINE a == Act(w, k)
  <2> HIDE DEF a
  <2>1. \A p \in accepted : p = <<p[1], p[2]>> /\ p[2] = 0
    BY SteadyTypes DEF SteadyInv, AcceptedOnce
  <2>2. \A p \in accepted : p[1] = a <=> p = <<a, 0>>
    BY <2>1
  <2> QED
    BY <2>2 DEF Copies, a
<1>2. n \in Nodes
  BY ConfirmersCount DEF SteadyInv
<1>3. ASSUME NEW e \in pending[n] \cup {event[n]},
             e.action = Act(w, k), filterEvent(e) = w
      PROVE  <<n, Release(w, k)>> \in InTransit(w)
  <2>1. <<n, e>> \in InTransit(w)
    BY <1>2, <1>3, InTransitIs
  <2>2. e = Release(w, e.action[3])
    BY <2>1, TransitIsCurrent
  <2>3. e.action[3] = k
    BY <1>3 DEF Act
  <2> QED
    BY <2>1, <2>2, <2>3
<1>4. ASSUME <<n, Release(w, k)>> \in InTransit(w)
      PROVE  \E e \in pending[n] \cup {event[n]} :
               e.kind = "own" /\ e.action = Act(w, k) /\ filterEvent(e) = w
  <2> DEFINE e == Release(w, k)
  <2>1. e \in pending[n] \cup {event[n]} /\ filterEvent(e) = w
    BY <1>4, InTransitIs
  <2>2. e.kind = "own" /\ e.action = Act(w, k)
    BY Zenon DEF Release
  <2> HIDE DEF e
  <2> QED
    BY <2>1, <2>2
<1> QED
  BY <1>1, <1>3, <1>4 DEF Unconfirmed, Missing

(* A worker that ends its loop has nothing missing.                        *)
LEMMA NothingMissing ==
  ASSUME SteadyInv, NEW w \in Workers, wpc[w] = "confirm", AllConfirmed(w)
  PROVE  /\ InTransit(w) = {} /\ actionsCompleted[w] = ActionsPerLoop
         /\ \A n \in Confirmers(w), k \in 0 .. actionsCompleted[w] - 1 :
              ~Missing(w, k, n)
<1>1. actionsCompleted[w] = ActionsPerLoop /\ running[w] = {}
  BY LoopEmpty, SteadyTypes
<1>2. Owing(w) = 0
  BY ConfirmersCount, SteadyTypes, WorkerNumbers DEF Owing, AllConfirmed,
     SteadyInv
<1>3. Cardinality(InTransit(w)) = 0
  <2>1. confirmations[w] \in Nat
    BY SteadyTypes
  <2> QED
    BY <1>2, <2>1, TransitFinite DEF SteadyInv, Balanced
<1>4. InTransit(w) = {}
  BY <1>3, TransitFinite, FS_EmptySet
<1>5. \A k \in 0 .. actionsCompleted[w] - 1 : <<Act(w, k), 0>> \in accepted
  BY <1>1 DEF SteadyInv, AcceptedOnce
<1> QED
  BY <1>1, <1>4, <1>5 DEF Missing

LEMMA RoundChanges ==
  ASSUME SteadyInv, [Next]_vars, NEW w \in Workers, loop'[w] # loop[w]
  PROVE  FinishLoop(w)
<1>1. ASSUME NEW v \in Workers, LoopStep(v) PROVE FinishLoop(w)
  <2>1. v = w
    BY <1>1, LoopStepFrame
  <2>2. loop' = loop \/ FinishLoop(v)
    BY <1>1 DEF LoopStep, RampUp, TakeToken, SpawnAction, EndSubmit,
                CollectSuccess, ActionConfirmed, loopVars
  <2> QED
    BY <2>1, <2>2
<1>2. ASSUME loop' = loop PROVE FALSE
  BY <1>2
<1>3. ASSUME NEW v \in Workers, NEW k \in running[v],
             AcceptFirst(v, k) \/ RespondOK(v, k)
      PROVE  loop' = loop
  BY <1>3 DEF AcceptFirst, Accept, RespondOK, Respond, workerVars, loopVars
<1>4. ASSUME NEW n \in Nodes, Deliver(n) \/ \E e \in pending[n] :
                                              ReceiveEvent(n, e)
      PROVE  loop' = loop
  BY <1>4 DEF Deliver, ReceiveEvent, TakeEvent, workerVars, loopVars
<1> QED
  BY SteadySteps, <1>1, <1>2, <1>3, <1>4 DEF Quiet

(* No worker proceeds to its next task before every node concerned has     *)
(* confirmed every action of the current one.                              *)
THEOREM ConfirmedBeforeNext == SteadyConfig /\ Spec => NextTaskAfterConfirm
<1> DEFINE A == \A w \in Workers : loop'[w] # loop[w] =>
                  \A n \in Confirmers(w), k \in 0 .. actionsCompleted[w] - 1 :
                    ~Unconfirmed(w, k, n)
<1>1. ASSUME SteadyInv, [Next]_vars PROVE A
  <2> SUFFICES ASSUME NEW w \in Workers, loop'[w] # loop[w],
                      NEW n \in Confirmers(w),
                      NEW k \in 0 .. actionsCompleted[w] - 1
               PROVE  ~Unconfirmed(w, k, n)
    OBVIOUS
  <2>1. wpc[w] = "confirm" /\ AllConfirmed(w)
    BY <1>1, RoundChanges DEF FinishLoop
  <2>2. ~Missing(w, k, n)
    BY <1>1, <2>1, NothingMissing
  <2>3. k \in Nat
    BY <1>1, SteadyTypes, WorkerNumbers
  <2> QED
    BY <1>1, <2>2, <2>3, UnconfirmedIsMissing
<1>2. SteadyInv /\ [Next]_vars => [A]_vars
  BY <1>1
<1> QED
  BY <1>2, InitSteady, NextSteady, PTL DEF Spec, NextTaskAfterConfirm

-----------------------------------------------------------------------------
(* The closed loop.  What a worker is owed, as the abstract state has it,  *)
(* in terms of Missing, in both states of a step.                          *)
Owed(w) == {c \in (0 .. actionsCompleted[w] - 1) \X Confirmers(w) :
              Unconfirmed(w, c[1], c[2])}

OwedIsMissing ==
  \A w \in Workers : \A k \in Nat, n \in Confirmers(w) :
    <<k, n>> \in Owed(w) <=>
      k \in 0 .. actionsCompleted[w] - 1 /\ Missing(w, k, n)

LEMMA OwedPairs ==
  \A w \in Workers : \A c \in Owed(w) :
    c = <<c[1], c[2]>> /\ c[2] \in Confirmers(w)
    /\ c[1] \in 0 .. actionsCompleted[w] - 1
BY DEF Owed

LEMMA OwedThen == SteadyInv => OwedIsMissing
<1> SUFFICES ASSUME SteadyInv, NEW w \in Workers, NEW k \in Nat,
                    NEW n \in Confirmers(w)
             PROVE  <<k, n>> \in Owed(w) <=>
                      k \in 0 .. actionsCompleted[w] - 1 /\ Missing(w, k, n)
  BY DEF OwedIsMissing
<1> DEFINE c == <<k, n>>
<1>1. c[1] = k /\ c[2] = n /\ (c \in (0 .. actionsCompleted[w] - 1) \X Confirmers(w)
                                <=> k \in 0 .. actionsCompleted[w] - 1)
  OBVIOUS
<1>2. Unconfirmed(w, k, n) <=> Missing(w, k, n)
  BY UnconfirmedIsMissing
<1> HIDE DEF c
<1>3. c \in Owed(w) <=> k \in 0 .. actionsCompleted[w] - 1 /\ Missing(w, k, n)
  BY <1>1, <1>2 DEF Owed
<1> QED
  BY <1>3 DEF c

LEMMA OwedNow == SteadyInv' => OwedIsMissing'
<1>1. (SteadyInv => OwedIsMissing)'
  BY OwedThen, PTL
<1> QED
  BY <1>1

LEMMA OwedPairsNow ==
  \A w \in Workers : \A c \in Owed(w)' :
    c = <<c[1], c[2]>> /\ c[2] \in Confirmers(w)
    /\ c[1] \in 0 .. actionsCompleted'[w] - 1
<1>1. (\A w \in Workers : \A c \in Owed(w) :
         c = <<c[1], c[2]>> /\ c[2] \in Confirmers(w)
         /\ c[1] \in 0 .. actionsCompleted[w] - 1)'
  BY OwedPairs, PTL
<1> QED
  BY <1>1

(* What a step does to Owed follows from what it does to Missing.          *)
LEMMA OwedBy ==
  ASSUME SteadyInv, SteadyInv', NEW w \in Workers, NEW S,
         \A k \in Nat, n \in Confirmers(w) :
           <<k, n>> \in S <=> /\ k \in 0 .. actionsCompleted'[w] - 1
                              /\ Missing(w, k, n)',
         \A c \in S : /\ c = <<c[1], c[2]>> /\ c[2] \in Confirmers(w)
                      /\ c[1] \in Nat
  PROVE  Owed(w)' = S
<1>1. \A k \in Nat, n \in Confirmers(w) :
        <<k, n>> \in Owed(w)' <=> /\ k \in 0 .. actionsCompleted'[w] - 1
                                  /\ Missing(w, k, n)'
  BY OwedNow DEF OwedIsMissing
<1>2. actionsCompleted'[w] \in 0 .. ActionsPerLoop
  BY DEF SteadyInv, CountingInv, TrackingInv, TypeInv, TypeOK, WorkerTypeOK
<1>3. \A c \in Owed(w)' : /\ c = <<c[1], c[2]>> /\ c[2] \in Confirmers(w)
                          /\ c[1] \in Nat
  BY <1>2, OwedPairsNow, WorkerNumbers
<1>4. \A c \in S : c \in Owed(w)'
  BY <1>1
<1>5. \A c \in Owed(w)' : c \in S
  BY <1>1, <1>3
<1> QED
  BY <1>4, <1>5

LEMMA OwedKept ==
  ASSUME SteadyInv, SteadyInv', NEW w \in Workers,
         actionsCompleted'[w] = actionsCompleted[w],
         \A k \in 0 .. actionsCompleted[w] - 1, n \in Confirmers(w) :
           Missing(w, k, n)' <=> Missing(w, k, n)
  PROVE  Owed(w)' = Owed(w)
<1>1. \A k \in Nat, n \in Confirmers(w) :
        <<k, n>> \in Owed(w) <=> /\ k \in 0 .. actionsCompleted[w] - 1
                                 /\ Missing(w, k, n)
  BY OwedThen DEF OwedIsMissing
<1>2. \A k \in Nat, n \in Confirmers(w) :
        <<k, n>> \in Owed(w) <=> /\ k \in 0 .. actionsCompleted'[w] - 1
                                 /\ Missing(w, k, n)'
  BY <1>1
<1>3. \A c \in Owed(w) : /\ c = <<c[1], c[2]>> /\ c[2] \in Confirmers(w)
                         /\ c[1] \in Nat
  BY OwedPairs, SteadyTypes, WorkerNumbers
<1> QED
  BY <1>2, <1>3, OwedBy

-----------------------------------------------------------------------------
(* The abstract steps on the mapped state.                                 *)
(* The abstract steps, over the state the refinement mapping gives.        *)
AllOwed == [w \in Workers |-> Owed(w)]

IssueStep(w) ==
  /\ actionsCompleted[w] < ActionsPerLoop
  /\ actionsCompleted' = [actionsCompleted EXCEPT ![w] = @ + 1]
  /\ AllOwed' = [AllOwed EXCEPT ![w] =
                   @ \cup ({actionsCompleted[w]} \X Confirmers(w))]
  /\ loop' = loop

ConfirmStep(w) ==
  /\ \E c \in AllOwed[w] : AllOwed' = [AllOwed EXCEPT ![w] = @ \ {c}]
  /\ UNCHANGED <<loop, actionsCompleted>>

RoundStep(w) ==
  /\ actionsCompleted[w] = ActionsPerLoop /\ AllOwed[w] = {}
  /\ loop' = [loop EXCEPT ![w] = @ + 1]
  /\ actionsCompleted' = [actionsCompleted EXCEPT ![w] = 0]
  /\ AllOwed' = AllOwed

StutterStep == UNCHANGED <<loop, actionsCompleted, AllOwed>>

LEMMA ReleaseIndex ==
  ASSUME NEW w, NEW j, NEW k
  PROVE  Release(w, j) = Release(w, k) <=> j = k
<1>1. Release(w, j).action[3] = j /\ Release(w, k).action[3] = k
  BY DEF Release, Act
<1> QED
  BY <1>1

LEMMA NothingOwedChanges ==
  ASSUME SteadyInv, SteadyInv', UNCHANGED <<loop, actionsCompleted, accepted>>,
         \A w \in Workers : InTransit(w)' = InTransit(w)
  PROVE  StutterStep
<1>1. ASSUME NEW w \in Workers PROVE Owed(w)' = Owed(w)
  <2>1. \A k \in 0 .. actionsCompleted[w] - 1, n \in Confirmers(w) :
          Missing(w, k, n)' <=> Missing(w, k, n)
    BY DEF Missing, Act, Release
  <2> QED
    BY <2>1, OwedKept
<1> QED
  BY <1>1 DEF StutterStep, AllOwed

LEMMA DropConfirms ==
  ASSUME SteadyInv, SteadyInv', UNCHANGED <<loop, actionsCompleted, accepted>>,
         NEW w \in Workers, NEW n, NEW e, <<n, e>> \in InTransit(w),
         InTransit(w)' = InTransit(w) \ {<<n, e>>},
         \A v \in Workers : v # w => InTransit(v)' = InTransit(v)
  PROVE  ConfirmStep(w)
<1> DEFINE i == e.action[3]
           c == <<i, n>>
<1>1. /\ n \in Confirmers(w) /\ i \in 0 .. actionsCompleted[w] - 1
      /\ e = Release(w, i) /\ <<Act(w, i), 0>> \in accepted
  BY TransitIsCurrent
<1>2. i \in Nat
  BY <1>1, SteadyTypes, WorkerNumbers
<1> HIDE DEF i
<1>3. \A k : Act(w, k)' = Act(w, k) /\ Release(w, k)' = Release(w, k)
  BY DEF Act, Release
<1>4. ASSUME NEW k \in Nat, NEW m \in Confirmers(w)
      PROVE  Missing(w, k, m)' <=> Missing(w, k, m) /\ <<k, m>> # c
  <2>1. <<m, Release(w, k)>> = <<n, e>> <=> m = n /\ k = i
    BY <1>1, ReleaseIndex
  <2>2. <<m, Release(w, k)>> \in InTransit(w)' <=>
          <<m, Release(w, k)>> \in InTransit(w) /\ ~(m = n /\ k = i)
    BY <2>1
  <2> QED
    BY <1>1, <1>3, <2>2 DEF Missing
<1>5. c \in Owed(w)
  BY <1>1, <1>2, OwedThen DEF OwedIsMissing, Missing
<1>6. Owed(w)' = Owed(w) \ {c}
  <2>1. \A k \in Nat, m \in Confirmers(w) :
          <<k, m>> \in Owed(w) \ {c} <=> /\ k \in 0 .. actionsCompleted'[w] - 1
                                         /\ Missing(w, k, m)'
    BY <1>4, OwedThen DEF OwedIsMissing
  <2>2. \A d \in Owed(w) \ {c} :
             /\ d = <<d[1], d[2]>> /\ d[2] \in Confirmers(w)
                                 /\ d[1] \in Nat
    BY OwedPairs, SteadyTypes, WorkerNumbers
  <2> HIDE DEF c
  <2> QED
    BY <2>1, <2>2, OwedBy
<1>7. ASSUME NEW v \in Workers, v # w PROVE Owed(v)' = Owed(v)
  <2>1. \A k \in 0 .. actionsCompleted[v] - 1, m \in Confirmers(v) :
          Missing(v, k, m)' <=> Missing(v, k, m)
    BY <1>7 DEF Missing, Act, Release
  <2> QED
    BY <2>1, OwedKept
<1>8. AllOwed' = [AllOwed EXCEPT ![w] = @ \ {c}] /\ c \in AllOwed[w]
  BY <1>5, <1>6, <1>7 DEF AllOwed
<1> QED
  BY <1>8 DEF ConfirmStep

LEMMA LoopStepMaps ==
  ASSUME SteadyInv, SteadyInv', NEW w \in Workers, LoopStep(w)
  PROVE  IssueStep(w) \/ RoundStep(w) \/ StutterStep
<1>0. UNCHANGED <<accepted, pending, event>>
  BY LoopStepFrame
<1>1. \A v \in Workers : InTransit(v)' = InTransit(v)
  BY <1>0, TransitKept
<1>2. ASSUME NEW v \in Workers, v # w PROVE Owed(v)' = Owed(v)
  <2>1. loop'[v] = loop[v] /\ actionsCompleted'[v] = actionsCompleted[v]
    BY <1>2, LoopStepFrame
  <2>2. \A k \in 0 .. actionsCompleted[v] - 1, m \in Confirmers(v) :
          Missing(v, k, m)' <=> Missing(v, k, m)
    BY <1>0, <1>1, <2>1 DEF Missing, Act, Release
  <2> QED
    BY <2>1, <2>2, OwedKept
<1>3. CASE SpawnAction(w)
  <2> DEFINE ac == actionsCompleted[w]
  <2>1. /\ actionsCompleted' = [actionsCompleted EXCEPT ![w] = @ + 1]
        /\ actionsCompleted'[w] = ac + 1 /\ loop' = loop /\ ac < ActionsPerLoop
        /\ ac \in Nat
    BY <1>3, SteadyTypes, LoopNumbers DEF SpawnAction
  <2>2. \A k : Act(w, k)' = Act(w, k) /\ Release(w, k)' = Release(w, k)
    BY <2>1 DEF Act, Release
  <2>3. <<Act(w, ac), 0>> \notin accepted
    <3> DEFINE p == <<Act(w, ac), 0>>
    <3>1. p[1] = Act(w, ac) /\ Act(w, ac) = <<w, loop[w], ac>>
      BY DEF Act
    <3> HIDE DEF p
    <3>2. p \in accepted => Act(w, ac) \in AcceptedActions
      BY <3>1 DEF AcceptedActions
    <3>3. Act(w, ac) \in AcceptedActions => ac < actionsCompleted[w]
      BY <3>1 DEF SteadyInv, CountingInv, AcceptedKnown
    <3>4. p \notin accepted
      BY <2>1, <3>2, <3>3
    <3> QED
      BY <3>4 DEF p
  <2> DEFINE S == Owed(w) \cup ({ac} \X Confirmers(w))
  <2>4. Owed(w)' = S
    <3>1. \A k \in Nat, m \in Confirmers(w) :
            <<k, m>> \in S <=> /\ k \in 0 .. actionsCompleted'[w] - 1
                               /\ Missing(w, k, m)'
      <4>1. \A k \in Nat, m \in Confirmers(w) :
              Missing(w, k, m)' <=> Missing(w, k, m)
        BY <1>0, <1>1, <2>2 DEF Missing
      <4>2. \A k \in Nat, m \in Confirmers(w) :
              <<k, m>> \in Owed(w) <=> k \in 0 .. ac - 1 /\ Missing(w, k, m)
        BY OwedThen DEF OwedIsMissing
      <4>3. \A m \in Confirmers(w) : Missing(w, ac, m)
        BY <2>3 DEF Missing
      <4>4. \A k \in Nat, m \in Confirmers(w) :
              <<k, m>> \in {ac} \X Confirmers(w) <=> k = ac
        OBVIOUS
      <4> HIDE DEF ac
      <4>5. \A k \in Nat : k \in 0 .. ac <=> k \in 0 .. ac - 1 \/ k = ac
        BY <2>1
      <4>6. \A k \in Nat :
                 k \in 0 .. actionsCompleted'[w] - 1 <=> k \in 0 .. ac
        BY <2>1
      <4>7. ASSUME NEW k \in Nat, NEW m \in Confirmers(w)
            PROVE  <<k, m>> \in S <=> k \in 0 .. ac /\ Missing(w, k, m)
        <5>1. <<k, m>> \in S <=>
                <<k, m>> \in Owed(w) \/ <<k, m>> \in {ac} \X Confirmers(w)
          OBVIOUS
        <5>2. <<k, m>> \in S <=> (k \in 0 .. ac - 1 /\ Missing(w, k,
                                                         m)) \/ k = ac
          BY <5>1, <4>2, <4>4, Zenon
        <5>3. k = ac => Missing(w, k, m)
          BY <4>3, Zenon
        <5> QED
          BY <5>2, <5>3, <4>5, Zenon
      <4> HIDE DEF S
      <4> QED
        BY <4>1, <4>6, <4>7, Zenon
    <3>2. \A d \in S : /\ d = <<d[1], d[2]>> /\ d[2] \in Confirmers(w)
                       /\ d[1] \in Nat
      BY <2>1, OwedPairs, SteadyTypes, WorkerNumbers
    <3> HIDE DEF S
    <3> QED
      BY <3>1, <3>2, OwedBy
  <2>5. AllOwed' = [AllOwed EXCEPT ![w] = @ \cup ({ac} \X Confirmers(w))]
    BY <1>2, <2>4 DEF AllOwed
  <2> QED
    BY <2>1, <2>5 DEF IssueStep
<1>4. CASE FinishLoop(w)
  <2>1. /\ wpc[w] = "confirm" /\ AllConfirmed(w)
        /\ loop' = [loop EXCEPT ![w] = @ + 1]
        /\ actionsCompleted' = [actionsCompleted EXCEPT ![w] = 0]
        /\ actionsCompleted'[w] = 0
    BY <1>4, SteadyTypes DEF FinishLoop
  <2>2. actionsCompleted[w] = ActionsPerLoop
    BY <2>1, NothingMissing
  <2>3. Owed(w) = {}
    <3>1. ASSUME NEW c \in Owed(w) PROVE FALSE
      <4>1. /\ c = <<c[1], c[2]>> /\ c[2] \in Confirmers(w)
            /\ c[1] \in 0 .. actionsCompleted[w] - 1
        BY OwedPairs
      <4>2. c[1] \in Nat
        BY <4>1, SteadyTypes, WorkerNumbers
      <4>3. Missing(w, c[1], c[2])
        BY <3>1, <4>1, <4>2, OwedThen DEF OwedIsMissing
      <4> QED
        BY <2>1, <4>1, <4>3, NothingMissing
    <3> QED
      BY <3>1
  <2>4. Owed(w)' = {}
    <3>1. \A c \in Owed(w)' : c[1] \in 0 .. actionsCompleted'[w] - 1
      BY OwedPairsNow
    <3> QED
      BY <2>1, <3>1
  <2>5. AllOwed' = AllOwed /\ AllOwed[w] = {}
    BY <1>2, <2>3, <2>4 DEF AllOwed
  <2> QED
    BY <2>1, <2>2, <2>5 DEF RoundStep
<1>5. CASE ~SpawnAction(w) /\ ~FinishLoop(w)
  <2>1. UNCHANGED <<loop, actionsCompleted>>
    BY <1>5 DEF LoopStep, RampUp, TakeToken, EndSubmit, CollectSuccess,
                ActionConfirmed, loopVars
  <2> QED
    BY <1>0, <1>1, <2>1, NothingOwedChanges
<1> QED
  BY <1>3, <1>4, <1>5

LEMMA AcceptMaps ==
  ASSUME SteadyInv, SteadyInv', NEW w \in Workers, NEW k \in running[w],
         AcceptFirst(w, k)
  PROVE  StutterStep
<1>1. /\ UNCHANGED <<loop, actionsCompleted>>
      /\ accepted' = accepted \cup {<<Act(w, k), 0>>}
      /\ <<Act(w, k), 0>> \notin accepted
  <2> DEFINE p == <<Act(w, k), 0>>
  <2>1. p[1] = Act(w, k)
    OBVIOUS
  <2> HIDE DEF p
  <2>2. p \notin accepted
    BY <2>1 DEF AcceptFirst, Copies
  <2> QED
    BY <2>2 DEF p, AcceptFirst, Accept, workerVars, loopVars
<1>2. ASSUME NEW v \in Workers, NEW j \in 0 .. actionsCompleted[v] - 1,
             NEW n \in Confirmers(v)
      PROVE  Missing(v, j, n)' <=> Missing(v, j, n)
  <2>1. Act(v, j)' = Act(v, j) /\ Release(v, j)' = Release(v, j)
    BY <1>1 DEF Act, Release
  <2>2. <<Act(v, j), 0>> = <<Act(w, k), 0>> <=> v = w /\ j = k
    BY DEF Act
  <2>3. <<n, Release(v, j)>> \in InTransit(v)' <=>
          <<n, Release(v, j)>> \in InTransit(v) \/ (v = w /\ j = k)
    <3>1. <<n, Release(v, j)>> \in InTransit(v)' <=>
            \/ <<n, Release(v, j)>> \in InTransit(v)
            \/ v = w /\ n \in Confirmers(w) /\ Release(v, j) = Release(w, k)
      BY AcceptTransit
    <3> QED
      BY <1>2, <3>1, ReleaseIndex
  <2> QED
    BY <1>1, <2>1, <2>2, <2>3 DEF Missing
<1>3. ASSUME NEW v \in Workers PROVE Owed(v)' = Owed(v)
  BY <1>1, <1>2, OwedKept
<1> QED
  BY <1>1, <1>3 DEF StutterStep, AllOwed

LEMMA ReceiveMaps ==
  ASSUME SteadyInv, SteadyInv', NEW n \in Nodes, NEW e \in pending[n],
         ReceiveEvent(n, e)
  PROVE  StutterStep \/ \E w \in Workers : ConfirmStep(w)
<1>1. UNCHANGED <<loop, actionsCompleted, accepted>>
  BY DEF ReceiveEvent, TakeEvent, workerVars, loopVars
<1>2. CASE \A v \in Workers : InTransit(v)' = InTransit(v)
  BY <1>1, <1>2, NothingOwedChanges
<1>3. ASSUME NEW w \in Workers, InTransit(w)' # InTransit(w)
      PROVE  ConfirmStep(w)
  <2>1. InTransit(w)' = InTransit(w) \ {<<n, e>>} /\ <<n, e>> \in InTransit(w)
    <3>1. InTransit(w)' = InTransit(w) \ {<<n, e>>}
      BY <1>3, ReceiveTransit
    <3>2. \A S, T, x : S = T \ {x} /\ S # T => x \in T
      OBVIOUS
    <3> QED
      BY <1>3, <3>1, <3>2, Zenon
  <2>2. filterEvent(e) = w
    BY <2>1, InTransitIs
  <2>3. \A v \in Workers : v # w => <<n, e>> \notin InTransit(v)
    BY <2>2, InTransitIs
  <2>4. \A v \in Workers : v # w => InTransit(v)' = InTransit(v)
    BY <2>3, ReceiveTransit
  <2> QED
    BY <1>1, <2>1, <2>4, DropConfirms
<1> QED
  BY <1>2, <1>3

LEMMA DeliverMaps ==
  ASSUME SteadyInv, SteadyInv', NEW n \in Nodes, Deliver(n)
  PROVE  \E w \in Workers : ConfirmStep(w)
<1>1. PICK w \in Workers : w = filterEvent(event[n])
  BY DEF Deliver
<1>2. UNCHANGED <<loop, actionsCompleted, accepted>>
  BY DEF Deliver, netVars
<1>3. PICK e : e = event[n]
  OBVIOUS
<1>4. /\ <<n, e>> \in InTransit(w) /\ InTransit(w)' = InTransit(w) \ {<<n, e>>}
      /\ \A v \in Workers : v # w => InTransit(v)' = InTransit(v)
  BY <1>1, <1>3, DeliverTransit
<1>5. ConfirmStep(w)
  BY <1>2, <1>4, DropConfirms
<1> QED
  BY <1>5

LEMMA ClosedLoopStep ==
  ASSUME SteadyInv, SteadyInv', [Next]_vars
  PROVE  \/ \E w \in Workers : IssueStep(w) \/ ConfirmStep(w) \/ RoundStep(w)
         \/ StutterStep
<1>1. CASE Quiet
  <2>1. \A w \in Workers : InTransit(w)' = InTransit(w)
    BY <1>1, TransitKept DEF Quiet
  <2> QED
    BY <1>1, <2>1, NothingOwedChanges DEF Quiet
<1>2. ASSUME NEW w \in Workers, NEW k \in running[w], RespondOK(w, k)
      PROVE  StutterStep
  <2>1. UNCHANGED <<loop, actionsCompleted, accepted, pending, event>>
    BY <1>2 DEF RespondOK, Respond, eventVars
  <2> QED
    BY <2>1, TransitKept, NothingOwedChanges
<1> QED
  BY SteadySteps, <1>1, <1>2, LoopStepMaps, AcceptMaps, ReceiveMaps,
     DeliverMaps

(* The workers implement the closed loop of ClosedLoop: under the mapping  *)
(* every step is an Issue, a Confirm, a NextRound or a stutter, also while *)
(* the test is being stopped and events are dropped.                       *)
THEOREM ImplementsClosedLoop == SteadyConfig /\ Spec => ClosedLoopSpec
<1>1. Init => CL!Init
  BY DEF Init, CL!Init
<1>2. SteadyInv /\ SteadyInv' /\ [Next]_vars => [CL!Next]_(CL!vars)
  <2> SUFFICES ASSUME SteadyInv, SteadyInv', [Next]_vars
               PROVE  CL!Next \/ UNCHANGED CL!vars
    OBVIOUS
  <2>1. ASSUME NEW w \in Workers, IssueStep(w) PROVE CL!Next
    BY <2>1 DEF IssueStep, CL!Next, CL!Issue, AllOwed, Owed
  <2>2. ASSUME NEW w \in Workers, ConfirmStep(w) PROVE CL!Next
    BY <2>2 DEF ConfirmStep, CL!Next, CL!Confirm, AllOwed, Owed
  <2>3. ASSUME NEW w \in Workers, RoundStep(w) PROVE CL!Next
    BY <2>3 DEF RoundStep, CL!Next, CL!NextRound, AllOwed, Owed
  <2>4. CASE StutterStep
    BY <2>4 DEF StutterStep, CL!vars, AllOwed, Owed
  <2> QED
    BY ClosedLoopStep, <2>1, <2>2, <2>3, <2>4
<1> QED
  BY <1>1, <1>2, InitSteady, NextSteady, PTL DEF Spec, ClosedLoopSpec, CL!Spec
=============================================================================
