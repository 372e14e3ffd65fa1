----------------------------- MODULE PerfRunner -----------------------------
(***************************************************************************)
(* The load-generation core of ffperf (internal/perf/perf.go): the main    *)
(* dispatch loop of Start, the worker goroutines of runLoop with the       *)
(* RunOnce goroutines they spawn, one event loop per FireFly node, and the *)
(* shutdown path.  They share the bfr channel (tokens that let a worker    *)
(* start a loop), one unbuffered wsReceivers channel per worker (event     *)
(* loop -> worker), the in-flight map msgTimeMap and a few counters.       *)
(*                                                                         *)
(* FireFly itself is external: it accepts submissions, and every node that *)
(* takes part in an action later delivers one event for it.                *)
(***************************************************************************)
EXTENDS Integers, Sequences, FiniteSets

CONSTANTS
  TotalWorkers,          \* number of worker goroutines, over all tests
  Nodes,                 \* the FireFly nodes (cfg.NodeURLs)
  Parties,               \* sender and recipient node of a private message
  TestOf,                \* the test case each worker runs
  ActionsPerLoop,        \* actions a worker submits in parallel per loop
  MaxActions,            \* cfg.MaxActions, 0 is unlimited
  NoWaitSubmission,      \* cfg.NoWaitSubmission
  SkipMintConfirmations, \* cfg.SkipMintConfirmations (deprecated)
  SupportsData,          \* cfg.TokenOptions.SupportsData, true by default
  SupportsURI,           \* cfg.TokenOptions.SupportsURI
  DelinquentAction,      \* cfg.DelinquentAction: "exit" or "log"
  Daemon,                \* cfg.Daemon
  BalanceWait,           \* is cfg.TokenOptions.MaxTokenBalanceWait set
  Faults,                \* the kinds of fault the environment may inject
  MaxFaults,             \* bound: how many faults in a behaviour
  MaxDispatch            \* bound: how many tokens the main loop sends

Workers == 0 .. TotalWorkers - 1

PrivateTests == {"msg_private", "blob_private"}
WorkerIDTests == {"custom_ethereum_contract", "custom_fabric_contract"}
ContractTests == {"erc20_transfer"} \cup WorkerIDTests  \* idempotency keys
TestNames == {"msg_broadcast", "blob_broadcast", "token_mint"}
               \cup PrivateTests \cup ContractTests

(* Kinds of event the environment delivers besides those of the run's own  *)
(* actions, then the other faults.                                         *)
StrayKinds == {"foreign", "garbled", "phantom", "untracked", "no_uri",
               "unknown_sub", "protocol_error"}
FaultKinds == StrayKinds \cup
              {"submit_error", "lost_response", "redeliver", "closed",
               "interrupt"}

ASSUME ConfigAssumption ==
  /\ TotalWorkers \in Nat \ {0}
  /\ IsFiniteSet(Nodes) /\ Nodes # {}
  /\ Parties \subseteq Nodes
  /\ TestOf \in [Workers -> TestNames]
  /\ ActionsPerLoop \in Nat \ {0}
  /\ MaxActions \in Nat
  /\ {NoWaitSubmission, SkipMintConfirmations, SupportsData, SupportsURI,
      Daemon, BalanceWait} \subseteq BOOLEAN
  /\ DelinquentAction \in {"exit", "log"}
  /\ Faults \subseteq FaultKinds
  /\ MaxFaults \in Nat /\ MaxDispatch \in Nat

(* An action is <<worker, loop, index in the loop>>.  A node announces it   *)
(* by one event, a token mint by up to two: the transfer and, with data,   *)
(* the message in it.                                                      *)
Actions == Workers \X Nat \X Nat
Responses == [ok : BOOLEAN, id : Actions]
Events == [kind : {"own"} \cup StrayKinds, action : Actions, copy : Nat,
           part : {"message", "transfer"}]
NoEvent == [kind |-> "none"]
Stray(kind, w) ==
  [kind |-> kind, action |-> <<w, 0, 0>>, copy |-> 0, part |-> "message"]

EventParts(w) ==
  IF TestOf[w] = "token_mint"
  THEN {"transfer"} \cup (IF SupportsData THEN {"message"} ELSE {})
  ELSE {"message"}

EventsOf(a, c) ==
  {[kind |-> "own", action |-> a, copy |-> c, part |-> p] :
     p \in EventParts(a[1])}

VARIABLES
  mpc,              \* where the main goroutine is
  bfr,              \* number of tokens in the bfr channel
  dispatched,       \* i, the tokens sent so far
  stopping,         \* pr.stopping
  submissionCount,  \* snapshot taken when the no-wait drain starts
  ctxDone,          \* has pr.ctx been cancelled
  signalled,        \* is a signal waiting in signalCh
  lengthElapsed,    \* is time.Now() past pr.endTime
  totalActions,     \* totalActionsCounter
  receivedEvents,   \* receivedEventsCounter
  recorded,         \* has totalTime recorded at least one loop
  msgTimeMap,       \* tracking IDs in pr.msgTimeMap
  overdue,          \* those older than MaxTimePerAction
  wpc,              \* where each worker goroutine is
  loop,             \* loops a worker has completed
  actionsCompleted, \* actions spawned in the current loop
  running,          \* indices whose RunOnce has not returned
  responses,        \* contents of the actionResponses channel
  resultCount,      \* responses read in the current loop
  trackingIDs,      \* IDs still to be taken off msgTimeMap
  confirmedActions, \* j: actions of the loop already confirmed
  confirmations,    \* i: confirmations of action j already received
  epc,              \* where each event loop is
  event,            \* the event it is delivering to a worker
  pending,          \* events a node still has to deliver
  accepted,         \* <<action, copy>> transactions FireFly has accepted
  faults            \* faults injected so far

mainVars   == <<mpc, bfr, dispatched, stopping, submissionCount, recorded>>
clockVars  == <<ctxDone, signalled, lengthElapsed>>
countVars  == <<totalActions, receivedEvents>>
trackVars  == <<msgTimeMap, overdue>>
loopVars   == <<loop, actionsCompleted, running, responses, resultCount,
                trackingIDs, confirmedActions, confirmations>>
workerVars == <<wpc, loopVars>>
eventVars  == <<epc, event>>
netVars    == <<pending, accepted, faults>>
vars == <<mainVars, clockVars, countVars, trackVars, workerVars, eventVars,
          netVars>>
-----------------------------------------------------------------------------
(* Helpers the goroutines share.                                           *)

Alive == mpc \notin {"exited", "panicked"}   \* the process still runs

CountExceeded == MaxActions > 0 /\ totalActions > MaxActions     \* mutant

allActionsComplete == MaxActions > 0 /\ totalActions >= MaxActions

detectDelinquentMsgs == overdue # {}

(* The nodes that deliver an event for an action of worker w.              *)
Confirmers(w) == IF TestOf[w] \in PrivateTests THEN Parties ELSE Nodes

OneConfirmation(w) == IF NoWaitSubmission THEN 0 ELSE 1          \* mutant
OneTooMany(w) == Cardinality(Confirmers(w)) + 1                  \* mutant

confirmationsPerAction(w) ==
  IF NoWaitSubmission \/ (TestOf[w] = "token_mint" /\ SkipMintConfirmations)
  THEN 0
  ELSE IF TestOf[w] \in PrivateTests THEN 2 ELSE Cardinality(Nodes)

OneIDPerWorker(a) == <<a[1], 0, 0>>                              \* mutant

(* What RunOnce returns: the contract tests return the worker's number,    *)
(* the others an ID FireFly made for this action.                          *)
trackingID(a) == IF TestOf[a[1]] \in WorkerIDTests THEN <<a[1], 0, 0>> ELSE a

(* stopTrackingRequest: the action is no longer in flight.                 *)
KeepOverdue(id) == msgTimeMap' = msgTimeMap \ {id} /\ UNCHANGED overdue \* mutant

stopTrackingRequest(id) ==
  msgTimeMap' = msgTimeMap \ {id} /\ overdue' = overdue \ {id}

NoWorker == -1

(* filterEvent: the worker number an event carries.  That of a token       *)
(* transfer is in its URI, if the token has one.  An ERC-20 transfer       *)
(* carries its amount, always 1, where the other contract tests have the   *)
(* worker.  strconv.Atoi returns 0 next to its error, and the error is not *)
(* returned to the event loop.                                             *)
filterEvent(e) ==
  CASE e.kind \in {"own", "foreign"} ->
         IF e.part = "transfer" /\ ~SupportsURI THEN NoWorker
         ELSE IF TestOf[e.action[1]] = "erc20_transfer" THEN 1
         ELSE e.action[1]
    [] e.kind = "garbled" -> 0
    [] e.kind = "phantom" -> TotalWorkers
    [] OTHER              -> NoWorker

(* The event loop's test before it sends on wsReceivers.                   *)
ReleasesWorkers == ~stopping /\ ~NoWaitSubmission /\ ~SkipMintConfirmations

Inject(kind) == /\ kind \in Faults /\ faults < MaxFaults
                /\ faults' = faults + 1
-----------------------------------------------------------------------------
(* The main goroutine: Start from the perfLoop on.                         *)

Init ==
  /\ mpc = "check" /\ bfr = 0 /\ dispatched = 0
  /\ stopping = FALSE /\ submissionCount = 0
  /\ ctxDone = FALSE /\ signalled = FALSE /\ lengthElapsed = FALSE
  /\ totalActions = 0 /\ receivedEvents = 0 /\ recorded = FALSE
  /\ msgTimeMap = {} /\ overdue = {}
  /\ wpc = [w \in Workers |-> "ramp"]
  /\ loop = [w \in Workers |-> 0]
  /\ actionsCompleted = [w \in Workers |-> 0]
  /\ running = [w \in Workers |-> {}]
  /\ responses = [w \in Workers |-> <<>>]
  /\ resultCount = [w \in Workers |-> 0]
  /\ trackingIDs = [w \in Workers |-> <<>>]
  /\ confirmedActions = [w \in Workers |-> 0]
  /\ confirmations = [w \in Workers |-> 0]
  /\ epc = [n \in Nodes |-> "receive"]
  /\ event = [n \in Nodes |-> NoEvent]
  /\ pending = [n \in Nodes |-> {}]
  /\ accepted = {} /\ faults = 0

(* The head of the perfLoop: the for condition, then the MaxActions test.  *)
TimeIsUp == ~Daemon /\ lengthElapsed                             \* mutant

TestIsOver == (~Daemon /\ lengthElapsed) \/ allActionsComplete

LoopCheck ==
  /\ mpc = "check"
  /\ mpc' = IF TestIsOver THEN "balance" ELSE "select"
  /\ UNCHANGED <<bfr, dispatched, stopping, submissionCount, recorded,
                 clockVars, countVars, trackVars, workerVars, eventVars,
                 netVars>>

SelectSignal ==
  /\ mpc = "select" /\ signalled
  /\ mpc' = "balance" /\ signalled' = FALSE
  /\ UNCHANGED <<bfr, dispatched, stopping, submissionCount, recorded,
                 ctxDone, lengthElapsed, countVars, trackVars, workerVars,
                 eventVars, netVars>>

(* The bfr channel holds one token per worker.                             *)
CanSend == bfr < TotalWorkers /\ dispatched < MaxDispatch

SelectSend ==
  /\ mpc = "select" /\ CanSend
  /\ bfr' = bfr + 1 /\ mpc' = "limiter"
  /\ UNCHANGED <<dispatched, stopping, submissionCount, recorded, clockVars,
                 countVars, trackVars, workerVars, eventVars, netVars>>

(* Where the delinquency check leads the main loop.                        *)
OnlyLog == "check"                                               \* mutant

AfterDelinquencyCheck ==
  IF detectDelinquentMsgs /\ DelinquentAction = "exit"
  THEN "balance" ELSE "check"

(* rateLimiter.Wait fails once the context is cancelled, and the failure   *)
(* is a log.Panic.  The delinquency check runs only when MaxTimePerAction  *)
(* has passed since the last one.                                          *)
LimiterWait ==
  /\ mpc = "limiter"
  /\ \/ ctxDone /\ mpc' = "panicked" /\ UNCHANGED dispatched
     \/ ~ctxDone /\ mpc' \in {"check", AfterDelinquencyCheck}
        /\ dispatched' = dispatched + 1
  /\ UNCHANGED <<bfr, stopping, submissionCount, recorded, clockVars,
                 countVars, trackVars, workerVars, eventVars, netVars>>

(* The 60s timer fires only if the other cases stayed blocked.             *)
SelectTimeout ==
  /\ mpc = "select" /\ ~CanSend /\ ~signalled
  /\ mpc' = AfterDelinquencyCheck
  /\ UNCHANGED <<bfr, dispatched, stopping, submissionCount, recorded,
                 clockVars, countVars, trackVars, workerVars, eventVars,
                 netVars>>

(* detectDelinquentBalance (its result is chosen here), then               *)
(* pr.stopping = true and the snapshot the no-wait drain compares with.    *)
StopTest ==
  /\ mpc = "balance"
  /\ \E short \in {FALSE, BalanceWait} :
       IF short /\ DelinquentAction = "exit"
       THEN mpc' = "panicked" /\ UNCHANGED <<stopping, submissionCount>>
       ELSE /\ stopping' = TRUE
            /\ IF NoWaitSubmission
               THEN mpc' = "drain" /\ submissionCount' = totalActions
               ELSE mpc' = "report" /\ UNCHANGED submissionCount
  /\ UNCHANGED <<bfr, dispatched, recorded, clockVars, countVars, trackVars,
                 workerVars, eventVars, netVars>>

(* The drain ends when the counts meet, or after 30s without a new event.  *)
LeaveDrain ==
  /\ mpc = "drain"
  /\ mpc' = "report"
  /\ UNCHANGED <<bfr, dispatched, stopping, submissionCount, recorded,
                 clockVars, countVars, trackVars, workerVars, eventVars,
                 netVars>>

DrainTallied == receivedEvents >= submissionCount /\ LeaveDrain
NoIdleTimer == FALSE /\ LeaveDrain                              \* mutant
DrainIdle == receivedEvents < submissionCount /\ LeaveDrain

(* Latency.Avg divides by the number of loops recorded.                    *)
Report ==
  /\ mpc = "report"
  /\ mpc' = IF recorded THEN "cleanup" ELSE "panicked"
  /\ UNCHANGED <<bfr, dispatched, stopping, submissionCount, recorded,
                 clockVars, countVars, trackVars, workerVars, eventVars,
                 netVars>>

(* The last sleep and delinquency report, then cleanup, then Start returns *)
(* and the process ends.                                                   *)
Cleanup ==
  /\ mpc = "cleanup"
  /\ mpc' = "exited"
  /\ UNCHANGED <<bfr, dispatched, stopping, submissionCount, recorded,
                 clockVars, countVars, trackVars, workerVars, eventVars,
                 netVars>>
-----------------------------------------------------------------------------
(* The worker goroutines: runLoop.                                         *)

RampUp(w) ==
  /\ wpc[w] = "ramp"
  /\ wpc' = [wpc EXCEPT ![w] = "idle"]
  /\ UNCHANGED <<mainVars, clockVars, countVars, trackVars, loopVars,
                 eventVars, netVars>>

(* Both cases of the outer select.                                         *)
TakeToken(w) ==
  /\ wpc[w] = "idle" /\ bfr > 0
  /\ bfr' = bfr - 1
  /\ wpc' = [wpc EXCEPT ![w] = "submit"]
  /\ UNCHANGED <<mpc, dispatched, stopping, submissionCount, recorded,
                 clockVars, countVars, trackVars, loopVars, eventVars,
                 netVars>>

StopIdle(w) ==
  /\ wpc[w] = "idle" /\ ctxDone
  /\ wpc' = [wpc EXCEPT ![w] = "stopped"]
  /\ UNCHANGED <<mainVars, clockVars, countVars, trackVars, loopVars,
                 eventVars, netVars>>

(* One turn of the submission loop: start a goroutine that calls RunOnce.  *)
SpawnAction(w) ==
  /\ wpc[w] = "submit"
  /\ actionsCompleted[w] < ActionsPerLoop /\ ~allActionsComplete
  /\ running' = [running EXCEPT ![w] = @ \cup {actionsCompleted[w]}]
  /\ actionsCompleted' = [actionsCompleted EXCEPT ![w] = @ + 1]
  /\ UNCHANGED <<mainVars, clockVars, countVars, trackVars, wpc, loop,
                 responses, resultCount, trackingIDs, confirmedActions,
                 confirmations, eventVars, netVars>>

EndSubmit(w) ==
  /\ wpc[w] = "submit"
  /\ actionsCompleted[w] = ActionsPerLoop \/ allActionsComplete
  /\ wpc' = [wpc EXCEPT ![w] = "collect"]
  /\ UNCHANGED <<mainVars, clockVars, countVars, trackVars, loopVars,
                 eventVars, netVars>>

(* The collection loop reads one response.  It waits on nothing else, and  *)
(* ends after exactly ActionsPerLoop of them.                              *)
TakeResponse(w) ==
  /\ wpc[w] = "collect" /\ responses[w] # <<>>
  /\ responses' = [responses EXCEPT ![w] = Tail(@)]
  /\ resultCount' = [resultCount EXCEPT ![w] = @ + 1]

OneAnswerShort(w) == IF resultCount[w] + 2 >= ActionsPerLoop     \* mutant
                     THEN "confirm" ELSE "collect"

AfterResponse(w) ==
  IF resultCount[w] + 1 = ActionsPerLoop THEN "confirm" ELSE "collect"

(* markTestInFlight and totalActionsCounter.Inc.                           *)
CollectSuccess(w) ==
  /\ TakeResponse(w)
  /\ LET id == Head(responses[w]).id IN
       /\ Head(responses[w]).ok
       /\ trackingIDs' = [trackingIDs EXCEPT ![w] = Append(@, id)]
       /\ msgTimeMap' = msgTimeMap \cup {id}
       /\ overdue' = overdue \ {id}
  /\ totalActions' = totalActions + 1
  /\ wpc' = [wpc EXCEPT ![w] = AfterResponse(w)]
  /\ UNCHANGED <<mainVars, clockVars, receivedEvents, loop,
                 actionsCompleted, running, confirmedActions, confirmations,
                 eventVars, netVars>>

(* An error ends the worker in exit mode, and is logged in log mode.       *)
CollectError(w) ==
  /\ TakeResponse(w)
  /\ ~Head(responses[w]).ok
  /\ wpc' = [wpc EXCEPT ![w] = IF DelinquentAction = "exit" THEN "failed"
                               ELSE AfterResponse(w)]
  /\ UNCHANGED <<mainVars, clockVars, countVars, trackVars, loop,
                 actionsCompleted, running, trackingIDs, confirmedActions,
                 confirmations, eventVars, netVars>>

(* The worker is in the inner select of the confirmation loop.             *)
AwaitsEvent(w) ==
  /\ wpc[w] = "confirm"
  /\ confirmedActions[w] < actionsCompleted[w]
  /\ confirmations[w] < confirmationsPerAction(w)

AwaitCancelled(w) ==
  /\ AwaitsEvent(w) /\ ctxDone
  /\ wpc' = [wpc EXCEPT ![w] = "stopped"]
  /\ UNCHANGED <<mainVars, clockVars, countVars, trackVars, loopVars,
                 eventVars, netVars>>

(* Action j has its confirmations: the oldest ID left stops being tracked. *)
ActionConfirmed(w) ==
  /\ wpc[w] = "confirm"
  /\ confirmedActions[w] < actionsCompleted[w]
  /\ confirmations[w] = confirmationsPerAction(w)
  /\ IF trackingIDs[w] # <<>>
     THEN /\ stopTrackingRequest(Head(trackingIDs[w]))
          /\ trackingIDs' = [trackingIDs EXCEPT ![w] = Tail(@)]
     ELSE UNCHANGED <<msgTimeMap, overdue, trackingIDs>>
  /\ confirmedActions' = [confirmedActions EXCEPT ![w] = @ + 1]
  /\ confirmations' = [confirmations EXCEPT ![w] = 0]
  /\ UNCHANGED <<mainVars, clockVars, countVars, wpc, loop,
                 actionsCompleted, running, responses, resultCount,
                 eventVars, netVars>>

AllConfirmed(w) == confirmedActions[w] = actionsCompleted[w]

(* The loop is recorded; its locals go out of scope.                       *)
FinishLoop(w) ==
  /\ wpc[w] = "confirm" /\ AllConfirmed(w)
  /\ recorded' = TRUE
  /\ loop' = [loop EXCEPT ![w] = @ + 1]
  /\ wpc' = [wpc EXCEPT ![w] = "idle"]
  /\ actionsCompleted' = [actionsCompleted EXCEPT ![w] = 0]
  /\ resultCount' = [resultCount EXCEPT ![w] = 0]
  /\ trackingIDs' = [trackingIDs EXCEPT ![w] = <<>>]
  /\ confirmedActions' = [confirmedActions EXCEPT ![w] = 0]
  /\ UNCHANGED <<mpc, bfr, dispatched, stopping, submissionCount, clockVars,
                 countVars, trackVars, running, responses, confirmations,
                 eventVars, netVars>>
-----------------------------------------------------------------------------
(* The RunOnce goroutines and FireFly's side of a submission.              *)

Act(w, k) == <<w, loop[w], k>>

Copies(w, k) == {p \in accepted : p[1] = Act(w, k)}

(* FireFly takes a transaction: the nodes concerned will deliver events.   *)
Accept(w, k, c) ==
  /\ k \in running[w]
  /\ accepted' = accepted \cup {<<Act(w, k), c>>}
  /\ pending' = [n \in Nodes |-> IF n \in Confirmers(w)
                                 THEN pending[n] \cup EventsOf(Act(w, k), c)
                                 ELSE pending[n]]
  /\ UNCHANGED <<mainVars, clockVars, countVars, trackVars, workerVars,
                 eventVars>>

AcceptFirst(w, k) == Copies(w, k) = {} /\ Accept(w, k, 0) /\ UNCHANGED faults

(* The answer got lost and the HTTP client posts again.  Without an        *)
(* idempotency key FireFly takes it for a new transaction.                 *)
AcceptRetry(w, k) ==
  /\ TestOf[w] \notin ContractTests
  /\ \E c \in 1 .. MaxFaults : /\ <<Act(w, k), c - 1>> \in accepted
                             /\ <<Act(w, k), c>> \notin accepted
                             /\ Accept(w, k, c)
  /\ Inject("lost_response")

AlwaysOK(w, k, ok) == [ok |-> TRUE, id |-> trackingID(Act(w, k))] \* mutant

ActionResponse(w, k, ok) == [ok |-> ok, id |-> trackingID(Act(w, k))]

(* RunOnce returns and its goroutine writes to actionResponses.            *)
Respond(w, k, ok) ==
  /\ running' = [running EXCEPT ![w] = @ \ {k}]
  /\ responses' = [responses EXCEPT ![w] = Append(@, ActionResponse(w, k, ok))]
  /\ UNCHANGED <<mainVars, clockVars, countVars, trackVars, wpc, loop,
                 actionsCompleted, resultCount, trackingIDs,
                 confirmedActions, confirmations, eventVars, pending, accepted>>

(* The ERC-20 test reads the ID of the answer before it looks for an       *)
(* error: an answer without one crashes the process.                       *)
RunOncePanic ==
  /\ mpc' = "panicked"
  /\ UNCHANGED <<bfr, dispatched, stopping, submissionCount, recorded,
                 clockVars, countVars, trackVars, workerVars, eventVars,
                 pending, accepted>>

RespondOK(w, k) ==
  /\ k \in running[w] /\ Copies(w, k) # {}
  /\ Respond(w, k, TRUE) /\ UNCHANGED faults

(* Retries are exhausted; FireFly may or may not have taken a copy.        *)
RespondError(w, k) ==
  /\ k \in running[w] /\ Inject("submit_error")
  /\ IF TestOf[w] = "erc20_transfer" THEN RunOncePanic
     ELSE Respond(w, k, FALSE)

(* The answer got lost and the retry's idempotency key is known: a 409.    *)
RespondConflict(w, k) ==
  /\ k \in running[w] /\ TestOf[w] \in ContractTests
  /\ Copies(w, k) # {} /\ Inject("lost_response")
  /\ IF TestOf[w] = "erc20_transfer" THEN RunOncePanic
     ELSE Respond(w, k, TestOf[w] = "custom_ethereum_contract")
-----------------------------------------------------------------------------
(* The event loops: one goroutine per node.                                *)

TakeEvent(n, e) ==
  /\ epc[n] = "receive" /\ e \in pending[n]
  /\ pending' = [pending EXCEPT ![n] = @ \ {e}]
  /\ receivedEvents' = receivedEvents + 1
  /\ UNCHANGED <<bfr, dispatched, stopping, submissionCount, recorded,
                 signalled, lengthElapsed, totalActions, trackVars,
                 workerVars, accepted, faults>>

(* filterEvent fails: eventLoop returns, without an ack.                   *)
ReceiveUnknown(n, e) ==
  /\ TakeEvent(n, e) /\ e.kind = "unknown_sub"
  /\ epc' = [epc EXCEPT ![n] = "dead"]
  /\ UNCHANGED <<mpc, ctxDone, event>>

(* A transfer event without a URI, where tokens should have one.           *)
MissesURI(e) == e.kind = "no_uri" /\ SupportsURI /\ DelinquentAction = "exit"

ReceiveWithoutURI(n, e) ==
  /\ TakeEvent(n, e) /\ MissesURI(e)
  /\ mpc' = "panicked"
  /\ UNCHANGED <<epc, event, ctxDone>>

(* The event is acknowledged.  If it names a worker and confirmations are  *)
(* wanted, the event loop goes on to wait for that worker.                 *)
ReceiveEvent(n, e) ==
  /\ TakeEvent(n, e) /\ e.kind # "unknown_sub" /\ ~MissesURI(e)
  /\ ctxDone' = (ctxDone \/ e.kind = "protocol_error")
  /\ IF ReleasesWorkers /\ filterEvent(e) # NoWorker
     THEN /\ epc' = [epc EXCEPT ![n] = "deliver"]
          /\ event' = [event EXCEPT ![n] = e]
     ELSE UNCHANGED <<epc, event>>
  /\ UNCHANGED mpc

(* The rendezvous on wsReceivers: the send completes when the worker       *)
(* receives.  The channel of a worker that does not exist is nil, and a    *)
(* send on it blocks for ever.                                             *)
Deliver(n) ==
  /\ epc[n] = "deliver"
  /\ LET w == filterEvent(event[n]) IN
       /\ w \in Workers /\ AwaitsEvent(w)
       /\ confirmations' = [confirmations EXCEPT ![w] = @ + 1]
  /\ epc' = [epc EXCEPT ![n] = "receive"]
  /\ event' = [event EXCEPT ![n] = NoEvent]
  /\ UNCHANGED <<mainVars, clockVars, countVars, trackVars, wpc, loop,
                 actionsCompleted, running, responses, resultCount,
                 trackingIDs, confirmedActions, netVars>>

(* The loop ends: the context is done, or the connection is lost for good. *)
CloseLoop(n) ==
  /\ epc[n] = "receive" /\ ctxDone
  /\ epc' = [epc EXCEPT ![n] = "closed"]
  /\ UNCHANGED <<mainVars, clockVars, countVars, trackVars, workerVars,
                 event, netVars>>

LoseConnection(n) ==
  /\ epc[n] = "receive" /\ Inject("closed")
  /\ epc' = [epc EXCEPT ![n] = "dead"]
  /\ UNCHANGED <<mainVars, clockVars, countVars, trackVars, workerVars,
                 event, pending, accepted>>
-----------------------------------------------------------------------------
(* The environment: time, signals, and events nobody asked for.            *)

LengthElapses ==
  /\ ~lengthElapsed /\ lengthElapsed' = TRUE
  /\ UNCHANGED <<mainVars, ctxDone, signalled, countVars, trackVars,
                 workerVars, eventVars, netVars>>

(* An in-flight action gets older than MaxTimePerAction.  In log mode that *)
(* is only written to the log.                                             *)
BecomeOverdue(id) ==
  /\ DelinquentAction = "exit" /\ id \in msgTimeMap \ overdue
  /\ overdue' = overdue \cup {id}
  /\ UNCHANGED <<mainVars, clockVars, countVars, msgTimeMap, workerVars,
                 eventVars, netVars>>

Interrupt ==
  /\ ~signalled /\ Inject("interrupt") /\ signalled' = TRUE
  /\ UNCHANGED <<mainVars, ctxDone, lengthElapsed, countVars, trackVars,
                 workerVars, eventVars, pending, accepted>>

(* The ack of a delivered event got lost, or the websocket reconnected.    *)
Redeliver(n, e) ==
  /\ n \in Confirmers(e.action[1]) /\ e \notin pending[n]
  /\ Inject("redeliver")
  /\ pending' = [pending EXCEPT ![n] = @ \cup {e}]
  /\ UNCHANGED <<mainVars, clockVars, countVars, trackVars, workerVars,
                 eventVars, accepted>>

EmitStray(n, kind, w) ==
  /\ kind = "foreign" \/ w = 0
  /\ Stray(kind, w) \notin pending[n] /\ Inject(kind)
  /\ pending' = [pending EXCEPT ![n] = @ \cup {Stray(kind, w)}]
  /\ UNCHANGED <<mainVars, clockVars, countVars, trackVars, workerVars,
                 eventVars, accepted>>
-----------------------------------------------------------------------------
MainStep ==
  \/ LoopCheck \/ SelectSignal \/ SelectSend \/ LimiterWait
  \/ SelectTimeout \/ StopTest \/ DrainTallied \/ DrainIdle
  \/ Report \/ Cleanup

WorkerStep(w) ==
  \/ RampUp(w) \/ TakeToken(w) \/ StopIdle(w) \/ SpawnAction(w)
  \/ EndSubmit(w) \/ CollectSuccess(w) \/ CollectError(w)
  \/ AwaitCancelled(w) \/ ActionConfirmed(w) \/ FinishLoop(w)

RunOnceStep(w, k) == AcceptFirst(w, k) \/ RespondOK(w, k)

RunOnceFault(w, k) ==
  AcceptRetry(w, k) \/ RespondError(w, k) \/ RespondConflict(w, k)

EventStep(n) ==
  \/ \E e \in pending[n] :
       ReceiveUnknown(n, e) \/ ReceiveWithoutURI(n, e) \/ ReceiveEvent(n, e)
  \/ Deliver(n) \/ CloseLoop(n)

Environment ==
  \/ LengthElapses \/ Interrupt
  \/ \E id \in msgTimeMap : BecomeOverdue(id)
  \/ \E n \in Nodes :
       \/ LoseConnection(n)
       \/ \E p \in accepted : \E e \in EventsOf(p[1], p[2]) : Redeliver(n, e)
       \/ \E kind \in StrayKinds, w \in Workers : EmitStray(n, kind, w)

(* Nothing happens once the process has ended.                             *)
Ended == ~Alive /\ UNCHANGED vars

Next ==
  \/ /\ Alive
     /\ \/ MainStep
        \/ \E w \in Workers :
             \/ WorkerStep(w)
             \/ \E k \in running[w] : RunOnceStep(w, k) \/ RunOnceFault(w, k)
        \/ \E n \in Nodes : EventStep(n)
        \/ Environment
  \/ Ended

Spec == Init /\ [][Next]_vars

(* The Go scheduler runs every goroutine that can run, FireFly answers and *)
(* delivers, and what is in flight gets old.  How long the test lasts is   *)
(* not assumed (it may be a daemon), and no fault has to happen.           *)
Fairness ==
  /\ WF_vars(Alive /\ MainStep)
  /\ \A w \in Workers : WF_vars(Alive /\ WorkerStep(w))
  /\ \A w \in Workers : \A k \in 0 .. ActionsPerLoop - 1 :
       WF_vars(Alive /\ RunOnceStep(w, k))
  /\ \A n \in Nodes : WF_vars(Alive /\ EventStep(n))
  /\ WF_vars(Alive /\ \E id \in msgTimeMap : BecomeOverdue(id))

FairSpec == Spec /\ Fairness
-----------------------------------------------------------------------------
(* Properties.                                                             *)

MainLoop == {"check", "select", "limiter"}

MainTypeOK ==
  /\ mpc \in MainLoop \cup {"balance", "drain", "report", "cleanup", "exited",
                           "panicked"}
  /\ bfr \in 0 .. TotalWorkers /\ dispatched \in 0 .. MaxDispatch
  /\ submissionCount \in Nat /\ totalActions \in Nat
  /\ receivedEvents \in Nat /\ faults \in Nat

FlagTypeOK ==
  /\ stopping \in BOOLEAN /\ recorded \in BOOLEAN /\ ctxDone \in BOOLEAN
  /\ signalled \in BOOLEAN /\ lengthElapsed \in BOOLEAN

WorkerTypeOK ==
  /\ wpc \in [Workers -> {"ramp", "idle", "submit", "collect", "confirm",
                          "failed", "stopped"}]
  /\ loop \in [Workers -> Nat]
  /\ actionsCompleted \in [Workers -> 0 .. ActionsPerLoop]
  /\ running \in [Workers -> SUBSET (0 .. ActionsPerLoop - 1)]
  /\ responses \in [Workers -> Seq(Responses)]
  /\ resultCount \in [Workers -> 0 .. ActionsPerLoop]
  /\ trackingIDs \in [Workers -> Seq(Actions)]
  /\ confirmedActions \in [Workers -> 0 .. ActionsPerLoop]
  /\ confirmations \in [Workers -> Nat]
  /\ msgTimeMap \in SUBSET Actions /\ overdue \in SUBSET msgTimeMap

EventTypeOK ==
  /\ epc \in [Nodes -> {"receive", "deliver", "dead", "closed"}]
  /\ event \in [Nodes -> Events \cup {NoEvent}]
  /\ pending \in [Nodes -> SUBSET Events]
  /\ accepted \in SUBSET (Actions \X Nat)

(* Every variable has its type; no counter passes its limit: bfr holds at  *)
(* most a token per worker, a loop starts, reads and confirms at most      *)
(* ActionsPerLoop actions, and only tracked actions are overdue.           *)
TypeOK == MainTypeOK /\ FlagTypeOK /\ WorkerTypeOK /\ EventTypeOK

(* What of a worker's counted actions is in flight, by its own list, and   *)
(* what msgTimeMap tracks of it.                                           *)
InFlight(w) == {trackingIDs[w][m] : m \in 1 .. Len(trackingIDs[w])}
Tracked(w) == {id \in msgTimeMap : id[1] = w}

(* runLoop has returned with its list: after an error, or cancelled.       *)
HasLeft(w) ==
  \/ wpc[w] = "failed" /\ DelinquentAction = "exit"
  \/ wpc[w] = "stopped" /\ ctxDone

(* pr.msgTimeMap agrees with the workers' lists.  A confirmed action is    *)
(* not tracked, and could not make detectDelinquentMsgs end a healthy      *)
(* test; one that is not confirmed is tracked, if it has an ID of its own  *)
(* (those of a contract test share the worker's).  Only a worker whose     *)
(* runLoop returned on an error in exit mode, or by a cancelled context,   *)
(* leaves entries that nobody will take off.                               *)
TrackingExact ==
  \A w \in Workers :
    /\ Tracked(w) \subseteq InFlight(w)
    /\ TestOf[w] \notin WorkerIDTests => InFlight(w) \subseteq Tracked(w)
    /\ Tracked(w) # {} => wpc[w] \in {"collect", "confirm"} \/ HasLeft(w)

(* Every RunOnce goroutine of a loop is accounted for once: it still runs, *)
(* its answer waits in actionResponses, or the answer has been counted.  A *)
(* worker goes on to the confirmations only when all have been counted,    *)
(* and has no more IDs left to confirm than actions.                       *)
Ledger(w) ==
  /\ running[w] \subseteq 0 .. actionsCompleted[w] - 1
  /\ resultCount[w] + Len(responses[w]) + Cardinality(running[w])
       = actionsCompleted[w]
  /\ \A m \in 1 .. Len(responses[w]) : responses[w][m].id[1] = w
  /\ wpc[w] \in {"ramp", "idle"} => actionsCompleted[w] = 0
  /\ wpc[w] \in {"ramp", "idle", "submit"} => trackingIDs[w] = <<>>
  /\ wpc[w] \in {"ramp", "idle", "submit", "collect"} =>
       confirmedActions[w] = 0 /\ Len(trackingIDs[w]) <= resultCount[w]
  /\ wpc[w] = "confirm" =>
       /\ resultCount[w] = ActionsPerLoop
       /\ confirmedActions[w] <= actionsCompleted[w]
       /\ Len(trackingIDs[w]) <= actionsCompleted[w] - confirmedActions[w]

LoopLedger == \A w \in Workers : Ledger(w)

(* Events that will release worker w: not yet received, or being delivered. *)
InTransit(w) ==
  {p \in UNION {{n} \X (pending[n] \cup {event[n]}) : n \in Nodes} :
     filterEvent(p[2]) = w}

(* Has node n still to hand over an event of the action?                   *)
Unconfirmed(w, k, n) ==
  \/ Copies(w, k) = {}
  \/ \E e \in pending[n] \cup {event[n]} :
       /\ e.kind = "own" /\ e.action = Act(w, k)
       /\ filterEvent(e) = w

(* Without faults, what a worker still waits for is exactly what is on its *)
(* way: it never waits for an event it has had, and leaves none over for   *)
(* its next loop.  Events are dropped only once the test is stopping.      *)
ConfirmationsBalance ==
  ~stopping => \A w \in Workers :
    /\ wpc[w] \in {"ramp", "idle"} => InTransit(w) = {}
    /\ wpc[w] = "confirm" =>
         Cardinality(InTransit(w)) + confirmations[w] =
           (actionsCompleted[w] - confirmedActions[w])
             * confirmationsPerAction(w)

(* An event loop blocks only on a worker that is inside the loop the event *)
(* belongs to, so one slow worker holds up the events of the others no     *)
(* longer than its own submissions take (the channels are unbuffered).     *)
BlockedOnCurrentLoop ==
  \A n \in Nodes : epc[n] = "deliver" =>
    LET a == event[n].action IN
      /\ wpc[a[1]] \in {"submit", "collect", "confirm"}
      /\ a[2] = loop[a[1]] /\ a[3] < actionsCompleted[a[1]]

(* "Wait for worker to confirm the message before proceeding to next task" *)
(* (runLoop): when a worker finishes a loop, every node concerned has      *)
(* delivered the event of every action of that loop.                       *)
NextTaskAfterConfirm ==
  [][\A w \in Workers : loop'[w] # loop[w] =>
       \A n \in Confirmers(w), k \in 0 .. actionsCompleted[w] - 1 :
         ~Unconfirmed(w, k, n)]_vars

(* How far the counter can run past MaxActions: every worker can have      *)
(* passed the test in runLoop before the last action was counted.          *)
OvershootBound ==
  MaxActions > 0 =>
    totalActions <= MaxActions - 1 + TotalWorkers * ActionsPerLoop

(* totalActionsCounter counts an action at most once, and only one that    *)
(* FireFly has accepted, whatever is retried, refused or lost.             *)
CountsAccepted == totalActions <= Cardinality({p[1] : p \in accepted})

(* The workers implement the closed loop.                                  *)
CL == INSTANCE ClosedLoop WITH
        round <- loop, issued <- actionsCompleted,
        owed <- [w \in Workers |->
                   {c \in (0 .. actionsCompleted[w] - 1) \X Confirmers(w) :
                      Unconfirmed(w, c[1], c[2])}]
ClosedLoopSpec == CL!Spec

(* A loop that has been started is finished, unless the test stops first.  *)
LoopsFinish ==
  \A w \in Workers :
    wpc[w] = "submit" ~> (wpc[w] = "idle" \/ stopping \/ ~Alive)

(* Once MaxActions actions have been counted the test ends, even with      *)
(* workers that took a token too late to start anything.                   *)
MaxActionsEndTest == (MaxActions > 0 /\ totalActions >= MaxActions) ~> ~Alive

(* An event loop that waits for a worker gets to receive again.            *)
EventLoopsProceed ==
  \A n \in Nodes :
    epc[n] = "deliver" ~> (epc[n] = "receive" \/ stopping \/ ~Alive)

(* Outside daemon mode the process ends once the test's length is over,    *)
(* whatever became of workers, events and connections.                     *)
TestEnds == lengthElapsed ~> ~Alive

(* DelinquentAction "exit": no worker has counted actions in flight for    *)
(* ever; they are confirmed, or the test ends, even if the worker itself   *)
(* has returned.  Not so for the tests whose actions share one ID: the     *)
(* first confirmation untracks them all.                                   *)
StuckActionEndsTest ==
  \A w \in {v \in Workers : TestOf[v] \notin WorkerIDTests} :
    (trackingIDs[w] # <<>>) ~> (trackingIDs[w] = <<>> \/ mpc \notin MainLoop)
-----------------------------------------------------------------------------
(* What the documentation says, and the code does not do.                  *)

(* "A value of exit causes the test to end if an error occurs" (README).   *)
ErrorEndsTest ==
  \A w \in Workers : wpc[w] = "failed" ~> mpc \notin MainLoop
=============================================================================
