# A TLA+ model of ffperf

`ffperf` (hyperledger/firefly-perf-cli) puts a FireFly network under load: it
submits messages, token mints, transfers and contract calls, waits for the
events that confirm them, and measures throughput and latency. This directory
holds TLA+ modules of its logic, the TLC configurations that check them, and
proofs that TLAPS checks. Line numbers below refer to `src/internal/perf/perf.go`
unless another file is named.

## 1. Inventory

| Component | State it keeps | Operations | Modelled in |
|---|---|---|---|
| Dispatch loop and shutdown (`Start`, 492-660) | the `bfr` channel of tokens, `i`, `stopping`, `endTime`, the drain's snapshot | send a token, rate limiter, delinquency check, signal, timeout, no-wait drain, report, cleanup | `PerfRunner` |
| Workers (`runLoop`, 939-1088) | loop-local counters, `actionResponses`, `trackingIDs`; shared: `msgTimeMap`, `totalActionsCounter` | take a token, spawn actions, collect answers, await confirmations, end the loop | `PerfRunner`, `ClosedLoop` |
| Test cases (`RunOnce` in `*_msg.go`, `token_mint.go`, `custom_*`, `erc20transfer.go`, `uploadBlob` in `test_base.go`) | none of their own; the HTTP client's retry count | upload a blob, post, retry, give a tracking ID or an error | `RunOnce`; as one step of a loop in `PerfRunner` |
| Event loops (`eventLoop`, `filterEvent`, 704-787, 876-937) | one goroutine per node, blocked or not | receive, filter, acknowledge, hand over to a worker | `PerfRunner`; during setup `Setup` |
| Batch event loop (`batchEventLoop`, 789-874) | one goroutine per node, and one per event of its batch | receive a batch, handle its events, wait for all, acknowledge or end | `BatchEvents` |
| Setup, prep stage, cleanup (317-490, 662-702, 1092-1674) | recorded subscription and listener IDs, `eventPrefixForCurrentStage`; in FireFly: subscriptions, listeners | create, start by name, restart on reconnect, await the pre-mint, delete | `Setup` |
| Run configuration (`cmd/run.go`) | the `RunnerConfig` under construction | select an instance, take nodes, default, validate | `RunConfig` |
| Summary, TPS, latency (1267-1300, 1722-1753) | `summary`'s counters, which several goroutines increment | count, divide | `Summary`; the division by zero is `Report` of `PerfRunner` |
| Mint balance check (1222-1265, and 1062-1086 of worker 0) | the counter of mints, the gauge of the balance | poll until equal, verdict | `MintBalance`, `Ending` |
| HTTP server (`server.go`) | its signal channel and shutdown channel | listen, wait for a signal, shut down | `HttpServer`, `Ending` |
| Report page, CLI wiring, stack types, scripts and charts | none, or none that matters here | | not modelled |

**How they interact.** `Start` sends a token on `bfr` (capacity: one per
worker) for each loop it wants. A worker takes one, spawns `ActionsPerLoop`
goroutines that each call `RunOnce`, reads their answers from a channel of its
loop, and puts the tracking ID of each success in the shared `msgTimeMap`.
Each FireFly node later sends an event for the action over its websocket. The
event loop of that node acknowledges the event, finds the number of the worker
in it (a tag, a URI, a contract value), and sends on that worker's *unbuffered*
channel; the worker counts what it receives. `Start` looks at `msgTimeMap` for
actions older than `MaxTimePerAction`. A protocol error cancels the context
that all goroutines select on. Every event received is also counted in the
summary by the goroutine that received it. A signal reaches two goroutines,
`Start` and the HTTP server, each through a channel of its own.

**What is hard.**

- *Confirmations are counted, not matched.* A worker never looks at the event,
  its node or its ID; nothing but arithmetic keeps a loop's events from being
  taken for the next one's. Which test case is confirmed by whom, and how many
  events of a mint carry a worker number, decides whether the sum is right.
- *Blocking.* Event loops block on a worker, workers on events, the collection
  loop on answers that may have never been asked for (1021 is reached only
  after `ActionsPerLoop` answers, though MaxActions may cut submission short).
- *Check and use.* MaxActions is tested before a submission and counted after
  its answer, by all workers at once.
- *Partial failure.* One of several parallel submissions fails; an answer is
  lost and the HTTP client retries, with or without an idempotency key; the
  creation of a subscription is refused and nobody looks at the status.
- *Shared counters.* The summary is incremented by every event loop without a
  lock; one gauge carries the balance of two readers to the check that decides
  whether a run has failed, in two reads while workers mint on.
- *Ending.* Six ways out of the dispatch loop, some through a panic, and a
  cleanup that only the normal way reaches; a server that ends for itself.

**What makes each component correct.** Dispatch: the test ends when it should,
whatever the workers do. Workers: load is closed-loop (no next task before
every node concerned has confirmed), every answer is accounted for, nothing is
leaked in `msgTimeMap`. Event loops: they never wait for ever, or for a worker
that is not in that loop; in batch mode what is acknowledged has been handed
over, and nothing that failed is acknowledged. Test cases: an action reported
as sent was accepted, a contract action once, a message with its blob. Summary:
it does not count what has not happened. Balance check: it passes only, and
always, when the tokens are there. Server: it does not leave the load alone.
Setup: when workers start, every test case has a started, known subscription on
every node; Start decides; cleanup leaves nothing behind. Run configuration:
what is accepted can be run.

`PROJECT.json` lists the hazards line by line with the properties for them.

## 2. Plan

Done: `PerfRunner` and `ClosedLoop` (the core); `Setup`, `RunConfig`;
`BatchEvents`, `RunOnce`, `Summary`, `MintBalance`, `HttpServer` and their
composition with `Start` in `Ending`; for each of them, a theorem for every
safety invariant and action property that a run checks, and for the two that
implement `ClosedLoop` the refinement.

How the modules fit together. `RunOnce` and `PerfRunner` see the same action at
two grains: the core's `AcceptFirst`, `AcceptRetry` and `Respond...` actions
rely on what `RunOnce` shows of success, failure and retries. `BatchEvents`
takes the place of the core's event loops when the configuration asks for
batches, and implements the same `ClosedLoop`. `Setup`'s state "run" is the
core's initial state, and `Ending` begins with the load and takes the core's
way out of the dispatch loop (`LeaveLoop`, `Panic`) as a choice. `Summary` is
what each event received does to the counters, in either mode. The modules are
checked apart: composed, their interleavings would be far too many and
independent of each other.

Next: theorems that say how the modules fit together where they now only agree
by comment (that `RunOnce`'s outcomes are the answers `PerfRunner` allows), and
`ConfirmationsBalance` with the faults that leave it intact.

## 3. The modules

### PerfRunner

The core. Variables are named after the code's where there is one: `bfr`,
`stopping`, `msgTimeMap`, `actionsCompleted`, `resultCount`, `trackingIDs`,
`submissionCount`; program counters are `mpc` (Start), `wpc` (each worker),
`epc` (each event loop).

| Goroutine | Actions | Code |
|---|---|---|
| Start | `LoopCheck`, `SelectSignal`, `SelectSend`, `LimiterWait`, `SelectTimeout`, `StopTest`, `DrainTallied`, `DrainIdle`, `Report`, `Cleanup` | 539-660 |
| worker | `RampUp`, `TakeToken`, `StopIdle`, `SpawnAction`, `EndSubmit`, `CollectSuccess`, `CollectError`, `AwaitCancelled`, `ActionConfirmed`, `FinishLoop` | 939-1088 |
| RunOnce and FireFly's side | `AcceptFirst`, `AcceptRetry`, `RespondOK`, `RespondError`, `RespondConflict` | 978-992 and the test cases |
| event loop | `ReceiveUnknown`, `ReceiveWithoutURI`, `ReceiveEvent`, `Deliver`, `CloseLoop`, `LoseConnection` | 876-937, 704-787 |
| environment | `LengthElapses`, `BecomeOverdue`, `Interrupt`, `Redeliver`, `EmitStray` | |

An action is `<<worker, loop, index>>`, an event a record with the action, the
copy (a retry without idempotency key makes a second one) and, for a mint, the
part (message or transfer). Times are abstracted: `lengthElapsed` and `overdue`
become true at any moment. `Deliver` is the rendezvous on the unbuffered
channel. The verdict of the mint balance check is a choice in `StopTest`;
`MintBalance` says when it is which.

Assumed of FireFly, from how the code uses it: a node that takes part in an
action delivers its events once the submission is accepted; two parties
confirm a private message, all nodes the rest; a known idempotency key is
answered with a conflict. Events may arrive before the answer to their
submission. Faults, each allowed only when `Faults` names it: submission
errors, lost answers, redelivery, lost connections, interrupts, and events
that are foreign (another run's), garbled, for a worker that does not exist
("phantom"), untracked, without URI, of an unknown subscription, or protocol
errors.

### ClosedLoop

The abstract specification of a worker: issue actions, every confirming node
owes an event for each, the next round starts when none is owed.
`PerfRunner!CL` is the refinement mapping: what is owed is what is not
accepted yet, or whose event is still pending or held by an event loop.

### Setup

Everything `Start` does around the load, one action per call to FireFly: pool,
then node by node the steps of `StepsOfNode`, then a websocket per node, the
wait for the pre-mint's event, "run", cleanup node by node. `todo` is the set of
steps left on a node; they are taken in the order of `NodeSteps`, in which the
code has them (`Place`, `AtStep`, `Proceed`). Sets hold what the
program has recorded (`subscriptions`, `listeners`) and what FireFly really has
(`remoteSubs`, `remoteListeners`); the hazards are where they differ. Faults:
a call refused (an HTTP error, which resty does not report as `err`), its
answer lost, FireFly unreachable, a delete that fails, a reconnect. `faults` is
the set of kinds that have happened: each property excepts the kinds that do
break it, and no others. `Sources` says what a test case needs of a node: for a
mint with data the transfers and the messages, because `filterEvent` then takes
the worker's number from the message. Assumed of FireFly: subscription names are unique on a
node (409 otherwise), and starting an unknown name is answered with a protocol
error.

### RunOnce

One action of a worker: `Begin`, `Upload` (`uploadBlob`) for the blob tests,
`Post` for the request; each attempt gets an answer (success, lost,
unreachable, refused, conflict) and the client's retry condition (301-320)
decides whether there is another. `Outcome` is what the test case makes of the
last answer. `Actions` are calls with the same worker and iteration: all loops
of a worker use the same iteration numbers, and a worker's loop that ended in
exit mode may still have calls out. An idempotency key is the set of what tells
it from others; only the UUID does.

Assumed of the outside, from how the code uses it: resty tries again up to
`MaxRetries` times and does not rewind the reader an earlier attempt has read
to its end; FireFly stores what it got, refuses a message with an unknown data
ID, and answers a known idempotency key with 409.

### BatchEvents

`ReceiveBatch`, `HandleEvent` and `FilterFails` (one goroutine per event),
`HandOver` (the rendezvous), `AckBatch` and `FailBatch` (after `g.Wait`),
`CloseLoop`, `LoseConnection` (797-799); workers reduced to `Submit`,
`FinishLoop` and `StopWorker`: what they do with answers and tracking is the
core's. Besides the events of actions there are foreign ones, garbled ones (for
worker 0), ones of an unknown subscription, for a worker that does not exist,
and protocol errors; the first two do release a worker. `task[n]` is the batch in
work, with the place of each event's goroutine. Assumed of FireFly: it delivers
what is not acknowledged, in batches of its choice, and again after a lost
acknowledgement. Only private messages and mints differ in who confirms them;
here every node confirms every action.

### Summary

`recordCompletedAction` by several callers: in the ramp an atomic addition
(`RecordRamp`); afterwards `totalSummary++` as a read (`ReadTotal`) and a write
(`WriteTotal`), then an atomic addition to the same counter (`AddTotal`).

### MintBalance, HttpServer, Ending

`MintBalance` has `detectDelinquentBalance` (`LoopHead`, `Query`, `SetGauge`,
`ReadSent`, `Compare`, `Verdict`: each comparison reads first the counter, then
the gauge), worker 0's update of the same gauge (`ZeroQueries`,
`ZeroSets`), the workers' mints, and the chain, which mines what was accepted
in any order. The balance is the number of balance rows the query counts
(1680-1708): assumed is a row per token of a non-fungible pool and one row for
a fungible pool, whatever the amount (`token_mint.go:65`). The run has a
non-fungible pool, the proofs either.
`HttpServer` has `Run` (`Listen`, `Return`) and `gracefulShutdown`
(`NotifyServer`, `SeeSignal`, `ShutServer`, `CloseChannel`).

`Ending` puts both next to `Start`: `NotifyStart` asks for signals after the
setup, `LeaveLoop` ends the load, the check runs, `EndCheck` panics or goes on
to `FinishStep` (drain and report, the last five seconds, cleanup). `Signal`
reaches whoever has asked by then, and ends the process if nobody has. The
process ends with `Start`, whatever the server is at.

### RunConfig

`selectInstance`, `generateRunnerConfigFromInstance`, `setDefaults`,
`validateConfig` as a state machine over every bounded input, negative numbers
included. An index out of range is a panic, as in Go. Options that are only
copied, and the URLs, are left out.

### MC modules and proof modules

`MCPerfRunner`, `MCSetup`, `MCRunConfig`, `MCBatchEvents` define the functions
and sets a configuration file cannot write. The theorems of a module are in the
module of its name with `Proofs` behind; those of `PerfRunner` about runs
without faults, and its refinement, in `ConfirmationProofs`, which extends
`PerfRunnerProofs`; those of `BatchEvents` in `BatchProofs`.

Definitions marked `\* mutant` are faulty variants of a definition that follows
them; they are not part of the specification and show, when put in its place,
that a property can fail.

## 4. What is checked

| Run | Question | Bounds |
|---|---|---|
| `core` | Fault-free: is it a closed loop, do confirmations balance (`ConfirmationsBalance`, `NextTaskAfterConfirm`, `ClosedLoopSpec`), do event loops block only on the current loop (`BlockedOnCurrentLoop`), do loops finish and event loops proceed (`LoopsFinish`, `EventLoopsProceed`)? | a mint and a private-message worker, 2 nodes, 2 tokens |
| `nowait_limits` | No-wait mode: how far can the count overshoot MaxActions (`OvershootBound`), and does the process end (`MaxActionsEndTest`, `TestEnds`) with stuck workers and a lost connection? | 2 workers, MaxActions 2, 4 tokens |
| `faults` | Under any one fault: types and limits (`TypeOK`), only accepted actions counted and at most once (`CountsAccepted`)? | a broadcast and a Fabric worker, 2 nodes, 2 tokens, all faults |
| `delinquent_exit` | Two actions in parallel in exit mode: is every answer accounted for (`LoopLedger`), does `msgTimeMap` agree with the workers' lists (`TrackingExact`), and do unconfirmed actions with IDs of their own end the test (`StuckActionEndsTest`)? | a broadcast and a Fabric worker, 1 node, 2 actions per loop, 2 tokens, daemon, a lost connection or a failed submission |
| `setup` | Does every test case have its events when workers start (`TestsHaveEvents`), are started subscriptions known (`StartedAreKnown`), is nothing left behind (`NothingLeftBehind`), no ERC-20 worker before a pre-mint is on the chain (`MintedBeforeWorkers`), does Start decide (`StartDecides`)? | every set of up to 3 test cases, 2 nodes, one fault of any kind |
| `run_config` | Is every accepted configuration runnable (`ReadyIsRunnable`)? | up to 2 instances, 2 nodes or members |
| `batch` | Batch mode: is only acknowledged what was handed over (`AckedWasTaken`) and nothing with a failed event (`FailedNotAcked`), are the workers a closed loop (`ClosedLoopSpec`), do they finish although batches wait for the slowest (`LoopsFinish`), does a failed batch end (`FailedBatchEnds`)? | 2 workers (2 loops and 1), 2 nodes, batches of 2, one fault of 7 kinds on one node |
| `run_once` | Does success mean accepted (`OkMeansAccepted`), is a contract invoked once (`KeyedOnce`), is a failure one (`FailedMeansExhausted`), has a message its blob (`MessageHasItsBlob`), does each action end (`RunOnceEnds`)? | every test case, 2 actions, 2 retries |
| `summary` | How far can the summary be off (`MeasuredBounded`)? | 3 callers, 3 calls in the ramp, 3 after |
| `ending` | Does the balance check pass only when the mints it has read have come (`PassMeansArrived`, `GaugeNotAhead`) and always when all is settled (`SettledPasses`)? Has a success the mints of the load (`SuccessMeansMinted`), does a signal end the run (`SignalEndsRun`), and not the server alone (`ServerDownMeansEnding`)? | 2 mints, 1 update by worker 0, 1 signal, starting balance 1, queries and mints that fail, a cancelled context |

**Why the bounds are enough.** `MaxDispatch` caps the tokens: two let one
worker go through two loops while the other does nothing, or both overlap,
which is what carrying an event over to a next loop takes; four with
MaxActions 2 let both workers pass the test with the count one short, and again
afterwards. Two workers and two nodes are the least at which a worker can be
released by the wrong node or hold up another's events; `delinquent_exit` has
one node to afford parallel actions: in a loop of two an ID can be taken off
while the other is in flight, and one submission can fail next to one that is
stuck. One fault at a time, of any kind at any moment, is what the properties
are stated for. In `Setup` mixtures of
three test cases contain every pair of interfering steps and a third; two nodes
show what differs between first and last.

`MaxLoops` and `MaxBatch` of `BatchEvents`: a batch of two with one event of
each worker is what makes them wait for each other, across the two nodes; the
second loop of one worker can come into the same batch as the other's first.
`FaultyNodes`: the nodes differ in name only, so one stands for either. In
`RunOnce` two retries make a first, a middle and a last attempt, and two
actions can have each other's key; `MaxCalls` of `Summary` lets each of three
callers overwrite the others once. `MaxMints`, `MaxUpdates`, `MaxSignals` of
`Ending`: two mints let the check meet one that is counted and one that is not;
one late update is enough to set the gauge back between query and comparison;
one signal is all either channel holds.

**Deadlock.** Off in `setup` and `batch`, where the code really may wait for
ever: `Start` at 487, when the subscription for the pre-mint was refused or its
event loop cancelled; a goroutine of a batch whose worker does not exist, and
with it the batch. Off in `run_once`, `summary` and `v_measured`, whose
behaviours end when all actions or calls have returned.

"Supported" sets of test cases (`OwnSubscriptions`) leave out what section 6
shows not to work: private messages without broadcasts, two contract tests.

**Fairness.** `FairSpec` has weak fairness of each goroutine (`Start`, each
worker, each `RunOnce` call, each event loop): the Go scheduler runs every
goroutine that can run. FireFly's acceptance and answer are part of a
`RunOnce` call's step, and its delivery part of the event loop's: the network
answers. An overdue action is eventually noticed as such (time passes). That
the test's length elapses is *not* assumed, so that liveness holds for a
daemon, too. No fault has to happen. In `Setup`: `Start`, the event loops, and
the chain that mines. In `BatchEvents`: each worker, each batch loop, and on
each node some goroutine of the batch that can run. In `RunOnce`: each action,
whose requests are answered or fail. In `Ending`: `Start`, the server's
goroutines, and the clock of the balance wait, which the code limits; that the
loop ends, that a signal comes or that the chain mines is not assumed.

## 5. What is proved

Every safety invariant and every action property of the passing runs, and both
refinements. Each theorem holds for every value of its module's constants, from
the one named assumption there (`ConfigAssumption`, `SetupAssumption`,
`RunConfigAssumption`, `BatchAssumption`, `RunOnceAssumption`,
`CallersAssumption`, `EndingAssumption`), which say only what type they have
(and `BatchAssumption` that there is a worker 0, to which garbled events go).
Four theorems of the core and one of batch mode have a hypothesis on the
configuration besides; it is explained where they are listed.

Of `PerfRunner`, for every number of workers and nodes, every assignment of
test cases, every option and every set of faults:

- `TypeCorrect`: `Spec => []TypeOK`. Besides types, it says that `bfr` never
  overflows, that counters of a loop stay within `ActionsPerLoop`, and that
  only tracked actions are overdue. Not inductive as it stands: after a token
  is sent there must be room to count it (`DispatchRoom`), and a worker that
  collects must have answers to go (`CollectOpen`). `TypeInv` adds both.
- `AnswersAccountedFor`: `Spec => []LoopLedger`. Answers counted, waiting and
  outstanding add up to the actions spawned, in every state; a worker awaits
  confirmations only after `ActionsPerLoop` answers.
- `TrackingIsExact`: `Spec => []TrackingExact`. What `msgTimeMap` has of a
  worker is in that worker's list of unconfirmed actions; the list is in the map
  too, if its IDs are the actions' own; and there is an entry only of a worker
  inside its loop, or of one whose `runLoop` returned on an error in exit mode or
  by a cancelled context. Those entries stay (hazard at 997).

The last two are proved one on the other: a worker may end its loop only with
nothing tracked, and that its list is empty then follows from the ledger (there
are never more IDs left than actions to confirm). `TrackingInv` has the ledger
and that what is tracked is listed. `ExactInv` adds what the other direction
needs: the IDs of a list are the worker's own and, unless they are shared,
distinct, so the one that is taken off is no other entry's; they are of the
current loop, so an answer adds an ID that is not there yet. The proofs have one
step per action; `OwnWorkerEnough` reduces each to the worker that moves,
because no other worker's state changes and tracked IDs name their worker.

- `OvershootIsBounded`: `Spec => []OvershootBound`. Not inductive: the counter
  says nothing of answers under way. `OvershootInv` adds the open slots, the
  indices of the workers' loops whose answer has not been read: below
  MaxActions nothing is claimed; from there on counter and open slots stay
  together below the bound, because no slot opens any more and reading an
  answer closes the slot it counts.
- `CountIsBacked`: `Spec => []CountsAccepted`. `CountsInv` strengthens it by
  what is on the way: the count and the positive answers still waiting in
  `actionResponses` together are no more than the actions FireFly has accepted
  and answered.

Of `PerfRunner` in `ConfirmationProofs`, under `SteadyConfig`:

- `ConfirmationsAddUp`: `[]ConfirmationsBalance`; `EventLoopsBlockBriefly`:
  `[]BlockedOnCurrentLoop`; `ConfirmedBeforeNext`: `NextTaskAfterConfirm`;
  `ImplementsClosedLoop`: `ClosedLoopSpec`.

`SteadyConfig` names the runs in which the code's count can be right: no
faults, `noWaitSubmission` off, `skipMintConfirmations` off, mints that carry a
worker number in exactly one of their two events, no ERC-20 test (its event
has the amount where `filterEvent` looks for a worker), and two nodes as the
parties of a private message. `core.cfg` satisfies it, section 6 shows what
goes wrong without its conditions, and all else (nodes, workers, test cases,
limits, exit mode) is arbitrary. The invariant, `SteadyInv`, follows an event
from the acceptance of its action to the worker that counts it. In transit, on
the websocket or held by an event loop, are only events of the current loop of
their worker; until the worker awaits confirmations none has been consumed, so
each accepted action has its event at every node concerned; from then on what
is in transit and what has been counted add up to what is owed (`Balanced`).
That needs all of the core's invariants, and that no worker has failed
(`NoFailure`), each submission is accepted once (`AcceptedOnce`) and an event
loop holds an event of an accepted action (`EventsKnown`). When the test stops
events are dropped, and only "at most" remains. A loop ends when nothing is
owed; therefore nothing is in transit, which is what the next loop needs, and
`OwedIsMissing` reads the refinement mapping off the same state.

Of `BatchEvents`, for every number of workers, nodes, loops and size of batch:

- `BatchTypeCorrect`: `Spec => []TypeOK`, and `AckedAfterHandOver`:
  `Spec => []AckedWasTaken`. The batch is acknowledged as a whole, after its
  goroutines: `DoneMeansTaken` says what a goroutine's success stands for,
  `SubmittedInv` that events are of submitted actions, and `AckedInv` that of
  each of those one is pending or has been taken.
- `FailedBatchIsKept`: `Spec => FailedNotAcked`, from the same invariant.
- `BatchImplementsClosedLoop`: `ClosedLoopSpec`, for a run that waits
  (`NoWaitSubmission = FALSE`), as long as no acknowledgement was lost and no
  foreign or garbled event sent (`Unsafe`): any of them releases a worker early,
  as in the core. `StraysKnown`: no such event is pending without its fault.
  `OnceInv`: then no event comes twice, so the events a worker has received in
  its loop are as many as it has counted, and those of its earlier loops have all
  come.

Of `Setup`, for every number of nodes, every set of test cases and of faults:

- `SetupTypeCorrect`: `Spec => []SetupTypeOK`.
- `KnownWhenStarted`: `Spec => []StartedAreKnown`, from `RecordedInv`: what
  FireFly has is recorded for its node, unless an answer was lost.
- `RunLeavesNothing`: `Spec => []NothingLeftBehind`, from `RecordedInv` and
  `CleanedInv`: cleanup leaves nothing on the nodes it has done.
- `MintBeforeTransfer`: `Spec => []MintedBeforeWorkers`. `MintedInv` follows a
  pre-mint's event back through event loop and websocket to the chain.
- `EveryTestIsHeard`: `Spec => []TestsHaveEvents`, for each source of events a
  test case needs. `CreatedInv` says how far the
  creation has got, step by step on the current node and for the nodes before
  it; `StartedInv` the same for the websockets. `OnlyNeeded` and `OneForm` are
  for the answer 409: with at most one contract test a name that is taken is
  taken by the very subscription that is wanted.

Of `RunConfig`, for any number of instances, nodes and members and any input:

- `ReadyRuns`: `Spec => []ReadyIsRunnable`. The sender is checked when nodes are
  taken, before validation, and the loop count is repaired in between;
  `RunnerInv` says what holds at each of these points.

Of `Summary`, for any finite set of callers and any number of calls:

- `SummaryBound`: `Spec => []MeasuredBounded`. Not inductive: a caller may
  write back what it read long ago. `HeldBounded` says that what callers hold
  is within the bound as well, which only grows; a writer then moves from what
  it holds to `Adding`, and each gives one.

Of `RunOnce`, for any number of actions and of retries:

- `NoPhantomSuccess`: `Spec => []OkMeansAccepted`, and `InvokedOnce`:
  `Spec => []KeyedOnce`. Both from `SubmitInv`: what is accepted carries its own
  action's key, and there is one of each keyed action. `KnownKey` shows that a
  key known to FireFly is then that of the very action, and `TakenIsNew` that
  taking a request keeps this.
- `FailureIsLast`: `Spec => []FailedMeansExhausted`, and `NoMessageWithoutBlob`:
  `Spec => []MessageHasItsBlob`. From `RetryInv`, the types (`RunOnceTypeOK`)
  with two facts: only blob tests upload, so a failed upload ends no Ethereum
  action, and such an action fails only at its last try (`FailedLast`).

Of `Ending`, for any number of mints, signals, faults and balances:

- `NoLoadWithoutServer`: `Spec => []ServerDownMeansEnding`. `SignalShared` adds
  the step before: a signal still waiting at the server is, unless it came
  early, one that `Start` holds while it is in its loop.
- `GaugeIsBehind`: `Spec => []GaugeNotAhead`, from the types of the numbers and
  the balances that worker 0 and the check still hold; and from the same
  invariant `PassIsSound`: `Spec => PassMeansArrived`, an action property, since
  the verdict compares the counter it has read with a gauge that is not ahead of
  the chain when it is read later.
- `SuccessIsSound`: `Spec => []SuccessMeansMinted`. `StopInv` carries the number
  counted when the load was over (`sentAtStop`) through the check: the counter
  only grows, so each read is at least that number, a pass means as many on the
  chain, and tokens do not go away on the way through drain and cleanup.
- `EndingTypeCorrect`: `Spec => []EndingTypeOK`, part by part: `Start`,
  the balance check with its chain, and the server each keep their own types.

Only model-checked: liveness, which needs the fairness of actions and with it
ENABLED, both out of the prover's reach: `LoopsFinish`, `EventLoopsProceed`,
`MaxActionsEndTest`, `TestEnds`, `StuckActionEndsTest` (core), `StartDecides`
(`Setup`), `LoopsFinish` and `FailedBatchEnds` (`BatchEvents`), `RunOnceEnds`
(`RunOnce`), `SettledPasses` and `SignalEndsRun` (`Ending`). The refinements are
proved of `Spec`, the safety part; `ClosedLoop` claims no fairness.

## 6. Where code and documentation disagree

Two runs keep a disagreement each; TLC must find the violation.

- `v_exit_error`: "A value of `exit` causes the test to end if an error occurs"
  (src/README.md:126). In exit mode a failed submission ends its worker's
  goroutine, and the dispatch loop goes on without it (999, 527-530).
- `v_measured`: "increment atomically" (1283). Outside the ramp each event is
  counted twice, by `totalSummary++` and by the atomic addition below it, and
  the first is a read and a write that may undo what others counted.

Seen in the model, and not kept as runs:

- "Set to `log` to simply log the error and continue the test"
  (src/README.md:126): in log mode the worker of a failed submission waits for
  an event that cannot come and never submits again (1001, 1034).
- Without `supportsData` and `supportsURI` "the test behaves as if
  `noWaitSubmission` is set to `true`" (src/README.md:144): the worker still
  waits for confirmations that no event brings (1021).
- Private messages are listed as a test case (src/README.md:10), but only
  broadcasts create the subscription for their events (445).
- The sleep at 645 is "to allow for Prometheus metrics to be scraped one final
  time"; after a signal the server has been down since five seconds after it.
- A signal during the setup is seen by the server, which goes down, and not by
  `Start`, which goes on to the load (536).
- `skipMintConfirmations`, deprecated, makes event loops skip the hand-over of
  every event (918), but only mint workers stop waiting (1021): next to mints,
  workers of other test cases wait for ever.
- With the default token type, fungible, the balance query counts one row
  however many mints there were: the check can only pass after one mint, and
  the "difference ... expected to equal the value of `maxActions`"
  (src/README.md:153) is not what it compares.
- The actions of a contract worker share one tracking ID, the worker's number
  (`custom_ethereum_contract.go:109`, `custom_fabric_contract.go:145`): the first
  confirmation takes it out of `msgTimeMap` (1045-1047), and if another of them
  is never confirmed, because its node's connection was lost or its event loop
  ended, nothing is overdue and in exit mode the test goes on, in daemon mode for
  ever, against src/README.md:126. `StuckActionEndsTest` and the second half of
  `TrackingExact` are about the other tests, whose actions have their own IDs.
- A worker whose `runLoop` returned leaves what it had tracked in `msgTimeMap`
  (999, 1039). In exit mode those entries get old and end the test, even if their
  actions were confirmed; actions whose answers the worker no longer read were
  never tracked, so they cannot.
- `detectDelinquentBalance` reads the counter of the mints and then the gauge
  (1248, 1256), while workers mint on: a mint counted between the two reads is
  not in what is compared, so the check passes although the counter is by then
  ahead of the chain. `PassMeansArrived` therefore speaks of the counter as it
  was read, `SuccessMeansMinted` of the counter when the load was over.
- `validateConfig` (`cmd/run.go:280-293`) accepts a test with zero or a negative
  number of workers; the other modules assume at least one.
- A mint whose answer was lost and that was posted again is two tokens and one
  count: the balance check then misses, or passes before the last mint counted
  has arrived. `GaugeNotAhead` and `PassMeansArrived` hold for it all the same.
- The summary has no lower bound: a caller that was descheduled between the
  read and the write of `totalSummary++` sets it back to what it was then.
- `uploadBlob` returns no error when the transport failed (`test_base.go:77`),
  and a retried upload has nothing left to read (73): FireFly's refusal and the
  comparison of the hash, not the client, keep such messages from counting.
- With two workers and MaxActions 1 the count reaches 2; src/README.md:123
  speaks of a maximum. `OvershootBound` says how far it goes.
- A protocol error makes the rate limiter fail on the cancelled context, and
  the dispatch loop panics (564-566); the comment at 756 says "shut down
  gracefully".
- A redelivered event, or the second of two events of a mint with both
  `supportsData` and `supportsURI`, counts as the confirmation of another node
  (1040); the comment at 1032 says "Wait for worker to confirm the message
  before proceeding to next task". `NextTaskAfterConfirm` is therefore checked
  without them.
- A test that ends before its first loop divides by zero in the report
  (`report_builder.go:303`) and skips cleanup.
- Two contract tests in one run ask for a subscription of the same name (1578);
  the second is refused unnoticed.
- With two nodes and the ERC-20 test, every event loop sees every pre-mint's
  event, and the prep stage receives one of them: the others block event loops.
- src/README.md:138 describes `noWaitSubmission` the other way round.
- `manualNodeIndex` beyond the list panics (`cmd/run.go:161`) before the
  validation that would report it (291); `delinquentAction` is not validated
  although src/README.md:96 lists its values; src/README.md:143 says
  `supportsURI` defaults to true for nonfungible tokens, and nothing sets it.

## 7. What is not modelled

Payloads, URLs, headers, logging and metrics beyond the counters named above;
the rates (the limiter only succeeds or fails, and the report's send rate and
throughput are floating-point quotients of times) and all durations: where the
order of two waits is decided by their lengths alone, both orders are possible.
The check for delinquent actions happens after a token was sent and enough time
has passed, or after 60 seconds without room for one (570, 576): in the core each
is a choice, and with the tokens bounded it is the second that goes on for ever.
`downloadAndVerifyBlob`, which nothing calls. The report page, command-line
wiring, the stack file's types, scripts, charts and the contracts under test
carry none of the program's own logic.

In the core a run has at most `MaxDispatch` tokens, in batch mode a worker at
most `MaxLoops` loops. The Go memory model is not modelled beyond `Summary`:
accesses to the tracking map and the action counters are atomic, as `sync.Map`
and the Prometheus counters are; plain reads of `pr.stopping` and of the stage
prefix by other goroutines see the latest write. In `Ending` workers stop
minting when the check is over: what they do later can change the report's
counters, and no verdict.
