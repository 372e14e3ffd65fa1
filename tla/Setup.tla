-------------------------------- MODULE Setup --------------------------------
(***************************************************************************)
(* What Start (internal/perf/perf.go) does around the load: it creates a   *)
(* token pool, event listeners and durable subscriptions on every FireFly  *)
(* node, opens the websockets on which the subscriptions are started by    *)
(* name, waits for the event of the ERC-20 pre-mint (the prep stage), and  *)
(* deletes the subscriptions and listeners again at the end.  The workers  *)
(* of PerfRunner start when this module reaches "run".                     *)
(*                                                                         *)
(* FireFly is external: it keeps subscriptions under a name unique on the  *)
(* node, answers a second creation with an HTTP error, and an HTTP error   *)
(* is no error of the client's Post (resty).                               *)
(***************************************************************************)
EXTENDS Integers, FiniteSets

CONSTANTS
  NumNodes,          \* number of FireFly nodes (cfg.NodeURLs)
  TestSets,          \* the sets of test cases a run may be configured with
  Faults,            \* kinds of fault that may happen
  MaxFaults          \* bound: how many faults, each once, in a behaviour

Nodes == 1 .. NumNodes
ContractTests ==
  {"custom_ethereum_contract", "erc20_transfer", "custom_fabric_contract"}
TestNames == {"msg_broadcast", "msg_private", "blob_broadcast",
              "blob_private", "token_mint"} \cup ContractTests
FaultKinds == {"refused", "lost", "unreachable", "undeleted", "reconnect"}

ASSUME SetupAssumption ==
  /\ NumNodes \in Nat \ {0}
  /\ TestSets \subseteq (SUBSET TestNames) \ {{}}
  /\ Faults \subseteq FaultKinds /\ MaxFaults \in Nat

(* A subscription is known by its node, its name without the run's prefix, *)
(* and the contract test whose listener it reads ("messages" if none).     *)
SubNames == {"mint", "messages", "blob", "contracts"}
Subscriptions == [node : Nodes, name : SubNames,
                  listensTo : {"messages"} \cup ContractTests]
NoSub == [node |-> 0, name |-> "", listensTo |-> "messages"] \* an empty answer
ListenerIDs == [node : Nodes, test : ContractTests, copy : {0, 1}]

(* What a websocket carries here: the event of the pre-mint submitted on   *)
(* node n, and FireFly's complaint about a name it does not know.          *)
Transfer(n) == [kind |-> "transfer", premint |-> n]
ProtocolError == [kind |-> "protocol_error", premint |-> 0]

VARIABLES
  mpc,             \* where Start is
  tests,           \* the test cases of the run
  supportsData,    \* cfg.TokenOptions.SupportsData, true by default
  noWait,          \* cfg.NoWaitSubmission
  existingPool,    \* is cfg.TokenOptions.ExistingPoolName set
  balanceWait,     \* is cfg.TokenOptions.MaxTokenBalanceWait set
  node,            \* the node Start is at
  todo,            \* the steps left for that node
  subscriptions,   \* recorded IDs: subscriptionIDsForNodes, subscriptionMap
  listeners,       \* recorded IDs: listenerIDsForNodes
  remoteSubs,      \* the subscriptions FireFly has
  remoteListeners, \* the listeners FireFly has
  premints,        \* nodes whose pre-mint is not yet on the chain
  mined,           \* nodes whose pre-mint is on the chain
  stage,           \* eventPrefixForCurrentStage
  started,         \* names started on the websocket of each node
  epc,             \* where the event loop of each node is
  inbox,           \* what FireFly will send on that websocket
  ctxDone,         \* has pr.ctx been cancelled
  faults           \* the kinds of fault so far

configVars == <<tests, supportsData, noWait, existingPool, balanceWait>>
ownVars    == <<subscriptions, listeners>>
remoteVars == <<remoteSubs, remoteListeners>>
chainVars  == <<premints, mined>>
wsVars     == <<started, epc, inbox, ctxDone>>
vars == <<mpc, configVars, node, todo, ownVars, remoteVars, chainVars, stage,
          wsVars, faults>>
-----------------------------------------------------------------------------
(* The steps of the loop over the nodes, in the order of the code.         *)
NodeSteps ==
  <<"mint_sub", "mint_msg_sub", "mint_balance", "ethereum_listener",
    "ethereum_sub", "erc20_listener", "erc20_sub", "premint",
    "fabric_listener", "fabric_sub", "broadcast_sub", "blob_sub">>

StepTest ==
  [mint_sub |-> "token_mint", mint_msg_sub |-> "token_mint",
   mint_balance |-> "token_mint",
   ethereum_listener |-> "custom_ethereum_contract",
   ethereum_sub |-> "custom_ethereum_contract",
   erc20_listener |-> "erc20_transfer", erc20_sub |-> "erc20_transfer",
   premint |-> "erc20_transfer",
   fabric_listener |-> "custom_fabric_contract",
   fabric_sub |-> "custom_fabric_contract",
   broadcast_sub |-> "msg_broadcast", blob_sub |-> "blob_broadcast"]

SubName ==
  [mint_sub |-> "mint", mint_msg_sub |-> "messages",
   ethereum_sub |-> "contracts", erc20_sub |-> "contracts",
   fabric_sub |-> "contracts", broadcast_sub |-> "messages",
   blob_sub |-> "blob"]

Listeners == {"ethereum_listener", "erc20_listener", "fabric_listener"}

containsTargetTest(t) == t \in tests

WithoutData(s) ==                                                \* mutant
  /\ containsTargetTest(StepTest[s])
  /\ s = "mint_msg_sub" => ~supportsData
  /\ s = "mint_balance" => balanceWait

Needed(s) ==
  /\ containsTargetTest(StepTest[s])
  /\ s = "mint_msg_sub" => supportsData
  /\ s = "mint_balance" => balanceWait

StepsOfNode == {s \in DOMAIN StepTest : Needed(s)}

PastLast == node > NumNodes                                      \* mutant

LastNode == node = NumNodes

Inject(kind) == /\ kind \in Faults \ faults /\ Cardinality(faults) < MaxFaults
                /\ faults' = faults \cup {kind}

(* Start returns an error: nothing is cleaned up and the process ends.     *)
Fails == mpc' = "failed"

Init ==
  /\ mpc = "pool" /\ tests \in TestSets
  /\ supportsData \in BOOLEAN /\ existingPool \in BOOLEAN
  /\ balanceWait \in BOOLEAN /\ noWait \in BOOLEAN
  /\ "token_mint" \notin tests =>
       supportsData /\ ~existingPool /\ ~balanceWait
  /\ "erc20_transfer" \notin tests => ~noWait    \* read in the prep stage only
  /\ node = 1 /\ todo = {}
  /\ subscriptions = [n \in Nodes |-> {}] /\ listeners = [n \in Nodes |-> {}]
  /\ remoteSubs = {} /\ remoteListeners = {}
  /\ premints = {} /\ mined = {} /\ stage = "worker"
  /\ started = [n \in Nodes |-> {}] /\ epc = [n \in Nodes |-> "off"]
  /\ inbox = [n \in Nodes |-> {}] /\ ctxDone = FALSE /\ faults = {}
-----------------------------------------------------------------------------
(* Start up to the websockets: one action per call to FireFly.             *)

(* CreateTokenPool: an HTTP error is an error here.                        *)
CreatePool ==
  /\ mpc = "pool"
  /\ \/ /\ mpc' = "setup" /\ todo' = StepsOfNode /\ UNCHANGED faults
     \/ /\ containsTargetTest("token_mint") /\ ~existingPool
        /\ Inject("unreachable") \/ Inject("refused")
        /\ Fails /\ UNCHANGED todo
  /\ UNCHANGED <<configVars, node, ownVars, remoteVars, chainVars, stage,
                 wsVars>>

Place(s) == CHOOSE i \in DOMAIN NodeSteps : NodeSteps[i] = s

AtStep(s) == /\ mpc = "setup" /\ s \in todo
             /\ \A r \in todo : Place(s) <= Place(r)

Proceed(s) == mpc' = mpc /\ todo' = todo \ {s}

(* createMsgConfirmSub, createTokenMintSub and createContractsSub record   *)
(* whatever the answer holds: nothing, if it was an HTTP error.            *)
NameTaken(sub) ==
  \E r \in remoteSubs : r.node = sub.node /\ r.name = sub.name

Record(sub) == subscriptions' = [subscriptions EXCEPT ![node] = @ \cup {sub}]
RecordByName(sub) ==                                             \* mutant
  subscriptions' = [n \in Nodes |->
    {s \in subscriptions[n] : s.name # sub.name}
      \cup (IF n = node THEN {sub} ELSE {})]

RecordSub(sub) == Record(sub)

CreateSub(s) ==
  LET sub == [node |-> node, name |-> SubName[s],
              listensTo |-> IF StepTest[s] \in ContractTests
                            THEN StepTest[s] ELSE "messages"]
      create == remoteSubs' = remoteSubs \cup {sub}
  IN
  /\ AtStep(s) /\ s \in DOMAIN SubName
  /\ \/ /\ NameTaken(sub) /\ RecordSub(NoSub)              \* 409
        /\ Proceed(s) /\ UNCHANGED <<remoteSubs, faults>>
     \/ /\ ~NameTaken(sub) /\ create /\ RecordSub(sub)
        /\ Proceed(s) /\ UNCHANGED faults
     \/ /\ ~NameTaken(sub) /\ Inject("refused") /\ RecordSub(NoSub)
        /\ Proceed(s) /\ UNCHANGED remoteSubs
     \/ /\ ~NameTaken(sub) /\ Inject("lost") /\ create     \* a retry: 409
        /\ RecordSub(NoSub) /\ Proceed(s)
     \/ /\ Inject("unreachable") /\ Fails
        /\ UNCHANGED <<subscriptions, remoteSubs, todo>>
  /\ UNCHANGED <<configVars, node, listeners, remoteListeners, chainVars,
                 stage, wsVars>>

(* create...ContractListener: an HTTP error is an error.  When the answer  *)
(* gets lost the retry is refused, or makes a second listener.             *)
CreateListener(s) ==
  LET listener(c) == [node |-> node, test |-> StepTest[s], copy |-> c] IN
  /\ AtStep(s) /\ s \in Listeners
  /\ stage' = IF s = "erc20_listener" THEN "prep" ELSE stage
  /\ \/ \E c \in {0, 1} :
          /\ IF c = 0 THEN UNCHANGED faults ELSE Inject("lost")
          /\ remoteListeners' =
               remoteListeners \cup {listener(x) : x \in 0 .. c}
          /\ listeners' = [listeners EXCEPT ![node] = @ \cup {listener(c)}]
          /\ Proceed(s)
     \/ /\ Inject("lost") /\ Fails
        /\ remoteListeners' = remoteListeners \cup {listener(0)}
        /\ UNCHANGED <<listeners, todo>>
     \/ /\ Inject("refused") \/ Inject("unreachable")
        /\ Fails /\ UNCHANGED <<listeners, remoteListeners, todo>>
  /\ UNCHANGED <<configVars, node, subscriptions, remoteSubs, chainVars,
                 wsVars>>

(* premintERC20Tokens and getMintRecipientBalance.  A lost answer of the   *)
(* former leads to a 409 for its idempotency key.                          *)
Premint ==
  /\ AtStep("premint")
  /\ \/ /\ premints' = premints \cup {node} /\ UNCHANGED faults
        /\ Proceed("premint")
     \/ /\ Inject("lost") /\ Fails
        /\ premints' = premints \cup {node} /\ UNCHANGED todo
     \/ /\ Inject("refused") \/ Inject("unreachable")
        /\ Fails /\ UNCHANGED <<premints, todo>>
  /\ UNCHANGED <<configVars, node, ownVars, remoteVars, mined, stage, wsVars>>

QueryBalance ==
  /\ AtStep("mint_balance")
  /\ \/ Proceed("mint_balance") /\ UNCHANGED faults
     \/ /\ Inject("refused") \/ Inject("unreachable")
        /\ Fails /\ UNCHANGED todo
  /\ UNCHANGED <<configVars, node, ownVars, remoteVars, chainVars, stage,
                 wsVars>>

NextNode ==
  /\ mpc = "setup" /\ todo = {}
  /\ IF LastNode
     THEN node' = 1 /\ mpc' = "open" /\ UNCHANGED todo
     ELSE node' = node + 1 /\ todo' = StepsOfNode /\ UNCHANGED mpc
  /\ UNCHANGED <<configVars, ownVars, remoteVars, chainVars, stage, wsVars,
                 faults>>
-----------------------------------------------------------------------------
(* The websockets and the prep stage.                                      *)

subscriptionMap == UNION {subscriptions[n] : n \in Nodes}

NotContracts ==                                                  \* mutant
  {s.name : s \in subscriptionMap \ {NoSub}} \ {"contracts"}

(* startSubscriptions: every name in the map, on every websocket.  An      *)
(* entry without a name starts nothing.                                    *)
StartNames == {s.name : s \in subscriptionMap \ {NoSub}}

(* FireFly starts the names it knows on this node, and answers any other   *)
(* with a protocol error.                                                  *)
startSubscriptions(n) ==
  LET known == {s.name : s \in {r \in remoteSubs : r.node = n}} IN
  /\ started' = [started EXCEPT ![n] = StartNames \cap known]
  /\ inbox' = IF StartNames \subseteq known THEN inbox
              ELSE [inbox EXCEPT ![n] = @ \cup {ProtocolError}]

OpenWebsocket ==
  /\ mpc = "open"
  /\ \/ /\ startSubscriptions(node)
        /\ epc' = [epc EXCEPT ![node] = "receive"]
        /\ IF LastNode
           THEN /\ mpc' = IF containsTargetTest("erc20_transfer")
                          THEN "prep" ELSE "run"
                /\ UNCHANGED node
           ELSE node' = node + 1 /\ UNCHANGED mpc
        /\ UNCHANGED faults
     \/ /\ Inject("unreachable") /\ Fails
        /\ UNCHANGED <<node, started, inbox, epc>>
  /\ UNCHANGED <<configVars, todo, ownVars, remoteVars, chainVars, stage,
                 ctxDone>>

(* The pre-mint is mined: every ERC-20 listener there is sees a Transfer.  *)
Mine(n) ==
  /\ n \in premints
  /\ premints' = premints \ {n} /\ mined' = mined \cup {n}
  /\ inbox' = [m \in Nodes |->
       IF \E s \in remoteSubs : s.node = m /\ s.listensTo = "erc20_transfer"
       THEN inbox[m] \cup {Transfer(n)} ELSE inbox[m]]
  /\ UNCHANGED <<mpc, configVars, node, todo, ownVars, remoteVars, stage,
                 started, epc, ctxDone, faults>>

(* The event loop gets the event of a pre-mint.  It sends the amount on    *)
(* the channel of the prep stage, or, once that is over, on one that does  *)
(* not exist, which blocks for ever.                                       *)
ReceiveTransfer(n) ==
  /\ epc[n] = "receive" /\ "contracts" \in started[n]
  /\ \E m \in Nodes :
       /\ Transfer(m) \in inbox[n]
       /\ inbox' = [inbox EXCEPT ![n] = @ \ {Transfer(m)}]
  /\ epc' = [epc EXCEPT ![n] = IF stage = "prep" THEN "send"
                               ELSE IF noWait THEN "receive"
                               ELSE "stuck"]
  /\ UNCHANGED <<mpc, configVars, node, todo, ownVars, remoteVars, chainVars,
                 stage, started, ctxDone, faults>>

(* filterEvent cancels the context, and then the event loops end.          *)
ReceiveProtocolError(n) ==
  /\ epc[n] = "receive" /\ ProtocolError \in inbox[n]
  /\ inbox' = [inbox EXCEPT ![n] = @ \ {ProtocolError}]
  /\ ctxDone' = TRUE
  /\ UNCHANGED <<mpc, configVars, node, todo, ownVars, remoteVars, chainVars,
                 stage, started, epc, faults>>

CloseLoop(n) ==
  /\ epc[n] = "receive" /\ ctxDone
  /\ epc' = [epc EXCEPT ![n] = "closed"]
  /\ UNCHANGED <<mpc, configVars, node, todo, ownVars, remoteVars, chainVars,
                 stage, started, inbox, ctxDone, faults>>

(* The websocket client connects again and calls startSubscriptions.       *)
Reconnect(n) ==
  /\ epc[n] # "off" /\ ~ctxDone /\ Inject("reconnect")
  /\ startSubscriptions(n)
  /\ UNCHANGED <<mpc, configVars, node, todo, ownVars, remoteVars, chainVars,
                 stage, epc, ctxDone>>

(* Start waits for one event of a pre-mint, and for nothing else.          *)
DoNotWait ==                                                     \* mutant
  /\ mpc = "prep" /\ mpc' = "prepared" /\ UNCHANGED epc
  /\ UNCHANGED <<configVars, node, todo, ownVars, remoteVars, chainVars,
                 stage, started, inbox, ctxDone, faults>>

AwaitPrep ==
  /\ mpc = "prep" /\ mpc' = "prepared"
  /\ \E n \in Nodes : epc[n] = "send" /\ epc' = [epc EXCEPT ![n] = "receive"]
  /\ UNCHANGED <<configVars, node, todo, ownVars, remoteVars, chainVars,
                 stage, started, inbox, ctxDone, faults>>

EndPrep ==
  /\ mpc = "prepared" /\ mpc' = "run" /\ stage' = "worker"
  /\ UNCHANGED <<configVars, node, todo, ownVars, remoteVars, chainVars,
                 wsVars, faults>>
-----------------------------------------------------------------------------
(* The end of the test: PerfRunner's main goroutine reaches cleanup.       *)

EndTest ==
  /\ mpc = "run" /\ mpc' = "cleanup" /\ node' = 1
  /\ UNCHANGED <<configVars, todo, ownVars, remoteVars, chainVars, stage,
                 wsVars, faults>>

SubsOnly(n) == subscriptions[n]                                  \* mutant

Deletable(n) == subscriptions[n] \cup listeners[n]

(* One turn of cleanup's outer loop.  A DELETE that fails is only logged.  *)
CleanNode ==
  /\ mpc = "cleanup"
  /\ \E kept \in SUBSET Deletable(node) :
       LET deleted == Deletable(node) \ kept IN
       /\ IF kept = {} THEN UNCHANGED faults ELSE Inject("undeleted")
       /\ remoteSubs' = remoteSubs \ deleted
       /\ remoteListeners' = remoteListeners \ deleted
  /\ IF LastNode THEN mpc' = "done" /\ UNCHANGED node
                 ELSE node' = node + 1 /\ UNCHANGED mpc
  /\ UNCHANGED <<configVars, todo, ownVars, chainVars, stage, wsVars>>
-----------------------------------------------------------------------------
StartStep ==
  \/ CreatePool \/ Premint \/ QueryBalance \/ NextNode
  \/ \E s \in DOMAIN SubName : CreateSub(s)
  \/ \E s \in Listeners : CreateListener(s)
  \/ OpenWebsocket \/ AwaitPrep \/ EndPrep \/ CleanNode

EventStep(n) == ReceiveTransfer(n) \/ ReceiveProtocolError(n) \/ CloseLoop(n)

Alive == mpc \notin {"failed", "done"}

Ended == ~Alive /\ UNCHANGED vars

Next ==
  \/ /\ Alive
     /\ \/ StartStep \/ EndTest
        \/ \E n \in Nodes : Mine(n) \/ EventStep(n) \/ Reconnect(n)
  \/ Ended

Spec == Init /\ [][Next]_vars

(* Start and the event loops run on, and the chain makes blocks.  How long *)
(* the test lasts is not assumed.                                          *)
FairSpec ==
  /\ Spec
  /\ WF_vars(Alive /\ StartStep)
  /\ \A n \in Nodes : WF_vars(Alive /\ EventStep(n)) /\ WF_vars(Alive /\ Mine(n))
-----------------------------------------------------------------------------
(* Properties.                                                             *)

(* Types of what Start has recorded and of what FireFly has.               *)
SetupTypeOK ==
  /\ mpc \in {"pool", "setup", "open", "prep", "prepared", "run", "cleanup",
              "done", "failed"}
  /\ tests \in TestSets /\ node \in Nodes
  /\ \A n \in Nodes :
       /\ subscriptions[n] \subseteq Subscriptions \cup {NoSub}
       /\ listeners[n] \subseteq ListenerIDs
       /\ started[n] \subseteq SubNames
       /\ epc[n] \in {"off", "receive", "send", "stuck", "closed"}
       /\ inbox[n] \subseteq {ProtocolError} \cup {Transfer(m) : m \in Nodes}
  /\ remoteSubs \subseteq Subscriptions
  /\ remoteListeners \subseteq ListenerIDs
  /\ premints \subseteq Nodes /\ mined \subseteq Nodes
  /\ stage \in {"worker", "prep"} /\ ctxDone \in BOOLEAN
  /\ faults \subseteq Faults

(* The subscriptions that bring the worker numbers of test t.  A token     *)
(* mint needs two: with data the worker's number is in the message that    *)
(* comes with the mint, and in the transfer only if the token has a URI.   *)
Sources(t) ==
  CASE t \in {"msg_broadcast", "msg_private"}   -> {"messages"}
    [] t \in {"blob_broadcast", "blob_private"} -> {"blob"}
    [] t = "token_mint" -> {"mint"} \cup {m \in {"messages"} : supportsData}
    [] OTHER            -> {"contracts"}

(* A contract subscription is for one test: that whose listener it reads.  *)
Serves(s, t) == t \in ContractTests => s.listensTo = t

(* Sets of test cases that each have a subscription of their own: at most  *)
(* one contract test, and private messages only next to the broadcasts     *)
(* whose subscription they use.                                            *)
OwnSubscriptions(T) ==
  /\ Cardinality(T \cap ContractTests) <= 1
  /\ "msg_private" \in T => "msg_broadcast" \in T
  /\ "blob_private" \in T => "blob_broadcast" \in T

(* When the workers start, every node has started every subscription that  *)
(* brings events of a test case, those of a mint and of its data: without  *)
(* one its workers wait for ever (Start, startSubscriptions, and again     *)
(* after a reconnect).                                                     *)
TestsHaveEvents ==
  mpc = "run" /\ OwnSubscriptions(tests) /\ faults \cap {"refused", "lost"} = {} =>
    \A t \in tests, n \in Nodes : \A name \in Sources(t) :
      /\ name \in started[n]
      /\ \E s \in remoteSubs : s.node = n /\ s.name = name /\ Serves(s, t)

(* Every message subscription whose events arrive is in subscriptionMap:   *)
(* filterEvent ends the event loop on any other.                           *)
StartedAreKnown ==
  "lost" \notin faults =>
    \A s \in remoteSubs :
      s.name \in started[s.node] => s \in subscriptionMap

(* A run that gets to its end leaves no subscription and no listener       *)
(* behind on any node (cleanup).                                           *)
NothingLeftBehind ==
  mpc = "done" /\ faults \cap {"lost", "undeleted"} = {} =>
    remoteSubs = {} /\ remoteListeners = {}

(* No worker transfers tokens before a pre-mint is on the chain.           *)
MintedBeforeWorkers ==
  mpc \in {"run", "cleanup"} /\ "erc20_transfer" \in tests => mined # {}

(* Start gets to the workers or returns an error, unless the creation of a *)
(* subscription it waits on was refused or its answer lost.                *)
StartDecides ==
  (mpc = "pool" /\ OwnSubscriptions(tests))
    ~> (mpc \in {"run", "failed"} \/ faults \cap {"refused", "lost"} # {})
=============================================================================
