----------------------------- MODULE SetupProofs -----------------------------
(***************************************************************************)
(* What Setup promises, for every number of nodes, every configuration and *)
(* every fault it allows.                                                  *)
(*                                                                         *)
(* FireFly's subscriptions are recorded for their node (RecordedInv),      *)
(* cleanup goes over the nodes in order (CleanedInv), no event of a pre-   *)
(* mint comes before its block (MintedInv).                                *)
(*                                                                         *)
(* That every test is heard rests on how far the creation of the           *)
(* subscriptions has got (CreatedInv), on what they can be (OnlyNeeded: a  *)
(* name that is taken is taken by the very subscription that is wanted),   *)
(* and on which websockets have been opened since (StartedInv).            *)
(***************************************************************************)
EXTENDS Setup, FiniteSetTheorems, TLAPS

(* The listener a step's subscription reads.                               *)
Listens(s) == IF StepTest[s] \in ContractTests THEN StepTest[s] ELSE "messages"

SubSteps == DOMAIN SubName

(* The tables of the steps, spelled out.                                   *)
LEMMA StepTable ==
  /\ SubSteps = {"mint_sub", "mint_msg_sub", "ethereum_sub", "erc20_sub",
                 "fabric_sub", "broadcast_sub", "blob_sub"}
  /\ SubName["mint_sub"] = "mint" /\ SubName["mint_msg_sub"] = "messages"
  /\ SubName["ethereum_sub"] = "contracts" /\ SubName["erc20_sub"] = "contracts"
  /\ SubName["fabric_sub"] = "contracts"
  /\ SubName["broadcast_sub"] = "messages" /\ SubName["blob_sub"] = "blob"
BY DEF SubSteps, SubName

LEMMA TestTable ==
  /\ SubSteps \subseteq DOMAIN StepTest /\ Listeners \subseteq DOMAIN StepTest
  /\ StepTest["mint_sub"] = "token_mint"
  /\ StepTest["mint_msg_sub"] = "token_mint"
  /\ StepTest["ethereum_sub"] = "custom_ethereum_contract"
  /\ StepTest["erc20_sub"] = "erc20_transfer"
  /\ StepTest["fabric_sub"] = "custom_fabric_contract"
  /\ StepTest["broadcast_sub"] = "msg_broadcast"
  /\ StepTest["blob_sub"] = "blob_broadcast"
  /\ \A s \in Listeners : StepTest[s] \in ContractTests
<1>1. DOMAIN StepTest = {"mint_sub", "mint_msg_sub", "mint_balance",
        "ethereum_listener", "ethereum_sub", "erc20_listener", "erc20_sub",
        "premint", "fabric_listener", "fabric_sub", "broadcast_sub",
        "blob_sub"}
  BY DEF StepTest
<1> QED
  BY <1>1, StepTable DEF StepTest, Listeners, ContractTests

(* Contract subscriptions, and only they, read a listener of their test.   *)
LEMMA SubForms ==
  \A s \in SubSteps :
    /\ SubName[s] \in SubNames
    /\ SubName[s] = "contracts" <=> StepTest[s] \in ContractTests
    /\ Listens(s) \in {"messages"} \cup ContractTests
    /\ SubName[s] = "contracts" => Listens(s) = StepTest[s]
    /\ SubName[s] # "contracts" => Listens(s) = "messages"
BY StepTable, TestTable DEF SubNames, ContractTests, Listens

(* The subscriptions the tests of the run need.                            *)
NeededSubs == {s \in SubSteps : Needed(s)}

(* Types, with the steps that are left.                                    *)
TypeInv ==
  /\ SetupTypeOK /\ todo \subseteq {s \in DOMAIN StepTest : Needed(s)}
  /\ DOMAIN subscriptions = Nodes /\ DOMAIN listeners = Nodes
  /\ DOMAIN started = Nodes /\ DOMAIN epc = Nodes /\ DOMAIN inbox = Nodes

(* What FireFly has is recorded for its node, unless an answer was lost.   *)
RecordedInv ==
  "lost" \notin faults =>
    /\ \A s \in remoteSubs : s \in subscriptions[s.node]
    /\ \A l \in remoteListeners : l \in listeners[l.node]

(* cleanup leaves nothing on the nodes it has done.                        *)
CleanedInv ==
  faults \cap {"lost", "undeleted"} = {} =>
    /\ mpc = "cleanup" => \A r \in remoteSubs \cup remoteListeners :
         r.node >= node
    /\ mpc = "done" => remoteSubs \cup remoteListeners = {}

(* No event of a pre-mint comes before the pre-mint is mined.              *)
MintedInv ==
  /\ \A n \in Nodes :
       /\ \A m \in Nodes : Transfer(m) \in inbox[n] => m \in mined
       /\ epc[n] = "send" => mined # {}
  /\ mpc \in {"prepared", "run", "cleanup"} /\ "erc20_transfer" \in tests =>
       mined # {}

(* FireFly's subscriptions are those the configured tests need.            *)
IsSubOf(r, n, s) ==
  r.node = n /\ r.name = SubName[s] /\ r.listensTo = Listens(s)

HasSub(n, s) == \E r \in remoteSubs : IsSubOf(r, n, s)
HasSubs(n) == \A s \in NeededSubs : HasSub(n, s)

OnlyNeeded ==
  \A r \in remoteSubs : \E s \in NeededSubs : IsSubOf(r, r.node, s)

(* How far the creation of the subscriptions has got.                      *)
CreatedInv ==
  /\ mpc = "pool" => node = 1
  /\ mpc = "setup" =>
       /\ \A n \in Nodes : n < node => HasSubs(n)
       /\ \A s \in NeededSubs : s \in todo \/ HasSub(node, s)
  /\ mpc \in {"open", "prep", "prepared", "run"} => \A n \in Nodes : HasSubs(n)

(* Which websockets are open, and what is started on them.                 *)
StartedInv ==
  /\ mpc \in {"pool", "setup"} => \A n \in Nodes : epc[n] = "off"
  /\ mpc = "open" => \A n \in Nodes : n < node => epc[n] # "off"
  /\ mpc \in {"prep", "prepared", "run"} => \A n \in Nodes : epc[n] # "off"
  /\ mpc \in {"open", "prep", "prepared", "run"} =>
       \A n \in Nodes : epc[n] # "off" =>
         \A s \in NeededSubs : SubName[s] \in started[n]

SubsInv ==
  OwnSubscriptions(tests) /\ faults \cap {"refused", "lost"} = {} =>
    CreatedInv /\ StartedInv
-----------------------------------------------------------------------------
(* Types.                                                                  *)
MainOK ==
  /\ mpc \in {"pool", "setup", "open", "prep", "prepared", "run", "cleanup",
              "done", "failed"}
  /\ tests \in TestSets /\ node \in Nodes
  /\ todo \subseteq {s \in DOMAIN StepTest : Needed(s)}
  /\ stage \in {"worker", "prep"} /\ faults \subseteq Faults

OwnOK ==
  /\ DOMAIN subscriptions = Nodes /\ DOMAIN listeners = Nodes
  /\ \A n \in Nodes : /\ subscriptions[n] \subseteq Subscriptions \cup {NoSub}
                      /\ listeners[n] \subseteq ListenerIDs

RemoteOK ==
  remoteSubs \subseteq Subscriptions /\ remoteListeners \subseteq ListenerIDs

ChainOK == premints \subseteq Nodes /\ mined \subseteq Nodes

Messages == {ProtocolError} \cup {Transfer(m) : m \in Nodes}

WsOK ==
  /\ ctxDone \in BOOLEAN
  /\ DOMAIN started = Nodes /\ DOMAIN epc = Nodes /\ DOMAIN inbox = Nodes
  /\ \A n \in Nodes :
       /\ started[n] \subseteq SubNames /\ inbox[n] \subseteq Messages
       /\ epc[n] \in {"off", "receive", "send", "stuck", "closed"}

LEMMA TypeParts == TypeInv <=> MainOK /\ OwnOK /\ RemoteOK /\ ChainOK /\ WsOK
BY Zenon DEF TypeInv, SetupTypeOK, MainOK, OwnOK, RemoteOK, ChainOK, WsOK,
   Messages

(* The same of the next state.                                             *)
LEMMA TypePartsNext ==
  TypeInv' <=> MainOK' /\ OwnOK' /\ RemoteOK' /\ ChainOK' /\ WsOK'
<1>1. (TypeInv <=> MainOK /\ OwnOK /\ RemoteOK /\ ChainOK /\ WsOK)'
  BY TypeParts, PTL
<1> QED
  BY <1>1

(* No step changes the configuration or forgets a fault.                   *)
LEMMA ConfigKept ==
  ASSUME [Next]_vars
  PROVE  /\ UNCHANGED configVars /\ faults \subseteq faults'
         /\ \A s : Needed(s)' <=> Needed(s)
<1>1. UNCHANGED configVars
  BY DEF Next, StartStep, CreatePool, Premint, QueryBalance, NextNode,
     CreateSub, CreateListener, OpenWebsocket, AwaitPrep, EndPrep, CleanNode,
     EndTest, Mine, EventStep, ReceiveTransfer, ReceiveProtocolError,
     CloseLoop, Reconnect, Ended, vars
<1>2. faults \subseteq faults'
  BY DEF Next, StartStep, CreatePool, Premint, QueryBalance, NextNode,
     CreateSub, CreateListener, OpenWebsocket, AwaitPrep, EndPrep, CleanNode,
     EndTest, Mine, EventStep, ReceiveTransfer, ReceiveProtocolError,
     CloseLoop, Reconnect, Ended, vars, wsVars, Inject
<1> QED
  BY <1>1, <1>2 DEF configVars, Needed, containsTargetTest

(* Nodes are numbered from 1.                                              *)
LEMMA NodesAre ==
  /\ NumNodes \in Nat /\ 1 \in Nodes
  /\ \A n \in Nodes : n \in Int /\ 1 <= n /\ n <= NumNodes
                     /\ (n # NumNodes => n + 1 \in Nodes)
BY SetupAssumption DEF Nodes

(* The first state has the types.                                          *)
LEMMA InitType == Init => TypeInv
<1> SUFFICES ASSUME Init PROVE TypeInv
  OBVIOUS
<1>1. MainOK /\ OwnOK /\ RemoteOK /\ ChainOK
  BY NodesAre DEF Init, MainOK, OwnOK, RemoteOK, ChainOK
<1>2. WsOK
  BY DEF Init, WsOK
<1> QED
  BY <1>1, <1>2, TypeParts

(* The subscription a step asks for.                                       *)
NewSub(s) == [node |-> node, name |-> SubName[s],
              listensTo |-> IF StepTest[s] \in ContractTests
                            THEN StepTest[s] ELSE "messages"]

LEMMA NewSubIs ==
  ASSUME TypeInv, NEW s \in SubSteps
  PROVE  NewSub(s) \in Subscriptions /\ IsSubOf(NewSub(s), node, s)
<1>1. node \in Nodes /\ SubName[s] \in SubNames
      /\ Listens(s) \in {"messages"} \cup ContractTests
  BY TypeParts, SubForms DEF MainOK
<1> QED
  BY <1>1 DEF NewSub, Subscriptions, IsSubOf, Listens

(* The listener a step asks for.                                           *)
LEMMA NewListenerIs ==
  ASSUME TypeInv, NEW s \in Listeners, NEW c \in {0, 1}
  PROVE  [node |-> node, test |-> StepTest[s], copy |-> c] \in ListenerIDs
BY TypeParts, TestTable DEF MainOK, ListenerIDs

(* What the creation of a subscription may do.                             *)
LEMMA CreateSubDoes ==
  ASSUME TypeInv, NEW s, CreateSub(s)
  PROVE  /\ s \in SubSteps /\ s \in todo /\ mpc = "setup"
         /\ UNCHANGED <<configVars, node, listeners, remoteListeners,
                       chainVars, stage, wsVars>>
         /\ \/ remoteSubs' = remoteSubs
            \/ remoteSubs' = remoteSubs \cup {NewSub(s)}
         /\ subscriptions' = subscriptions
             \/ \E r \in {NoSub, NewSub(s)} :
                  subscriptions' = [subscriptions EXCEPT ![node] = @ \cup {r}]
         /\ remoteSubs' = remoteSubs \cup {NewSub(s)}
               => \/ remoteSubs' = remoteSubs \/ "lost" \in faults'
                  \/ subscriptions' =
                       [subscriptions EXCEPT ![node] = @ \cup {NewSub(s)}]
         /\ faults' \subseteq Faults
         /\ \/ mpc' = mpc /\ todo' = todo \ {s}
            \/ mpc' = "failed" /\ todo' = todo
         /\ mpc' = mpc /\ faults \cap {"refused", "lost"} = {}
              /\ faults' \cap {"refused", "lost"} = {}
              => NameTaken(NewSub(s)) \/ NewSub(s) \in remoteSubs'
<1>1. TypeInv => faults \subseteq Faults
  BY TypeParts DEF MainOK
<1>2. NewSub(s) = [node |-> node, name |-> SubName[s],
                   listensTo |-> IF StepTest[s] \in ContractTests
                                 THEN StepTest[s] ELSE "messages"]
  BY DEF NewSub
<1> QED
  BY <1>1, <1>2 DEF CreateSub, AtStep, Proceed, Fails, Inject, RecordSub,
     Record, SubSteps
(* What startSubscriptions does to a websocket.                            *)
LEMMA StartSubs ==
  ASSUME TypeInv, NEW n \in Nodes, startSubscriptions(n)
  PROVE  /\ DOMAIN started' = Nodes /\ DOMAIN inbox' = Nodes
         /\ started'[n] \subseteq SubNames
         /\ \A x : x \in started'[n] <=>
              x \in StartNames
               /\ \E r \in remoteSubs : r.node = n /\ r.name = x
         /\ \A m \in Nodes : m # n => started'[m] = started[m]
         /\ \A m \in Nodes :
              /\ inbox[m] \subseteq inbox'[m]
              /\ inbox'[m] \subseteq inbox[m] \cup {ProtocolError}
<1> DEFINE known == {r.name : r \in {q \in remoteSubs : q.node = n}}
<1>1. DOMAIN started = Nodes /\ DOMAIN inbox = Nodes
  BY TypeParts DEF WsOK
<1>2. started' = [started EXCEPT ![n] = StartNames \cap known]
  BY DEF startSubscriptions
<1>3. inbox' = inbox \/ inbox' = [inbox EXCEPT ![n] = @ \cup {ProtocolError}]
  BY DEF startSubscriptions
<1>4. known \subseteq SubNames
  BY TypeParts DEF RemoteOK, Subscriptions
<1>5. started'[n] = StartNames \cap known
  BY <1>1, <1>2
<1>6. \A x : x \in known <=> \E r \in remoteSubs : r.node = n /\ r.name = x
  OBVIOUS
<1> HIDE DEF known
<1> QED
  BY <1>1, <1>2, <1>3, <1>4, <1>5, <1>6

(* Every step keeps the types.                                             *)
LEMMA NextType == TypeInv /\ [Next]_vars => TypeInv'
<1> SUFFICES ASSUME TypeInv, [Next]_vars PROVE TypeInv'
  OBVIOUS
<1>0. MainOK /\ OwnOK /\ RemoteOK /\ ChainOK /\ WsOK
  BY TypeParts
<1>a. UNCHANGED configVars /\ \A s : Needed(s)' <=> Needed(s)
  BY ConfigKept
<1>b. UNCHANGED <<mpc, node, todo, stage, faults>> => MainOK'
  BY <1>0, <1>a DEF MainOK, configVars
<1>c. UNCHANGED ownVars => OwnOK'
  BY <1>0 DEF OwnOK, ownVars
<1>d. UNCHANGED remoteVars => RemoteOK'
  BY <1>0 DEF RemoteOK, remoteVars
<1>e. UNCHANGED chainVars => ChainOK'
  BY <1>0 DEF ChainOK, chainVars
<1>f. UNCHANGED wsVars => WsOK'
  BY <1>0 DEF WsOK, wsVars
<1>1. ASSUME CreatePool \/ QueryBalance \/ NextNode \/ EndPrep \/ EndTest
      PROVE  TypeInv'
  <2>1. UNCHANGED <<ownVars, remoteVars, chainVars, wsVars, tests>>
    BY <1>1 DEF CreatePool, QueryBalance, NextNode, EndPrep, EndTest,
       configVars
  <2>2. /\ mpc' \in {"pool", "setup", "open", "prep", "prepared", "run",
                     "cleanup", "done", "failed"}
        /\ stage' \in {"worker", "prep"}
    BY <1>0, <1>1 DEF CreatePool, QueryBalance, NextNode, EndPrep, EndTest,
       Proceed, Fails, MainOK
  <2>3. node' \in Nodes
    BY <1>0, <1>1, NodesAre DEF CreatePool, QueryBalance, NextNode, EndPrep,
       EndTest, MainOK, LastNode
  <2>4. todo' \subseteq {s \in DOMAIN StepTest : Needed(s)}
    BY <1>0, <1>1 DEF CreatePool, QueryBalance, NextNode, EndPrep, EndTest,
       Proceed, MainOK, StepsOfNode
  <2>5. faults' \subseteq Faults
    BY <1>0, <1>1 DEF CreatePool, QueryBalance, NextNode, EndPrep, EndTest,
       Inject, MainOK
  <2>6. MainOK'
    BY <1>0, <1>a, <2>1, <2>2, <2>3, <2>4, <2>5 DEF MainOK
  <2> QED
    BY <1>c, <1>d, <1>e, <1>f, <2>1, <2>6, TypePartsNext
<1>2. CASE Premint
  <2>1. MainOK'
    BY <1>0, <1>2, <1>a DEF Premint, Proceed, Fails, Inject, MainOK, configVars
  <2>2. ChainOK'
    BY <1>0, <1>2 DEF Premint, ChainOK, MainOK
  <2> QED
    BY <1>2, <1>c, <1>d, <1>f, <2>1, <2>2, TypePartsNext DEF Premint
<1>3. ASSUME NEW s, CreateSub(s) PROVE TypeInv'
  <2>1. /\ s \in SubSteps
        /\ UNCHANGED <<configVars, node, listeners, remoteListeners, chainVars,
                      stage, wsVars>>
        /\ remoteSubs' = remoteSubs \/ remoteSubs' = remoteSubs \cup {NewSub(s)}
        /\ faults' \subseteq Faults
        /\ \/ mpc' = mpc /\ todo' = todo \ {s}
           \/ mpc' = "failed" /\ todo' = todo
    BY <1>3, CreateSubDoes
  <2>2. subscriptions' = subscriptions
          \/ \E r \in {NoSub, NewSub(s)} :
               subscriptions' = [subscriptions EXCEPT ![node] = @ \cup {r}]
    BY <1>3, CreateSubDoes
  <2>3. NewSub(s) \in Subscriptions
    BY <2>1, NewSubIs
  <2>4. MainOK'
    BY <1>0, <1>a, <2>1 DEF MainOK, configVars
  <2>5. RemoteOK'
    BY <1>0, <2>1, <2>3 DEF RemoteOK
  <2>6. OwnOK'
    BY <1>0, <2>1, <2>2, <2>3 DEF OwnOK, MainOK
  <2> QED
    BY <1>e, <1>f, <2>1, <2>4, <2>5, <2>6, TypePartsNext
<1>4. ASSUME NEW s, CreateListener(s) PROVE TypeInv'
  <2>1. /\ s \in Listeners
        /\ UNCHANGED <<configVars, node, subscriptions, remoteSubs, chainVars,
                       wsVars>>
    BY <1>4 DEF CreateListener
  <2>2. MainOK'
    BY <1>0, <1>4, <1>a DEF CreateListener, Proceed, Fails, Inject, MainOK,
       configVars
  <2> DEFINE l(c) == [node |-> node, test |-> StepTest[s], copy |-> c]
  <2>3. l(0) \in ListenerIDs /\ l(1) \in ListenerIDs
    BY <2>1, NewListenerIs
  <2>4. \A c \in {0, 1} : {l(x) : x \in 0 .. c} \subseteq {l(0), l(1)}
    OBVIOUS
  <2>5. /\ \/ remoteListeners' = remoteListeners
           \/ remoteListeners' = remoteListeners \cup {l(0)}
           \/ \E c \in {0, 1} :
                remoteListeners' = remoteListeners \cup {l(x) : x \in 0 .. c}
        /\ \/ listeners' = listeners
           \/ \E c \in {0, 1} :
                listeners' = [listeners EXCEPT ![node] = @ \cup {l(c)}]
    BY <1>4 DEF CreateListener
  <2> HIDE DEF l
  <2>6. RemoteOK'
    BY <1>0, <2>1, <2>3, <2>4, <2>5 DEF RemoteOK
  <2>7. OwnOK'
    BY <1>0, <2>1, <2>3, <2>5 DEF OwnOK, MainOK
  <2> QED
    BY <1>e, <1>f, <2>1, <2>2, <2>6, <2>7, TypePartsNext
<1>5. CASE OpenWebsocket
  <2>1. UNCHANGED <<configVars, todo, ownVars, remoteVars, chainVars, stage,
                    ctxDone>>
    BY <1>5 DEF OpenWebsocket
  <2>2. node \in Nodes /\ node' \in Nodes
    BY <1>0, <1>5, NodesAre DEF OpenWebsocket, MainOK, LastNode
  <2>3. MainOK'
    BY <1>0, <1>5, <1>a, <2>1, <2>2 DEF OpenWebsocket, MainOK, Fails, Inject,
       configVars
  <2>4. CASE startSubscriptions(node) /\ epc' = [epc EXCEPT ![node] = "receive"]
    <3>1. /\ DOMAIN started' = Nodes /\ DOMAIN inbox' = Nodes
          /\ started'[node] \subseteq SubNames
          /\ \A m \in Nodes : m # node => started'[m] = started[m]
          /\ \A m \in Nodes : inbox'[m] \subseteq inbox[m] \cup {ProtocolError}
      BY <2>2, <2>4, StartSubs
    <3>2. WsOK'
      BY <1>0, <2>1, <2>2, <2>4, <3>1 DEF WsOK, Messages
    <3> QED
      BY <1>c, <1>d, <1>e, <2>1, <2>3, <3>2, TypePartsNext
  <2>5. CASE UNCHANGED <<node, started, inbox, epc>>
    BY <1>c, <1>d, <1>e, <1>f, <2>1, <2>3, <2>5, TypePartsNext DEF wsVars
  <2> QED
    BY <1>5, <2>4, <2>5 DEF OpenWebsocket
<1>6. CASE AwaitPrep
  <2>1. MainOK'
    BY <1>0, <1>6, <1>a DEF AwaitPrep, MainOK, configVars
  <2>2. WsOK'
    BY <1>0, <1>6 DEF AwaitPrep, WsOK
  <2> QED
    BY <1>6, <1>c, <1>d, <1>e, <2>1, <2>2, TypePartsNext DEF AwaitPrep
<1>7. CASE CleanNode
  <2>1. UNCHANGED <<configVars, todo, ownVars, chainVars, stage, wsVars>>
    BY <1>7 DEF CleanNode
  <2>2. node' \in Nodes
    BY <1>0, <1>7, NodesAre DEF CleanNode, MainOK, LastNode
  <2>3. MainOK'
    BY <1>0, <1>7, <1>a, <2>1, <2>2 DEF CleanNode, MainOK, Inject, configVars
  <2>4. RemoteOK'
    BY <1>0, <1>7 DEF CleanNode, RemoteOK
  <2> QED
    BY <1>c, <1>e, <1>f, <2>1, <2>3, <2>4, TypePartsNext
<1>8. ASSUME NEW n \in Nodes, Mine(n) PROVE TypeInv'
  <2>1. UNCHANGED <<mpc, configVars, node, todo, ownVars, remoteVars, stage,
                    started, epc, ctxDone, faults>>
    BY <1>8 DEF Mine
  <2>2. ChainOK'
    BY <1>0, <1>8 DEF Mine, ChainOK
  <2>3. WsOK'
    <3>1. Transfer(n) \in Messages
      BY DEF Messages
    <3>2. DOMAIN inbox' = Nodes /\ \A m \in Nodes :
            inbox'[m] \subseteq inbox[m] \cup {Transfer(n)}
      BY <1>8 DEF Mine
    <3> QED
      BY <1>0, <2>1, <3>1, <3>2 DEF WsOK
  <2> QED
    BY <1>b, <1>c, <1>d, <2>1, <2>2, <2>3, TypePartsNext
<1>9. ASSUME NEW n \in Nodes, EventStep(n) PROVE TypeInv'
  <2>1. UNCHANGED <<mpc, configVars, node, todo, ownVars, remoteVars,
                    chainVars, stage, started, faults>>
    BY <1>9 DEF EventStep, ReceiveTransfer, ReceiveProtocolError, CloseLoop
  <2>2. ctxDone' \in BOOLEAN
    BY <1>0, <1>9 DEF EventStep, ReceiveTransfer, ReceiveProtocolError,
       CloseLoop, WsOK
  <2>3. DOMAIN inbox' = Nodes /\ \A m \in Nodes : inbox'[m] \subseteq inbox[m]
    BY <1>0, <1>9 DEF EventStep, ReceiveTransfer, ReceiveProtocolError,
       CloseLoop, WsOK
  <2>4. DOMAIN epc' = Nodes /\ \A m \in Nodes :
          epc'[m] \in {"off", "receive", "send", "stuck", "closed"}
    BY <1>0, <1>9 DEF EventStep, ReceiveTransfer, ReceiveProtocolError,
       CloseLoop, WsOK
  <2>5. WsOK'
    BY <1>0, <2>1, <2>2, <2>3, <2>4 DEF WsOK
  <2> QED
    BY <1>b, <1>c, <1>d, <1>e, <2>1, <2>5, TypePartsNext
<1>10. ASSUME NEW n \in Nodes, Reconnect(n) PROVE TypeInv'
  <2>1. UNCHANGED <<mpc, configVars, node, todo, ownVars, remoteVars,
                    chainVars, stage, epc, ctxDone>>
    BY <1>10 DEF Reconnect
  <2>2. /\ DOMAIN started' = Nodes /\ DOMAIN inbox' = Nodes
        /\ started'[n] \subseteq SubNames
        /\ \A m \in Nodes : m # n => started'[m] = started[m]
        /\ \A m \in Nodes : inbox'[m] \subseteq inbox[m] \cup {ProtocolError}
    BY <1>10, StartSubs DEF Reconnect
  <2>3. WsOK'
    BY <1>0, <2>1, <2>2 DEF WsOK, Messages
  <2>4. MainOK'
    BY <1>0, <1>10, <1>a, <2>1 DEF Reconnect, Inject, MainOK, configVars
  <2> QED
    BY <1>c, <1>d, <1>e, <2>1, <2>3, <2>4, TypePartsNext
<1>11. CASE UNCHANGED vars
  BY <1>11, <1>b, <1>c, <1>d, <1>e, <1>f, TypePartsNext DEF vars
<1> QED
  BY <1>1, <1>2, <1>3, <1>4, <1>5, <1>6, <1>7, <1>8, <1>9, <1>10, <1>11
     DEF Next, StartStep, Ended

(* Types hold in every behaviour: what Start has recorded and what FireFly *)
(* has are subscriptions and listeners of the nodes.                       *)
THEOREM SetupTypeCorrect == Spec => []SetupTypeOK
<1>1. TypeInv => SetupTypeOK
  BY DEF TypeInv
<1> QED
  BY <1>1, InitType, NextType, PTL DEF Spec
-----------------------------------------------------------------------------
(* Which steps change what FireFly has, and what Start has recorded.       *)
LEMMA OwnershipSteps ==
  ASSUME [Next]_vars
  PROVE  \/ \E s : CreateSub(s) \/ CreateListener(s)
         \/ CleanNode
         \/ UNCHANGED <<ownVars, remoteVars>>
BY DEF Next, StartStep, CreatePool, Premint, QueryBalance, NextNode,
   OpenWebsocket, AwaitPrep, EndPrep, EndTest, Mine, EventStep,
   ReceiveTransfer, ReceiveProtocolError, CloseLoop, Reconnect, Ended, vars

(* What FireFly has stays recorded, unless an answer is lost.              *)
LEMMA NextRecorded ==
  ASSUME TypeInv, RecordedInv, [Next]_vars
  PROVE  RecordedInv'
<1>0. /\ MainOK /\ OwnOK /\ RemoteOK
      /\ "lost" \notin faults' => "lost" \notin faults
  BY TypeParts, ConfigKept
<1>1. ASSUME NEW s, CreateSub(s) PROVE RecordedInv'
  <2> SUFFICES ASSUME "lost" \notin faults'
               PROVE  \A r \in remoteSubs' : r \in subscriptions'[r.node]
    BY <1>0, <1>1, CreateSubDoes DEF RecordedInv
  <2>1. \A r \in remoteSubs : r \in subscriptions[r.node] /\ r.node \in Nodes
    BY <1>0 DEF RecordedInv, RemoteOK, Subscriptions
  <2>2. \A n \in Nodes : subscriptions[n] \subseteq subscriptions'[n]
    BY <1>0, <1>1, CreateSubDoes DEF OwnOK, MainOK
  <2>3. \A r \in remoteSubs : r \in subscriptions'[r.node]
    BY <2>1, <2>2
  <2>4. NewSub(s).node = node
    BY DEF NewSub
  <2>5. remoteSubs' = remoteSubs
          \/ (remoteSubs' = remoteSubs \cup {NewSub(s)}
              /\ NewSub(s) \in subscriptions'[node])
    BY <1>0, <1>1, CreateSubDoes DEF OwnOK, MainOK
  <2> QED
    BY <2>3, <2>4, <2>5
<1>2. ASSUME NEW s, CreateListener(s) PROVE RecordedInv'
  <2> SUFFICES ASSUME "lost" \notin faults'
               PROVE  \A r \in remoteListeners' : r \in listeners'[r.node]
    BY <1>0, <1>2 DEF RecordedInv, CreateListener
  <2> DEFINE l(c) == [node |-> node, test |-> StepTest[s], copy |-> c]
  <2>1. UNCHANGED <<listeners, remoteListeners>>
          \/ /\ remoteListeners' = remoteListeners \cup {l(x) : x \in 0 .. 0}
             /\ listeners' = [listeners EXCEPT ![node] = @ \cup {l(0)}]
    BY <1>2 DEF CreateListener, Inject
  <2>2. {l(x) : x \in 0 .. 0} = {l(0)} /\ l(0).node = node
    OBVIOUS
  <2> HIDE DEF l
  <2>3. \A r \in remoteListeners : r \in listeners[r.node] /\ r.node \in Nodes
    BY <1>0 DEF RecordedInv, RemoteOK, ListenerIDs
  <2> QED
    BY <1>0, <2>1, <2>2, <2>3 DEF OwnOK, MainOK
<1>3. CASE CleanNode
  <2>1. /\ remoteSubs' \subseteq remoteSubs /\ UNCHANGED ownVars
        /\ remoteListeners' \subseteq remoteListeners
    BY <1>3 DEF CleanNode
  <2> QED
    BY <1>0, <2>1 DEF RecordedInv, ownVars
<1>4. CASE UNCHANGED <<ownVars, remoteVars>>
  BY <1>0, <1>4 DEF RecordedInv, ownVars, remoteVars
<1> QED
  BY <1>1, <1>2, <1>3, <1>4, OwnershipSteps

(* Nothing to record at first.                                             *)
LEMMA InitRecorded == Init => RecordedInv
BY DEF Init, RecordedInv

(* filterEvent knows every message subscription that can bring events.     *)
THEOREM KnownWhenStarted == Spec => []StartedAreKnown
<1>1. Init => RecordedInv
  BY DEF Init, RecordedInv
<1>2. TypeInv /\ RecordedInv => StartedAreKnown
  <2>1. TypeInv => \A r \in remoteSubs : r.node \in Nodes
    BY TypeParts DEF RemoteOK, Subscriptions
  <2> QED
    BY <2>1 DEF RecordedInv, StartedAreKnown, subscriptionMap
<1> QED
  BY <1>1, <1>2, InitType, NextType, NextRecorded, PTL DEF Spec
-----------------------------------------------------------------------------
(* Each turn of cleanup leaves nothing on its node, for all that was       *)
(* recorded is deleted.                                                    *)
LEMMA NextCleaned ==
  ASSUME TypeInv, RecordedInv, CleanedInv, [Next]_vars
  PROVE  CleanedInv'
<1>0. /\ MainOK /\ OwnOK /\ RemoteOK
      /\ faults' \cap {"lost", "undeleted"} = {} =>
           faults \cap {"lost", "undeleted"} = {}
  BY TypeParts, ConfigKept
<1>1. CASE CleanNode
  <2> SUFFICES ASSUME faults' \cap {"lost", "undeleted"} = {}
               PROVE  /\ mpc' = "cleanup" =>
                           \A r \in remoteSubs' \cup remoteListeners' :
                                r.node >= node'
                      /\ mpc' = "done" =>
                           remoteSubs' \cup remoteListeners' = {}
    BY DEF CleanedInv
  <2>1. /\ remoteSubs' = remoteSubs \ Deletable(node)
        /\ remoteListeners' = remoteListeners \ Deletable(node)
    BY <1>1 DEF CleanNode, Inject
  <2>2. /\ \A r \in remoteSubs :
             r \in subscriptions[r.node] /\ r.node \in Nodes
        /\ \A r \in remoteListeners :
             r \in listeners[r.node] /\ r.node \in Nodes
    BY <1>0 DEF RecordedInv, RemoteOK, Subscriptions, ListenerIDs
  <2>3. \A r \in remoteSubs' \cup remoteListeners' :
          /\ r.node \in Nodes /\ r.node # node
          /\ r \in remoteSubs \cup remoteListeners
    BY <2>1, <2>2 DEF Deletable
  <2>4. \A r \in remoteSubs \cup remoteListeners : r.node >= node
    BY <1>0, <1>1 DEF CleanedInv, CleanNode
  <2>5. node \in Nodes
    BY <1>0 DEF MainOK
  <2>6. \A r \in remoteSubs' \cup remoteListeners' : r.node >= node + 1
    <3> TAKE r \in remoteSubs' \cup remoteListeners'
    <3>1. r.node \in Int /\ node \in Int
      BY <2>3, <2>5, NodesAre
    <3>2. r.node # node /\ r.node >= node
      BY <2>3, <2>4
    <3> QED
      BY <3>1, <3>2
  <2>7. CASE LastNode
    <3>1. \A r \in remoteSubs' \cup remoteListeners' : FALSE
      BY <2>3, <2>6, <2>7, NodesAre DEF LastNode
    <3> QED
      BY <3>1
  <2>8. CASE ~LastNode
    BY <1>1, <2>6, <2>8 DEF CleanNode
  <2> QED
    BY <2>7, <2>8
<1>2. CASE EndTest
  <2>1. mpc' = "cleanup" /\ node' = 1 /\ UNCHANGED remoteVars
    BY <1>2 DEF EndTest
  <2>2. \A r \in remoteSubs \cup remoteListeners : r.node \in Nodes
    BY <1>0 DEF RemoteOK, Subscriptions, ListenerIDs
  <2>3. \A r \in remoteSubs \cup remoteListeners : r.node >= 1
    BY <2>2, NodesAre
  <2> QED
    BY <2>1, <2>3 DEF CleanedInv, remoteVars
<1>3. ASSUME mpc' \notin {"cleanup", "done"} PROVE CleanedInv'
  BY <1>3 DEF CleanedInv
<1>4. ASSUME UNCHANGED <<mpc, node, remoteVars>> PROVE CleanedInv'
  BY <1>0, <1>4 DEF CleanedInv, remoteVars
<1>5. \/ CleanNode \/ EndTest \/ mpc' \notin {"cleanup", "done"}
      \/ UNCHANGED <<mpc, node, remoteVars>>
  <2>1. ASSUME StartStep PROVE CleanNode \/ mpc' \notin {"cleanup", "done"}
    BY <2>1 DEF StartStep, CreatePool, Premint, QueryBalance, NextNode,
       CreateSub, CreateListener, OpenWebsocket, AwaitPrep, EndPrep, AtStep,
       Proceed, Fails
  <2>2. ASSUME NEW n, Mine(n) \/ EventStep(n) \/ Reconnect(n)
        PROVE  UNCHANGED <<mpc, node, remoteVars>>
    BY <2>2 DEF Mine, EventStep, ReceiveTransfer, ReceiveProtocolError,
       CloseLoop, Reconnect
  <2> QED
    BY <2>1, <2>2 DEF Next, Ended, vars
<1> QED
  BY <1>1, <1>2, <1>3, <1>4, <1>5

(* A run that gets to its end leaves nothing behind on any node.           *)
THEOREM RunLeavesNothing == Spec => []NothingLeftBehind
<1>1. Init => RecordedInv /\ CleanedInv
  BY DEF Init, RecordedInv, CleanedInv
<1>2. CleanedInv => NothingLeftBehind
  BY DEF CleanedInv, NothingLeftBehind
<1> QED
  BY <1>1, <1>2, InitType, NextType, NextRecorded, NextCleaned, PTL DEF Spec
-----------------------------------------------------------------------------
(* Only a mined pre-mint has an event, and only an event lets Start go on. *)
LEMMA NextMinted ==
  ASSUME TypeInv, MintedInv, [Next]_vars
  PROVE  MintedInv'
<1>0. /\ MainOK /\ WsOK /\ UNCHANGED tests
  BY TypeParts, ConfigKept DEF configVars
<1>1. \A m, n \in Nodes : Transfer(m) = Transfer(n) <=> m = n
  BY DEF Transfer
<1>2. \A m \in Nodes : Transfer(m) # ProtocolError
  BY DEF Transfer, ProtocolError
<1> DEFINE Waits == /\ mpc \in {"prepared", "run", "cleanup"}
                    /\ "erc20_transfer" \in tests
<1>3. ASSUME mined \subseteq mined',
             \A n, m \in Nodes : Transfer(m) \in inbox'[n] =>
               Transfer(m) \in inbox[n] \/ m \in mined',
             \A n \in Nodes : epc'[n] = "send" =>
                  epc[n] = "send" \/ mined # {},
             Waits' => Waits \/ mined # {}
      PROVE  MintedInv'
  <2>1. mined # {} => mined' # {}
    BY <1>3
  <2>2. \A n \in Nodes :
          /\ \A m \in Nodes : Transfer(m) \in inbox'[n] => m \in mined'
          /\ epc'[n] = "send" => mined' # {}
    BY <1>3, <2>1 DEF MintedInv
  <2>3. Waits' => mined' # {}
    BY <1>3, <2>1 DEF MintedInv
  <2> QED
    BY <2>2, <2>3 DEF MintedInv
<1>4. ASSUME NEW n \in Nodes, Mine(n) PROVE MintedInv'
  <2>1. /\ mined' = mined \cup {n} /\ UNCHANGED <<mpc, epc>>
        /\ inbox' = [m \in Nodes |->
             IF \E s \in remoteSubs :
                  s.node = m /\ s.listensTo = "erc20_transfer"
             THEN inbox[m] \cup {Transfer(n)} ELSE inbox[m]]
    BY <1>4 DEF Mine
  <2>2. \A k \in Nodes : inbox'[k] \subseteq inbox[k] \cup {Transfer(n)}
    BY <2>1
  <2>3. \A k, m \in Nodes : Transfer(m) \in inbox'[k] =>
          Transfer(m) \in inbox[k] \/ m \in mined'
    BY <1>1, <2>1, <2>2
  <2>4. mined \subseteq mined' /\ (Waits' => Waits)
    BY <1>0, <2>1
  <2> HIDE DEF Waits
  <2> QED
    BY <1>3, <2>1, <2>3, <2>4
<1>5. ASSUME NEW n \in Nodes, EventStep(n) PROVE MintedInv'
  <2>1. UNCHANGED <<mpc, mined>>
    BY <1>5 DEF EventStep, ReceiveTransfer, ReceiveProtocolError, CloseLoop,
       chainVars
  <2>2. \A m \in Nodes : inbox'[m] \subseteq inbox[m]
    BY <1>0, <1>5 DEF EventStep, ReceiveTransfer, ReceiveProtocolError,
       CloseLoop, WsOK
  <2>3. \A m \in Nodes : epc'[m] = "send" =>
          epc[m] = "send" \/ \E k \in Nodes : Transfer(k) \in inbox[n]
    BY <1>0, <1>5 DEF EventStep, ReceiveTransfer, ReceiveProtocolError,
       CloseLoop, WsOK
  <2>4. (\E k \in Nodes : Transfer(k) \in inbox[n]) => mined # {}
    BY DEF MintedInv
  <2>5. Waits' => Waits
    BY <1>0, <2>1
  <2> HIDE DEF Waits
  <2> QED
    BY <1>3, <2>1, <2>2, <2>3, <2>4, <2>5
<1>6. ASSUME NEW n \in Nodes, startSubscriptions(n), UNCHANGED mined,
             \A m \in Nodes : epc'[m] = "send" => epc[m] = "send",
             Waits' => Waits
      PROVE  MintedInv'
  <2>1. \A m \in Nodes : inbox'[m] \subseteq inbox[m] \cup {ProtocolError}
    BY <1>6, StartSubs
  <2> HIDE DEF Waits
  <2> QED
    BY <1>2, <1>3, <1>6, <2>1
<1>7. ASSUME NEW n \in Nodes, Reconnect(n) PROVE MintedInv'
  <2>1. startSubscriptions(n) /\ UNCHANGED <<mpc, mined, epc>>
    BY <1>7 DEF Reconnect, chainVars
  <2>2. Waits' => Waits
    BY <1>0, <2>1
  <2> HIDE DEF Waits
  <2> QED
    BY <1>6, <2>1, <2>2
<1>8. CASE OpenWebsocket
  <2>1. UNCHANGED mined /\ node \in Nodes
    BY <1>0, <1>8 DEF OpenWebsocket, MainOK, chainVars
  <2>2. Waits' => Waits
    BY <1>0, <1>8 DEF OpenWebsocket, containsTargetTest, Fails
  <2>3. \A m \in Nodes : epc'[m] = "send" => epc[m] = "send"
    BY <1>0, <1>8 DEF OpenWebsocket, WsOK
  <2>4. startSubscriptions(node) \/ UNCHANGED <<inbox, epc>>
    BY <1>8 DEF OpenWebsocket
  <2> HIDE DEF Waits
  <2> QED
    BY <1>3, <1>6, <2>1, <2>2, <2>3, <2>4
<1>9. CASE AwaitPrep
  <2>1. UNCHANGED <<inbox, mined>> /\ mined # {}
    BY <1>9 DEF AwaitPrep, chainVars, MintedInv
  <2>2. \A m \in Nodes : epc'[m] = "send" => epc[m] = "send"
    BY <1>0, <1>9 DEF AwaitPrep, WsOK
  <2> HIDE DEF Waits
  <2> QED
    BY <1>3, <2>1, <2>2
<1>10. ASSUME UNCHANGED <<inbox, epc, mined>>, Waits' => Waits PROVE MintedInv'
  <2> HIDE DEF Waits
  <2> QED
    BY <1>3, <1>10
<1>11. ASSUME CreatePool \/ Premint \/ QueryBalance \/ NextNode
              \/ (\E s : CreateSub(s) \/ CreateListener(s))
       PROVE  MintedInv'
  <2>1. UNCHANGED <<inbox, epc, mined>>
    BY <1>11 DEF CreatePool, Premint, QueryBalance, NextNode, CreateSub,
       CreateListener, wsVars, chainVars
  <2>2. mpc' \notin {"prepared", "run", "cleanup"}
    BY <1>11 DEF CreatePool, Premint, QueryBalance, NextNode, CreateSub,
       CreateListener, AtStep, Proceed, Fails
  <2> QED
    BY <1>10, <2>1, <2>2
<1>12. ASSUME EndPrep \/ EndTest \/ CleanNode \/ UNCHANGED vars
       PROVE  MintedInv'
  <2>1. UNCHANGED <<inbox, epc, mined>>
    BY <1>12 DEF EndPrep, EndTest, CleanNode, vars, wsVars, chainVars
  <2>2. mpc' \in {"prepared", "run", "cleanup"} =>
             mpc \in {"prepared", "run", "cleanup"}
    BY <1>12 DEF EndPrep, EndTest, CleanNode, vars
  <2> QED
    BY <1>0, <1>10, <2>1, <2>2
<1> QED
  BY <1>4, <1>5, <1>7, <1>8, <1>9, <1>11, <1>12 DEF Next, StartStep, Ended

(* No worker transfers tokens before a pre-mint is on the chain, whatever  *)
(* order events, blocks and reconnects come in.                            *)
THEOREM MintBeforeTransfer == Spec => []MintedBeforeWorkers
<1>1. Init => MintedInv
  BY DEF Init, MintedInv
<1>2. MintedInv => MintedBeforeWorkers
  BY DEF MintedInv, MintedBeforeWorkers
<1> QED
  BY <1>1, <1>2, InitType, NextType, NextMinted, PTL DEF Spec
-----------------------------------------------------------------------------
(* At most one contract test: a name taken on a node is taken by the very  *)
(* subscription that is wanted.                                            *)
LEMMA OneForm ==
  ASSUME OwnSubscriptions(tests), NEW s \in NeededSubs, NEW t \in NeededSubs,
         SubName[s] = SubName[t]
  PROVE  Listens(s) = Listens(t)
<1>1. s \in SubSteps /\ t \in SubSteps /\ StepTest[s] \in tests
      /\ StepTest[t] \in tests
  BY DEF NeededSubs, Needed, containsTargetTest
<1>2. CASE SubName[s] # "contracts"
  BY <1>1, <1>2, SubForms
<1>3. CASE SubName[s] = "contracts"
  <2> DEFINE C == tests \cap ContractTests
  <2>1. StepTest[s] \in C /\ StepTest[t] \in C
    BY <1>1, <1>3, SubForms
  <2>2. IsFiniteSet(ContractTests)
    <3>1. IsFiniteSet({"custom_ethereum_contract"})
      BY FS_Singleton
    <3>2. IsFiniteSet({"custom_ethereum_contract"} \cup {"erc20_transfer"})
      BY <3>1, FS_AddElement
    <3>3. IsFiniteSet({"custom_ethereum_contract"} \cup {"erc20_transfer"}
                        \cup {"custom_fabric_contract"})
      BY <3>2, FS_AddElement
    <3>4. ContractTests = {"custom_ethereum_contract"} \cup {"erc20_transfer"}
                            \cup {"custom_fabric_contract"}
      BY DEF ContractTests
    <3> QED
      BY <3>3, <3>4
  <2>3. IsFiniteSet(C) /\ Cardinality(C) <= 1
    BY <2>2, FS_Subset DEF OwnSubscriptions
  <2> HIDE DEF C
  <2>4. StepTest[s] = StepTest[t]
    <3> SUFFICES ASSUME StepTest[s] # StepTest[t] PROVE FALSE
      OBVIOUS
    <3>1. {StepTest[s]} \subseteq C
      BY <2>1
    <3>2. IsFiniteSet(C \ {StepTest[s]})
          /\ Cardinality(C \ {StepTest[s]}) = Cardinality(C) - 1
      BY <2>1, <2>3, FS_RemoveElement
    <3>3. Cardinality(C) \in Nat /\ Cardinality(C \ {StepTest[s]}) \in Nat
      BY <2>3, <3>2, FS_CardinalityType
    <3>4. Cardinality(C \ {StepTest[s]}) = 0
      BY <2>3, <3>2, <3>3
    <3>5. C \ {StepTest[s]} = {}
      BY <3>2, <3>4, FS_EmptySet
    <3> QED
      BY <2>1, <3>5
  <2> QED
    BY <1>1, <1>3, <2>4, SubForms
<1> QED
  BY <1>2, <1>3

(* What is needed stays the same.                                          *)
LEMMA NeededKept == [Next]_vars => NeededSubs' = NeededSubs
BY ConfigKept DEF NeededSubs, SubSteps

(* Start creates needed subscriptions only.                                *)
LEMMA NextOnly ==
  ASSUME TypeInv, OnlyNeeded, [Next]_vars
  PROVE  OnlyNeeded'
<1>1. NeededSubs' = NeededSubs
  BY NeededKept
<1>2. ASSUME NEW s, CreateSub(s) PROVE OnlyNeeded'
  <2>1. s \in SubSteps /\ s \in NeededSubs
    BY <1>2, CreateSubDoes, TypeParts DEF MainOK, NeededSubs
  <2>2. IsSubOf(NewSub(s), node, s) /\ NewSub(s).node = node
    BY <2>1, NewSubIs DEF IsSubOf
  <2>3. remoteSubs' \subseteq remoteSubs \cup {NewSub(s)}
    BY <1>2, CreateSubDoes
  <2> QED
    BY <1>1, <2>1, <2>2, <2>3 DEF OnlyNeeded, IsSubOf
<1>3. ASSUME remoteSubs' \subseteq remoteSubs PROVE OnlyNeeded'
  BY <1>1, <1>3 DEF OnlyNeeded, IsSubOf
<1>4. (\E s : CreateSub(s)) \/ remoteSubs' \subseteq remoteSubs
  BY OwnershipSteps DEF CreateListener, CleanNode, remoteVars
<1> QED
  BY <1>2, <1>3, <1>4

(* Before cleanup, no subscription FireFly has goes away.                  *)
LEMMA SubsKept ==
  ASSUME TypeInv, [Next]_vars, mpc' \notin {"cleanup", "done"}
  PROVE  /\ remoteSubs \subseteq remoteSubs'
         /\ \A n, s : HasSub(n, s) => HasSub(n, s)'
         /\ \A n : HasSubs(n) => HasSubs(n)'
<1>1. ~CleanNode
  BY DEF CleanNode
<1>2. remoteSubs \subseteq remoteSubs'
  BY <1>1, OwnershipSteps, CreateSubDoes DEF CreateListener, remoteVars
<1>3. \A n, s : HasSub(n, s) => HasSub(n, s)'
  BY <1>2 DEF HasSub, IsSubOf
<1> QED
  BY <1>2, <1>3, NeededKept DEF HasSubs

(* After the creation of a subscription without a fault, FireFly has it.   *)
LEMMA SubIsThere ==
  ASSUME TypeInv, OnlyNeeded, OwnSubscriptions(tests), NEW s, CreateSub(s),
         remoteSubs \subseteq remoteSubs', mpc' = mpc,
         faults \cap {"refused", "lost"} = {},
         faults' \cap {"refused", "lost"} = {}
  PROVE  HasSub(node, s)'
<1>1. /\ s \in SubSteps /\ s \in NeededSubs /\ UNCHANGED node
      /\ NameTaken(NewSub(s)) \/ NewSub(s) \in remoteSubs'
  BY CreateSubDoes, TypeParts DEF MainOK, NeededSubs
<1>2. IsSubOf(NewSub(s), node, s)
  BY <1>1, NewSubIs
<1>3. CASE NewSub(s) \in remoteSubs'
  BY <1>1, <1>2, <1>3 DEF HasSub, IsSubOf
<1>4. CASE NameTaken(NewSub(s))
  <2>1. PICK r \in remoteSubs : r.node = node /\ r.name = SubName[s]
    BY <1>2, <1>4 DEF NameTaken, IsSubOf
  <2>2. PICK t \in NeededSubs : IsSubOf(r, r.node, t)
    BY DEF OnlyNeeded
  <2>3. Listens(s) = Listens(t)
    BY <1>1, <2>1, <2>2, OneForm DEF IsSubOf
  <2>4. IsSubOf(r, node, s)
    BY <2>1, <2>2, <2>3 DEF IsSubOf
  <2>5. r \in remoteSubs'
    OBVIOUS
  <2> QED
    BY <1>1, <2>4, <2>5 DEF HasSub, IsSubOf
<1> QED
  BY <1>1, <1>3, <1>4

(* The loop over the nodes leaves each with what it needs.                 *)
LEMMA NextCreated ==
  ASSUME TypeInv, OnlyNeeded, CreatedInv, [Next]_vars, OwnSubscriptions(tests),
         faults \cap {"refused", "lost"} = {},
         faults' \cap {"refused", "lost"} = {}
  PROVE  CreatedInv'
<1>0. MainOK /\ NeededSubs' = NeededSubs
  BY TypeParts, NeededKept
<1>1. ASSUME NEW n, mpc' \notin {"cleanup", "done"}
      PROVE  /\ HasSubs(n) => HasSubs(n)'
             /\ \A s : HasSub(n, s) => HasSub(n, s)'
  BY <1>1, SubsKept
<1>2. ASSUME UNCHANGED <<mpc, node, todo>> PROVE CreatedInv'
  BY <1>0, <1>1, <1>2 DEF CreatedInv
<1>3. ASSUME UNCHANGED node, mpc \in {"open", "prep", "prepared", "run"},
             mpc' \notin {"pool", "setup", "cleanup", "done"}
      PROVE  CreatedInv'
  BY <1>1, <1>3 DEF CreatedInv
<1>4. ASSUME mpc' \in {"failed", "cleanup", "done"} PROVE CreatedInv'
  BY <1>4 DEF CreatedInv
<1>5. ASSUME NEW s, mpc = "setup", UNCHANGED <<mpc, node>>, todo' = todo \ {s},
             s \in NeededSubs => HasSub(node, s)'
      PROVE  CreatedInv'
  <2>1. \A n \in Nodes : n < node' => HasSubs(n)'
    BY <1>1, <1>5 DEF CreatedInv
  <2>2. \A t \in NeededSubs' : t \in todo' \/ HasSub(node, t)'
    BY <1>0, <1>1, <1>5 DEF CreatedInv
  <2> QED
    BY <1>5, <2>1, <2>2 DEF CreatedInv, HasSub
<1>6. CASE CreatePool
  <2>1. /\ mpc = "pool" /\ node = 1 /\ UNCHANGED node
        /\ mpc' = "failed" \/ (mpc' = "setup" /\ todo' = StepsOfNode)
    BY <1>6 DEF CreatePool, Fails, CreatedInv
  <2>2. NeededSubs \subseteq StepsOfNode
    BY TestTable DEF NeededSubs, StepsOfNode
  <2>3. \A n \in Nodes : ~(n < 1)
    BY NodesAre
  <2> QED
    BY <1>0, <1>4, <2>1, <2>2, <2>3 DEF CreatedInv
<1>7. ASSUME NEW s, CreateSub(s) PROVE CreatedInv'
  <2>1. /\ mpc = "setup" /\ UNCHANGED node
        /\ (mpc' = mpc /\ todo' = todo \ {s}) \/ mpc' = "failed"
    BY <1>7, CreateSubDoes
  <2>2. CASE mpc' = mpc
    <3>1. HasSub(node, s)'
      BY <1>7, <2>1, <2>2, SubIsThere, SubsKept
    <3> QED
      BY <1>5, <2>1, <2>2, <3>1
  <2> QED
    BY <1>4, <2>1, <2>2
<1>8. ASSUME NEW s, CreateListener(s) \/ (s = "premint" /\ Premint)
                      \/ (s = "mint_balance" /\ QueryBalance)
      PROVE  CreatedInv'
  <2>1. /\ mpc = "setup" /\ UNCHANGED node
        /\ (mpc' = mpc /\ todo' = todo \ {s}) \/ mpc' = "failed"
    BY <1>8 DEF CreateListener, Premint, QueryBalance, AtStep, Proceed, Fails
  <2>2. s \notin NeededSubs
    BY <1>8, StepTable DEF CreateListener, NeededSubs, Listeners
  <2> QED
    BY <1>4, <1>5, <2>1, <2>2
<1>9. CASE NextNode
  <2>1. mpc = "setup" /\ todo = {} /\ node \in Nodes
    BY <1>0, <1>9 DEF NextNode, MainOK
  <2>2. \A n \in Nodes : n < node \/ n = node => HasSubs(n)
    BY <2>1 DEF CreatedInv, HasSubs
  <2>3. CASE LastNode
    <3>1. node' = 1 /\ mpc' = "open"
      BY <1>9, <2>3 DEF NextNode
    <3>2. \A n \in Nodes : HasSubs(n)
      BY <2>1, <2>2, <2>3, NodesAre DEF LastNode
    <3> QED
      BY <1>1, <3>1, <3>2 DEF CreatedInv
  <2>4. CASE ~LastNode
    <3>1. node' = node + 1 /\ mpc' = "setup" /\ todo' = StepsOfNode
      BY <1>9, <2>1, <2>4 DEF NextNode
    <3>2. \A n \in Nodes : n < node' => n < node \/ n = node
      BY <2>1, <3>1, NodesAre
    <3>3. \A n \in Nodes : n < node' => HasSubs(n)'
      BY <1>1, <2>2, <3>1, <3>2
    <3>4. \A s \in NeededSubs' : s \in todo'
      BY <1>0, <3>1, TestTable DEF NeededSubs, StepsOfNode
    <3> QED
      BY <3>1, <3>3, <3>4 DEF CreatedInv
  <2> QED
    BY <2>3, <2>4
<1>10. CASE OpenWebsocket
  <2>1. mpc = "open" /\ mpc' \in {"open", "prep", "run", "failed"}
    BY <1>10 DEF OpenWebsocket, Fails
  <2> QED
    BY <1>1, <2>1 DEF CreatedInv
<1>11. CASE AwaitPrep \/ EndPrep
  BY <1>3, <1>11 DEF AwaitPrep, EndPrep
<1>12. CASE EndTest \/ CleanNode
  BY <1>4, <1>12 DEF EndTest, CleanNode
<1>13. ASSUME NEW n, Mine(n) \/ EventStep(n) \/ Reconnect(n) PROVE CreatedInv'
  BY <1>2, <1>13 DEF Mine, EventStep, ReceiveTransfer, ReceiveProtocolError,
     CloseLoop, Reconnect
<1>14. CASE UNCHANGED vars
  BY <1>2, <1>14 DEF vars
<1> QED
  BY <1>6, <1>7, <1>8, <1>9, <1>10, <1>11, <1>12, <1>13, <1>14
     DEF Next, StartStep, Ended
-----------------------------------------------------------------------------
(* Every needed name is in subscriptionMap and known on the node, once the *)
(* nodes have what they need.                                              *)
LEMMA NamesStart ==
  ASSUME TypeInv, RecordedInv, "lost" \notin faults, NEW n \in Nodes,
         HasSubs(n), NEW s \in NeededSubs
  PROVE  /\ SubName[s] \in StartNames
         /\ \E r \in remoteSubs : r.node = n /\ r.name = SubName[s]
<1>1. PICK r \in remoteSubs : r.node = n /\ r.name = SubName[s]
  BY DEF HasSubs, HasSub, IsSubOf
<1>2. r \in subscriptions[n]
  BY <1>1 DEF RecordedInv
<1>3. r # NoSub
  <2>1. NoSub.node = 0 /\ n # 0
    BY NodesAre DEF NoSub
  <2> QED
    BY <1>1, <2>1
<1> QED
  BY <1>1, <1>2, <1>3 DEF StartNames, subscriptionMap

(* An opened websocket has every needed name started, again after a        *)
(* reconnect.                                                              *)
LEMMA NextStarted ==
  ASSUME TypeInv, RecordedInv, CreatedInv, StartedInv, [Next]_vars,
         "lost" \notin faults
  PROVE  StartedInv'
<1>0. MainOK /\ WsOK /\ NeededSubs' = NeededSubs
  BY TypeParts, NeededKept
<1>1. ASSUME NEW n \in Nodes, startSubscriptions(n),
             mpc \in {"open", "prep", "prepared", "run"}
      PROVE  /\ \A s \in NeededSubs : SubName[s] \in started'[n]
             /\ \A m \in Nodes : m # n => started'[m] = started[m]
  BY <1>1, StartSubs, NamesStart DEF CreatedInv
<1>2. ASSUME UNCHANGED <<mpc, node, started>>,
             \A n \in Nodes : epc'[n] = "off" <=> epc[n] = "off"
      PROVE  StartedInv'
  BY <1>0, <1>2 DEF StartedInv
<1>3. ASSUME UNCHANGED wsVars, mpc \in {"pool", "setup"},
             mpc' \in {"pool", "setup", "failed"}
      PROVE  StartedInv'
  BY <1>3 DEF StartedInv, wsVars
<1>4. ASSUME mpc' \in {"failed", "cleanup", "done"} PROVE StartedInv'
  BY <1>4 DEF StartedInv
<1>5. CASE CreatePool \/ Premint \/ QueryBalance
             \/ \E s : CreateSub(s) \/ CreateListener(s)
  BY <1>3, <1>5 DEF CreatePool, Premint, QueryBalance, CreateSub,
     CreateListener, AtStep, Proceed, Fails
<1>6. CASE NextNode
  <2>1. /\ mpc = "setup" /\ UNCHANGED wsVars
        /\ mpc' = "setup" \/ (mpc' = "open" /\ node' = 1)
    BY <1>6 DEF NextNode
  <2>2. \A n \in Nodes : ~(n < 1)
    BY NodesAre
  <2> QED
    BY <2>1, <2>2 DEF StartedInv, wsVars
<1>7. CASE OpenWebsocket
  <2>1. mpc = "open" /\ node \in Nodes
    BY <1>0, <1>7 DEF OpenWebsocket, MainOK
  <2>2. CASE mpc' = "failed"
    BY <1>4, <2>2
  <2>3. CASE mpc' # "failed"
    <3>1. /\ startSubscriptions(node) /\ epc' = [epc EXCEPT ![node] = "receive"]
          /\ \/ LastNode /\ mpc' \in {"prep", "run"}
             \/ node' = node + 1 /\ mpc' = "open"
      BY <1>7, <2>1, <2>3 DEF OpenWebsocket, Fails
    <3>2. \A n \in Nodes : epc'[n] = IF n = node THEN "receive" ELSE epc[n]
      BY <1>0, <3>1 DEF WsOK
    <3>3. \A n \in Nodes : epc'[n] # "off" =>
            \A s \in NeededSubs : SubName[s] \in started'[n]
      BY <1>1, <2>1, <3>1, <3>2 DEF StartedInv
    <3>4. \A n \in Nodes : n < node \/ n = node => epc'[n] # "off"
      BY <2>1, <3>2 DEF StartedInv
    <3>5. CASE LastNode /\ mpc' \in {"prep", "run"}
      <4>1. \A n \in Nodes : n < node \/ n = node
        BY <2>1, <3>5, NodesAre DEF LastNode
      <4> QED
        BY <1>0, <3>3, <3>4, <3>5, <4>1 DEF StartedInv
    <3>6. CASE node' = node + 1 /\ mpc' = "open"
      <4>1. \A n \in Nodes : n < node' => n < node \/ n = node
        BY <2>1, <3>6, NodesAre
      <4> QED
        BY <1>0, <3>3, <3>4, <3>6, <4>1 DEF StartedInv
    <3> QED
      BY <3>1, <3>5, <3>6
  <2> QED
    BY <2>2, <2>3
<1>8. CASE AwaitPrep
  <2>1. /\ mpc = "prep" /\ mpc' = "prepared" /\ UNCHANGED started
        /\ \A n \in Nodes : epc'[n] = "off" <=> epc[n] = "off"
    BY <1>0, <1>8 DEF AwaitPrep, WsOK
  <2> QED
    BY <1>0, <2>1 DEF StartedInv
<1>9. CASE EndPrep
  BY <1>0, <1>9 DEF EndPrep, StartedInv, wsVars
<1>10. CASE EndTest \/ CleanNode
  BY <1>4, <1>2, <1>10 DEF EndTest, CleanNode, wsVars
<1>11. ASSUME NEW n \in Nodes, Mine(n) \/ EventStep(n) PROVE StartedInv'
  <2>1. UNCHANGED <<mpc, node, started>>
    BY <1>11 DEF Mine, EventStep, ReceiveTransfer, ReceiveProtocolError,
       CloseLoop
  <2>2. \A m \in Nodes : epc'[m] = "off" <=> epc[m] = "off"
    BY <1>0, <1>11 DEF Mine, EventStep, ReceiveTransfer, ReceiveProtocolError,
       CloseLoop, WsOK
  <2> QED
    BY <1>2, <2>1, <2>2
<1>12. ASSUME NEW n \in Nodes, Reconnect(n) PROVE StartedInv'
  <2>1. /\ UNCHANGED <<mpc, node, epc>> /\ startSubscriptions(n)
        /\ epc[n] # "off"
    BY <1>12 DEF Reconnect
  <2>2. CASE mpc \in {"open", "prep", "prepared", "run"}
    <3>1. /\ \A s \in NeededSubs : SubName[s] \in started'[n]
          /\ \A m \in Nodes : m # n => started'[m] = started[m]
      BY <1>1, <2>1, <2>2
    <3> QED
      BY <1>0, <2>1, <3>1 DEF StartedInv
  <2>3. CASE mpc \notin {"open", "prep", "prepared", "run"}
    BY <2>1, <2>3 DEF StartedInv
  <2> QED
    BY <2>2, <2>3
<1>13. CASE UNCHANGED vars
  BY <1>2, <1>13 DEF vars, wsVars
<1> QED
  BY <1>5, <1>6, <1>7, <1>8, <1>9, <1>10, <1>11, <1>12, <1>13
     DEF Next, StartStep, Ended

(* No node is done at first.                                               *)
LEMMA InitSubs == Init => OnlyNeeded /\ SubsInv
<1> SUFFICES ASSUME Init PROVE OnlyNeeded /\ CreatedInv /\ StartedInv
  BY DEF SubsInv
<1> QED
  BY DEF Init, OnlyNeeded, CreatedInv, StartedInv

(* Together they are inductive, while no creation is refused or lost.      *)
LEMMA NextSubs ==
  ASSUME TypeInv, RecordedInv, OnlyNeeded, SubsInv, [Next]_vars
  PROVE  SubsInv'
<1> SUFFICES ASSUME OwnSubscriptions(tests)',
                    faults' \cap {"refused", "lost"} = {}
             PROVE  CreatedInv' /\ StartedInv'
  BY DEF SubsInv
<1>1. OwnSubscriptions(tests) /\ faults \cap {"refused", "lost"} = {}
      /\ "lost" \notin faults
  BY ConfigKept DEF configVars, OwnSubscriptions
<1>2. CreatedInv /\ StartedInv
  BY <1>1 DEF SubsInv
<1> QED
  BY <1>1, <1>2, NextCreated, NextStarted

(* The steps that make the subscriptions a test needs.                     *)
LEMMA StepFor ==
  ASSUME OwnSubscriptions(tests), tests \subseteq TestNames, NEW t \in tests,
         NEW name \in Sources(t)
  PROVE  \E s \in NeededSubs :
           SubName[s] = name /\ (t \in ContractTests => Listens(s) = t)
<1>1. CASE t \in {"msg_broadcast", "msg_private"}
  <2>1. "broadcast_sub" \in NeededSubs
    BY <1>1, StepTable, TestTable DEF NeededSubs, Needed, containsTargetTest,
       OwnSubscriptions
  <2>2. name = "messages" /\ t \notin ContractTests
    BY <1>1 DEF Sources, ContractTests
  <2> QED
    BY <2>1, <2>2, StepTable
<1>2. CASE t \in {"blob_broadcast", "blob_private"}
  <2>1. "blob_sub" \in NeededSubs
    BY <1>2, StepTable, TestTable DEF NeededSubs, Needed, containsTargetTest,
       OwnSubscriptions
  <2>2. name = "blob" /\ t \notin ContractTests
    BY <1>2 DEF Sources, ContractTests
  <2> QED
    BY <2>1, <2>2, StepTable
<1>3. CASE t = "token_mint"
  <2>1. t \notin ContractTests
    BY <1>3 DEF ContractTests
  <2>2. \/ name = "mint"
        \/ name = "messages" /\ supportsData
    BY <1>3 DEF Sources
  <2>3. CASE name = "mint"
    <3>1. "mint_sub" \in NeededSubs
      BY <1>3, StepTable, TestTable DEF NeededSubs, Needed, containsTargetTest
    <3> QED
      BY <2>1, <2>3, <3>1, StepTable
  <2>4. CASE name = "messages" /\ supportsData
    <3>1. "mint_msg_sub" \in NeededSubs
      BY <1>3, <2>4, StepTable, TestTable DEF NeededSubs, Needed,
         containsTargetTest
    <3> QED
      BY <2>1, <2>4, <3>1, StepTable
  <2> QED
    BY <2>2, <2>3, <2>4
<1>4. CASE t \in ContractTests
  <2>1. PICK s \in SubSteps : s \in NeededSubs /\ StepTest[s] = t
    BY <1>4, StepTable, TestTable DEF NeededSubs, Needed, containsTargetTest,
       ContractTests
  <2>2. SubName[s] = "contracts" /\ Listens(s) = t
    BY <1>4, <2>1, SubForms
  <2>3. name = "contracts"
    BY <1>4 DEF Sources, ContractTests
  <2> QED
    BY <2>1, <2>2, <2>3
<1> QED
  BY <1>1, <1>2, <1>3, <1>4 DEF TestNames

(* When the workers start, and as long as they run, every node has started *)
(* every subscription that brings the events of a test case, those of a    *)
(* mint's data too, whatever websockets were opened again, if no creation  *)
(* was refused and no answer lost.                                         *)
THEOREM EveryTestIsHeard == Spec => []TestsHaveEvents
<1>1. TypeInv /\ SubsInv => TestsHaveEvents
  <2> SUFFICES ASSUME TypeInv, CreatedInv, StartedInv, mpc = "run",
                      OwnSubscriptions(tests), NEW t \in tests, NEW n \in Nodes,
                      NEW name \in Sources(t)
               PROVE  /\ name \in started[n]
                      /\ \E s \in remoteSubs :
                           s.node = n /\ s.name = name /\ Serves(s, t)
    BY DEF TestsHaveEvents, SubsInv
  <2>1. tests \subseteq TestNames
    BY TypeParts, SetupAssumption DEF MainOK
  <2>2. PICK s \in NeededSubs :
          SubName[s] = name /\ (t \in ContractTests => Listens(s) = t)
    BY <2>1, StepFor
  <2>3. PICK r \in remoteSubs : IsSubOf(r, n, s)
    BY DEF CreatedInv, HasSubs, HasSub
  <2>4. SubName[s] \in started[n]
    BY DEF StartedInv
  <2> QED
    BY <2>2, <2>3, <2>4 DEF IsSubOf, Serves
<1> QED
  BY <1>1, InitType, NextType, InitRecorded, NextRecorded, InitSubs, NextOnly,
     NextSubs, PTL DEF Spec
=============================================================================
