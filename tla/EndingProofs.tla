---------------------------- MODULE EndingProofs ----------------------------
(***************************************************************************)
(* The end of a run, for any number of mints, signals and updates of the   *)
(* gauge, and for any faults.                                              *)
(***************************************************************************)
EXTENDS Ending, TLAPS

(* The server and Start.  The server knows of a signal when it holds one   *)
(* or is on its way down; until Start asks for signals that makes them     *)
(* early, and from then on Start holds one too.                            *)
ServerKnows == srvSignal = TRUE \/ stopPc \in {"sleep", "shut", "done"}

SignalShared ==
  /\ mpc = "setup" /\ ServerKnows => early = TRUE
  /\ mpc = "loop" /\ ServerKnows => early = TRUE \/ signalCh = TRUE

(* The server learns of a signal by Signal only.                           *)
LEMMA ServerLearns ==
  ASSUME ServerStep, ServerKnows'
  PROVE  ServerKnows
  BY DEF ServerStep, H!ServerStep, H!NotifyServer, H!Listen, H!SeeSignal,
         H!ShutServer, H!CloseChannel, H!Return, ServerKnows

LEMMA SharedStep == SignalShared /\ [Next]_vars => SignalShared'
<1> SUFFICES ASSUME SignalShared, [Next]_vars
             PROVE  SignalShared'
  OBVIOUS
<1>1. CASE ServerStep
  <2>1. UNCHANGED mainVars
    BY <1>1 DEF ServerStep
  <2> QED
    BY <1>1, <2>1, ServerLearns DEF SignalShared, mainVars
<1>2. CASE Signal
  <2>1. mpc = "setup" => early' = TRUE
    BY <1>2 DEF Signal
  <2>2. mpc # "setup" => signalCh' = TRUE /\ mpc' # "setup"
    BY <1>2 DEF Signal, StartAsked
  <2>3. mpc = "setup" => mpc' \in {"setup", "killed"}
    BY <1>2 DEF Signal
  <2> QED
    BY <2>1, <2>2, <2>3 DEF SignalShared
<1>3. ASSUME UNCHANGED <<early, serverVars>>,
             \/ mpc' \notin {"setup", "loop"}
             \/ mpc' = mpc /\ signalCh' = signalCh
             \/ mpc = "setup" /\ mpc' = "loop"
      PROVE  SignalShared'
  <2>1. ServerKnows' <=> ServerKnows
    BY <1>3 DEF ServerKnows, serverVars
  <2> QED
    BY <1>3, <2>1 DEF SignalShared
<1>4. CASE FailSetup \/ NotifyStart \/ Panic
  BY <1>4, <1>3 DEF FailSetup, NotifyStart, Panic
<1>5. CASE LeaveLoop \/ EndCheck \/ FinishStep
  BY <1>5, <1>3 DEF LeaveLoop, EndCheck, AfterCheck, FinishStep
<1>6. CASE BeginCheck \/ CheckStep \/ WorkersStep \/ WaitElapses
  BY <1>6, <1>3
  DEF BeginCheck, CheckStep, WorkersStep, WaitElapses, mainVars
<1>7. CASE LoopRunsOut \/ ProtocolError \/ UNCHANGED vars
  BY <1>7, <1>3 DEF LoopRunsOut, ProtocolError, vars, mainVars
<1> QED
  BY <1>1, <1>2, <1>4, <1>5, <1>6, <1>7 DEF Next, MainStep, Ended

(* Except for a signal that comes before Start has asked for signals, the  *)
(* server goes down only when Start will end the load for the same signal. *)
THEOREM NoLoadWithoutServer == Spec => []ServerDownMeansEnding
<1>1. Init => SignalShared
  BY DEF Init, H!Init, SignalShared, ServerKnows
<1>2. SignalShared => ServerDownMeansEnding
  BY DEF SignalShared, ServerKnows, ServerDownMeansEnding
<1> QED
  BY <1>1, <1>2, SharedStep, PTL DEF Spec
-----------------------------------------------------------------------------
(* The gauge.  Its numbers are what the invariant needs besides: mints are *)
(* only added to the chain, and nobody holds a balance that is no number.  *)
GaugeTypes ==
  /\ attempted \in Nat /\ uncounted \in Nat /\ unmined \in Nat
  /\ minted \in Nat /\ sentMints \in Nat /\ gauge \in Int
  /\ w0answer \in Nat /\ answer \in Nat /\ sentRead \in Nat

GaugeInv == GaugeTypes /\ GaugeNotAhead

LEMMA Numbers == StartingBalance \in Nat /\ MaxMints \in Nat
  BY EndingAssumption

LEMMA GaugeInit == Init => GaugeInv
  BY DEF Init, B!Init, GaugeInv, GaugeTypes, GaugeNotAhead, B!GaugeNotAhead

(* Mints: attempted ones are counted later, and the chain only grows.      *)
LEMMA MintsKeepGauge ==
  ASSUME GaugeInv, B!Attempt \/ B!MintStep
  PROVE  GaugeInv'
<1> USE Numbers DEF GaugeInv, GaugeTypes, GaugeNotAhead, B!GaugeNotAhead
<1>1. CASE B!Attempt
  <2>1. PICK n \in {0, 1, 2} : unmined' = unmined + n
    BY <1>1 DEF B!Attempt, B!Accepted
  <2> QED
    BY <1>1, <2>1 DEF B!Attempt, B!zeroVars, B!checkVars
<1>2. CASE B!CountMint
  BY <1>2 DEF B!CountMint, B!zeroVars, B!checkVars
<1>3. CASE B!Mine
  BY <1>3 DEF B!Mine, B!zeroVars, B!checkVars
<1> QED
  BY <1>1, <1>2, <1>3 DEF B!MintStep

(* Worker 0 writes a balance the chain has had.                            *)
LEMMA ZeroKeepsGauge ==
  ASSUME GaugeInv, B!ZeroStep
  PROVE  GaugeInv'
<1> USE Numbers DEF GaugeInv, GaugeTypes, GaugeNotAhead, B!GaugeNotAhead
<1>1. CASE B!ZeroQueries
  BY <1>1 DEF B!ZeroQueries, B!getMintRecipientBalance, B!mintVars,
              B!checkVars
<1>2. CASE B!ZeroSets
  BY <1>2 DEF B!ZeroSets, B!mintVars, B!checkVars
<1> QED
  BY <1>1, <1>2 DEF B!ZeroStep

(* So does the check; after a failed query it writes less than nothing.    *)
LEMMA CheckKeepsGauge ==
  ASSUME GaugeInv, B!CheckStep \/ B!Begin \/ B!Cancelled \/ B!WaitElapses
  PROVE  GaugeInv'
<1> USE Numbers DEF GaugeInv, GaugeTypes, GaugeNotAhead, B!GaugeNotAhead
<1>1. CASE B!Query
  BY <1>1 DEF B!Query, B!getMintRecipientBalance, B!mintVars, B!zeroVars
<1>2. CASE B!SetGauge
  BY <1>2 DEF B!SetGauge, B!mintVars, B!zeroVars
<1>3. CASE B!LoopHead \/ B!ReadSent
  BY <1>3 DEF B!LoopHead, B!ReadSent, B!mintVars, B!zeroVars
<1>4. CASE B!Compare \/ B!Verdict
  BY <1>4 DEF B!Compare, B!Verdict, B!Return, B!mintVars, B!zeroVars
<1>5. CASE B!Begin \/ B!Cancelled \/ B!WaitElapses
  BY <1>5 DEF B!Begin, B!Cancelled, B!Return, B!WaitElapses, B!mintVars,
              B!zeroVars
<1> QED
  BY <1>1, <1>2, <1>3, <1>4, <1>5 DEF B!CheckStep

(* A step of the whole is one of the parts, or leaves the balance alone.   *)
LEMMA BalanceStep ==
  ASSUME [Next]_vars
  PROVE  \/ B!Attempt \/ B!MintStep \/ B!ZeroStep
         \/ B!CheckStep \/ B!Begin \/ B!Cancelled \/ B!WaitElapses
         \/ UNCHANGED balanceVars
  BY DEF Next, MainStep, NotifyStart, LeaveLoop, BeginCheck, CheckStep,
         EndCheck, FinishStep, FailSetup, Panic, ServerStep, WorkersStep,
         Signal, LoopRunsOut, ProtocolError, WaitElapses, Ended, vars

LEMMA GaugeStep == GaugeInv /\ [Next]_vars => GaugeInv'
<1> SUFFICES ASSUME GaugeInv, [Next]_vars
             PROVE  GaugeInv'
  OBVIOUS
<1>1. CASE UNCHANGED balanceVars
  BY <1>1 DEF balanceVars, GaugeInv, GaugeTypes, GaugeNotAhead,
              B!GaugeNotAhead
<1> QED
  BY <1>1, BalanceStep, MintsKeepGauge, ZeroKeepsGauge, CheckKeepsGauge

LEMMA GaugeInvariant == Spec => []GaugeInv
  BY GaugeInit, GaugeStep, PTL DEF Spec

(* mintBalanceGauge never shows tokens that are not there, whoever set it  *)
(* last, from however old or failed a query.                               *)
THEOREM GaugeIsBehind == Spec => []GaugeNotAhead
<1>1. GaugeInv => GaugeNotAhead
  BY DEF GaugeInv
<1> QED
  BY <1>1, GaugeInvariant, PTL

(* When detectDelinquentBalance passes, at least as many tokens are on the *)
(* chain as mints had been counted when it last read the counter: whatever *)
(* was minted, counted or written to the gauge between its two reads, what *)
(* it read from the gauge is no more than the chain has.                   *)
THEOREM PassIsSound == Spec => PassMeansArrived
<1> DEFINE Passed == bpc # "reached" /\ bpc' = "reached" => minted >= sentRead
<1>1. ASSUME GaugeInv, [Next]_vars
      PROVE  Passed
  <2>1. CASE B!Verdict
    BY <1>1, <2>1
    DEF B!Verdict, B!Return, B!BalanceReached, GaugeInv, GaugeTypes,
        GaugeNotAhead, B!GaugeNotAhead
  <2>2. CASE B!LoopHead \/ B!Query \/ B!SetGauge \/ B!ReadSent \/ B!Compare
    BY <2>2 DEF B!LoopHead, B!Query, B!SetGauge, B!ReadSent, B!Compare
  <2>3. CASE B!Attempt \/ B!MintStep \/ B!ZeroStep
    BY <2>3 DEF B!Attempt, B!MintStep, B!CountMint, B!Mine, B!ZeroStep,
                B!ZeroQueries, B!ZeroSets, B!checkVars
  <2>4. CASE B!Begin \/ B!Cancelled \/ B!WaitElapses
    BY <2>4 DEF B!Begin, B!Cancelled, B!Return, B!WaitElapses
  <2>5. CASE UNCHANGED balanceVars
    BY <2>5 DEF balanceVars
  <2> QED
    BY <1>1, BalanceStep, <2>1, <2>2, <2>3, <2>4, <2>5 DEF B!CheckStep
<1>2. GaugeInv /\ [Next]_vars => [Passed]_(B!balanceVars)
  BY <1>1
<1> QED
  BY <1>2, GaugeInvariant, PTL DEF Spec, PassMeansArrived, B!PassMeansArrived
-----------------------------------------------------------------------------
(* From the end of the load to a success.  The check starts after the load *)
(* is over, so what it reads is at least what had been counted by then,    *)
(* and its verdict is the last thing that happens to bpc.                  *)
StopInv ==
  /\ sentAtStop \in Nat /\ sentAtStop <= sentMints
  /\ mpc \in {"setup", "loop"} => bpc = "off"
  /\ bpc \in {"compareGauge", "verdictGauge"} => sentRead >= sentAtStop
  /\ bpc = "reached" => minted >= sentAtStop
  /\ BalanceWait /\ DelinquentAction = "exit"
       /\ mpc \in {"drain", "sleep", "cleanup", "exited"} => bpc = "reached"

(* Mints that are counted or mined later do it no harm.                    *)
LEMMA WorkersKeepStop ==
  ASSUME GaugeInv, StopInv, WorkersStep
  PROVE  StopInv'
<1>1. UNCHANGED <<mpc, sentAtStop, bpc, sentRead>>
  BY DEF WorkersStep, mainVars, B!Attempt, B!MintStep, B!CountMint, B!Mine,
         B!ZeroStep, B!ZeroQueries, B!ZeroSets, B!checkVars
<1>2. sentMints' >= sentMints /\ minted' >= minted
      /\ sentMints' \in Nat /\ minted' \in Nat
  BY DEF WorkersStep, B!Attempt, B!MintStep, B!CountMint, B!Mine, B!ZeroStep,
         B!ZeroQueries, B!ZeroSets, B!mintVars, GaugeInv, GaugeTypes
<1> QED
  BY <1>1, <1>2 DEF StopInv, GaugeInv, GaugeTypes

(* The check: both reads of a comparison come after the end of the load.   *)
LEMMA CheckKeepsStop ==
  ASSUME GaugeInv, StopInv, BeginCheck \/ CheckStep \/ WaitElapses
  PROVE  StopInv'
<1> USE DEF StopInv
<1>1. UNCHANGED <<mpc, sentAtStop, sentMints, minted>>
  BY DEF BeginCheck, CheckStep, WaitElapses, mainVars, B!Begin, B!CheckStep,
         B!Cancelled, B!WaitElapses, B!LoopHead, B!Query, B!SetGauge,
         B!ReadSent, B!Compare, B!Verdict, B!mintVars
<1>2. CASE BeginCheck
  BY <1>1, <1>2 DEF BeginCheck, B!Begin
<1>3. CASE WaitElapses
  BY <1>1, <1>3 DEF WaitElapses, B!WaitElapses
<1>4. CASE CheckStep
  <2>0. mpc = "check"
    BY <1>4 DEF CheckStep
  <2>1. CASE B!LoopHead \/ B!Query \/ B!SetGauge \/ B!Compare
    BY <1>1, <2>0, <2>1 DEF B!LoopHead, B!Query, B!SetGauge, B!Compare
  <2>2. CASE B!ReadSent
    BY <1>1, <2>0, <2>2 DEF B!ReadSent, GaugeInv, GaugeTypes
  <2>3. CASE B!Verdict
    BY <1>1, <2>0, <2>3
    DEF B!Verdict, B!Return, B!BalanceReached, GaugeInv, GaugeTypes,
        GaugeNotAhead, B!GaugeNotAhead
  <2>4. CASE B!Cancelled
    BY <1>1, <2>0, <2>4 DEF B!Cancelled, B!Return
  <2> QED
    BY <1>4, <2>1, <2>2, <2>3, <2>4 DEF CheckStep, B!CheckStep
<1> QED
  BY <1>2, <1>3, <1>4

LEMMA StopStep == GaugeInv /\ StopInv /\ [Next]_vars => StopInv'
<1> SUFFICES ASSUME GaugeInv, StopInv, [Next]_vars
             PROVE  StopInv'
  OBVIOUS
<1>1. CASE LeaveLoop
  BY <1>1 DEF LeaveLoop, balanceVars, StopInv, GaugeInv, GaugeTypes
<1>2. ASSUME UNCHANGED <<sentAtStop, sentMints, minted, bpc, sentRead>>,
             \/ mpc' = mpc
             \/ mpc = "setup" /\ mpc' = "loop"
             \/ mpc' \in {"failed", "panicked", "killed"}
      PROVE  StopInv'
  BY <1>2 DEF StopInv
<1>3. CASE FailSetup \/ NotifyStart \/ Panic
  BY <1>2, <1>3 DEF FailSetup, NotifyStart, Panic, balanceVars
<1>4. CASE Signal \/ LoopRunsOut \/ ProtocolError
  BY <1>2, <1>4 DEF Signal, LoopRunsOut, ProtocolError, balanceVars
<1>5. CASE ServerStep \/ UNCHANGED vars
  BY <1>2, <1>5 DEF ServerStep, vars, mainVars, balanceVars
<1>6. CASE EndCheck
  BY <1>6 DEF EndCheck, AfterCheck, balanceVars, StopInv
<1>7. CASE FinishStep
  BY <1>7 DEF FinishStep, balanceVars, StopInv
<1> QED
  BY <1>1, <1>3, <1>4, <1>5, <1>6, <1>7, WorkersKeepStop, CheckKeepsStop
  DEF Next, MainStep, Ended

(* With the balance check on and DelinquentAction "exit", a run that ends  *)
(* with success has on the chain at least the mints that had been counted  *)
(* when its load was over.                                                 *)
THEOREM SuccessIsSound == Spec => []SuccessMeansMinted
<1>1. Init => StopInv
  BY DEF Init, B!Init, StopInv
<1>2. StopInv => SuccessMeansMinted
  BY DEF StopInv, SuccessMeansMinted
<1> QED
  BY <1>1, <1>2, StopStep, GaugeInvariant, PTL DEF Spec
-----------------------------------------------------------------------------
(* Types, part by part: Start, the check and the server each keep their    *)
(* own, and leave those of the others alone.                               *)
StartTypeOK ==
  /\ mpc \in {"setup", "loop", "check", "drain", "sleep", "cleanup", "exited",
              "panicked", "failed", "killed"}
  /\ {signalCh, early, loopOver, ctxDone} \subseteq BOOLEAN
  /\ signals \in 0 .. MaxSignals /\ sentAtStop \in Nat

LEMMA BalanceTypeStep ==
  ASSUME B!BalanceTypeOK, [Next]_vars
  PROVE  B!BalanceTypeOK'
<1>0. MaxMints \in Nat /\ MaxUpdates \in Nat /\ StartingBalance \in Nat
  BY EndingAssumption
<1>1. B!getMintRecipientBalance \in Nat
  BY <1>0 DEF B!getMintRecipientBalance, B!BalanceTypeOK
<1> USE <1>0 DEF B!BalanceTypeOK
<1>2. CASE B!Attempt
  <2>1. PICK n \in {0, 1, 2} : unmined' = unmined + n
    BY <1>2 DEF B!Attempt, B!Accepted
  <2> QED
    BY <1>2, <2>1 DEF B!Attempt, B!zeroVars, B!checkVars
<1>3. CASE B!MintStep
  BY <1>3 DEF B!MintStep, B!CountMint, B!Mine, B!zeroVars, B!checkVars
<1>4. CASE B!ZeroStep
  BY <1>1, <1>4
  DEF B!ZeroStep, B!ZeroQueries, B!ZeroSets, B!mintVars, B!checkVars
<1>5. CASE B!CheckStep
  <2>1. CASE B!Query
    <3>1. answer' \in Nat
      BY <1>1, <2>1 DEF B!Query
    <3>2. failed' \in BOOLEAN
      <4>1. failed' = FALSE \/ failed' = TRUE
        BY <2>1, Zenon DEF B!Query
      <4> QED
        BY <4>1, Zenon
    <3> QED
      BY <2>1, <3>1, <3>2 DEF B!Query, B!mintVars, B!zeroVars
  <2>2. CASE B!SetGauge
    <3>1. gauge' \in Int
      BY <1>0, <2>2 DEF B!SetGauge
    <3>2. answer' \in Nat /\ failed' \in BOOLEAN
      BY <2>2 DEF B!SetGauge
    <3>3. bpc' \in {"loop", "compare"}
      BY <2>2 DEF B!SetGauge
    <3> QED
      BY <2>2, <3>1, <3>2, <3>3 DEF B!SetGauge, B!mintVars, B!zeroVars
  <2>3. CASE B!LoopHead \/ B!ReadSent
    BY <2>3 DEF B!LoopHead, B!ReadSent, B!mintVars, B!zeroVars
  <2>4. CASE B!Compare
    BY <2>4 DEF B!Compare, B!mintVars, B!zeroVars
  <2>5. CASE B!Verdict
    <3>1. waitOver' \in BOOLEAN
      BY <2>5, Zenon DEF B!Verdict, B!Return
    <3>2. bpc' \in {"reached", "missed"} /\ sentRead' = 0
      BY <2>5 DEF B!Verdict, B!Return
    <3> QED
      BY <2>5, <3>1, <3>2 DEF B!Verdict, B!mintVars, B!zeroVars
  <2> QED
    BY <1>5, <2>1, <2>2, <2>3, <2>4, <2>5 DEF B!CheckStep
<1>6. CASE B!Begin \/ B!Cancelled \/ B!WaitElapses
  BY <1>6 DEF B!Begin, B!Cancelled, B!Return, B!WaitElapses, B!mintVars,
              B!zeroVars
<1>7. CASE UNCHANGED balanceVars
  BY <1>7 DEF balanceVars
<1> QED
  BY BalanceStep, <1>2, <1>3, <1>4, <1>5, <1>6, <1>7

LEMMA ServerTypeStep ==
  ASSUME H!ServerTypeOK, [Next]_vars
  PROVE  H!ServerTypeOK'
<1> USE DEF H!ServerTypeOK
<1>1. CASE ServerStep
  BY <1>1 DEF ServerStep, H!ServerStep, H!NotifyServer, H!Listen, H!SeeSignal,
              H!ShutServer, H!CloseChannel, H!Return
<1>2. CASE Signal
  BY <1>2 DEF Signal, ServerAsked
<1>3. CASE UNCHANGED serverVars
  BY <1>3 DEF serverVars
<1>4. ServerStep \/ Signal \/ UNCHANGED serverVars
  BY DEF Next, MainStep, NotifyStart, LeaveLoop, BeginCheck, CheckStep,
         EndCheck, FinishStep, FailSetup, Panic, WorkersStep, LoopRunsOut,
         ProtocolError, WaitElapses, Ended, vars
<1> QED
  BY <1>1, <1>2, <1>3, <1>4

LEMMA StartTypeStep ==
  ASSUME StartTypeOK, sentMints \in Nat, [Next]_vars
  PROVE  StartTypeOK'
<1>0. MaxSignals \in Nat
  BY EndingAssumption
<1>1. UNCHANGED mainVars => StartTypeOK'
  BY DEF StartTypeOK, mainVars
<1>2. CASE NotifyStart \/ FailSetup \/ LeaveLoop \/ Panic
  BY <1>2 DEF NotifyStart, FailSetup, LeaveLoop, Panic, StartTypeOK
<1>3. CASE EndCheck \/ FinishStep
  BY <1>3 DEF EndCheck, AfterCheck, FinishStep, StartTypeOK
<1>4. CASE Signal
  <2>1. mpc' \in {mpc, "killed"} /\ signals' \in 0 .. MaxSignals
    BY <1>0, <1>4 DEF Signal, StartTypeOK
  <2>2. UNCHANGED <<loopOver, ctxDone, sentAtStop>>
    BY <1>4 DEF Signal
  <2>3. signalCh' \in BOOLEAN /\ early' \in BOOLEAN
    BY <1>4 DEF Signal
  <2> QED
    BY <2>1, <2>2, <2>3 DEF StartTypeOK
<1>5. CASE LoopRunsOut \/ ProtocolError
  BY <1>5 DEF LoopRunsOut, ProtocolError, StartTypeOK
<1>6. CASE BeginCheck \/ CheckStep \/ ServerStep \/ WorkersStep \/ WaitElapses
             \/ UNCHANGED vars
  BY <1>1, <1>6
  DEF BeginCheck, CheckStep, ServerStep, WorkersStep, WaitElapses, vars
<1> QED
  BY <1>2, <1>3, <1>4, <1>5, <1>6 DEF Next, MainStep, Ended

(* Types and bounds of Start, the balance check and the server.            *)
THEOREM EndingTypeCorrect == Spec => []EndingTypeOK
<1>1. EndingTypeOK <=> StartTypeOK /\ B!BalanceTypeOK /\ H!ServerTypeOK
  BY DEF EndingTypeOK, StartTypeOK
<1>2. {MaxSignals, MaxMints, MaxUpdates} \subseteq Nat
  BY EndingAssumption
<1>3. Init => StartTypeOK
  <2> SUFFICES ASSUME Init PROVE StartTypeOK
    OBVIOUS
  <2>1. {signalCh, early, loopOver, ctxDone} \subseteq BOOLEAN
    BY Zenon DEF Init
  <2>2. mpc = "setup" /\ signals \in 0 .. MaxSignals /\ sentAtStop \in Nat
    BY <1>2 DEF Init
  <2> QED
    BY <2>1, <2>2 DEF StartTypeOK
<1>4. Init => B!BalanceTypeOK /\ H!ServerTypeOK
  <2> SUFFICES ASSUME Init PROVE B!BalanceTypeOK /\ H!ServerTypeOK
    OBVIOUS
  <2>1. /\ failed \in BOOLEAN /\ waitOver \in BOOLEAN
        /\ serving \in BOOLEAN /\ srvSignal \in BOOLEAN
    BY Zenon DEF Init, B!Init, H!Init
  <2>2. H!ServerTypeOK
    BY <2>1 DEF Init, H!Init, H!ServerTypeOK
  <2>3. attempted \in 0 .. MaxMints /\ updates \in 0 .. MaxUpdates
    BY <1>2 DEF Init, B!Init
  <2>4. B!BalanceTypeOK
    BY <2>1, <2>3 DEF Init, B!Init, B!BalanceTypeOK
  <2> QED
    BY <2>2, <2>4
<1>5. B!BalanceTypeOK => sentMints \in Nat
  BY DEF B!BalanceTypeOK
<1> QED
  BY <1>1, <1>3, <1>4, <1>5, StartTypeStep, BalanceTypeStep, ServerTypeStep,
     PTL
  DEF Spec
=============================================================================
