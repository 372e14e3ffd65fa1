------------------------------- MODULE Ending -------------------------------
(***************************************************************************)
(* How a run ends: the main goroutine (Start in internal/perf/perf.go)     *)
(* with the balance check (MintBalance) in it, and the HTTP server         *)
(* (HttpServer).  A signal goes to whoever has asked for signals by then,  *)
(* and the process lives as long as Start.  What Start does before the     *)
(* load is in Setup, and its loop, the drain and the report in PerfRunner. *)
(***************************************************************************)
EXTENDS Integers, FiniteSets

CONSTANTS
  BalanceWait,       \* is cfg.TokenOptions.MaxTokenBalanceWait set
  DelinquentAction,  \* cfg.DelinquentAction: "exit" or "log"
  MaxSignals,        \* bound: how many signals are sent
  StartingBalance,   \* of MintBalance, as the next four
  Fungible,
  Faults,
  MaxMints,
  MaxUpdates,
  PortTaken          \* of HttpServer

ASSUME EndingAssumption ==
  /\ BalanceWait \in BOOLEAN /\ DelinquentAction \in {"exit", "log"}
  /\ {MaxSignals, StartingBalance, MaxMints, MaxUpdates} \subseteq Nat
  /\ Faults \subseteq {"refused", "retried", "query_error", "protocol_error"}
  /\ Fungible \in BOOLEAN /\ PortTaken \in BOOLEAN

VARIABLES
  mpc,         \* where Start is
  signalCh,    \* is a signal waiting in Start's channel
  early,       \* did a signal come before Start asked for signals
  signals,     \* how many have been sent
  loopOver,    \* must the loop end (length, MaxActions, delinquency)
  ctxDone,     \* has pr.ctx been cancelled, after a protocol error
  sentAtStop,  \* the mints counted when the loop was left (history)
  attempted, uncounted, unmined, minted, sentMints, gauge,  \* of MintBalance
  w0pc, w0answer, updates, bpc, answer, sentRead, failed, waitOver,
  runPc, stopPc, serving, srvSignal                         \* of HttpServer

B == INSTANCE MintBalance
H == INSTANCE HttpServer

mainVars == <<mpc, signalCh, early, signals, loopOver, ctxDone, sentAtStop>>
balanceVars == <<attempted, uncounted, unmined, minted, sentMints, gauge, w0pc,
                 w0answer, updates, bpc, answer, sentRead, failed,
                 waitOver>>
serverVars == <<runPc, stopPc, serving, srvSignal>>
vars == <<mainVars, balanceVars, serverVars>>

Alive == mpc \notin {"exited", "panicked", "failed", "killed"}

Init ==
  /\ mpc = "setup" /\ signalCh = FALSE /\ early = FALSE /\ signals = 0
  /\ loopOver = FALSE /\ ctxDone = FALSE /\ sentAtStop = 0
  /\ B!Init /\ H!Init
-----------------------------------------------------------------------------
(* Start.  A setup that fails ends the process without more ado.           *)

FailSetup ==
  /\ mpc = "setup" /\ mpc' = "failed"
  /\ UNCHANGED <<signalCh, early, signals, loopOver, ctxDone, sentAtStop,
                 balanceVars, serverVars>>

(* signal.Notify, after the workers have been started.                     *)
NotifyStart ==
  /\ mpc = "setup" /\ mpc' = "loop"
  /\ UNCHANGED <<signalCh, early, signals, loopOver, ctxDone, sentAtStop,
                 balanceVars, serverVars>>

(* The perfLoop ends for a reason of its own or by a signal; loopOver is   *)
(* of no use any more.                                                     *)
LeaveLoop ==
  /\ mpc = "loop" /\ mpc' = "check"
  /\ \/ loopOver /\ UNCHANGED signalCh
     \/ signalCh /\ signalCh' = FALSE
  /\ loopOver' = FALSE /\ sentAtStop' = sentMints
  /\ UNCHANGED <<early, signals, ctxDone, balanceVars, serverVars>>

(* A cancelled context fails rateLimiter.Wait, if the buffer of the        *)
(* dispatched loops still has room for Start to get there.                 *)
Panic ==
  /\ mpc = "loop" /\ ctxDone /\ mpc' = "panicked"
  /\ UNCHANGED <<signalCh, early, signals, loopOver, ctxDone, sentAtStop,
                 balanceVars, serverVars>>

BeginCheck ==
  /\ mpc = "check" /\ BalanceWait /\ B!Begin
  /\ UNCHANGED <<mainVars, serverVars>>

CheckStep ==
  /\ mpc = "check"
  /\ B!CheckStep \/ (ctxDone /\ B!Cancelled)
  /\ UNCHANGED <<mainVars, serverVars>>

(* detectDelinquentBalance has returned.                                   *)
AfterCheck ==
  IF bpc = "missed" /\ DelinquentAction = "exit" THEN "panicked" ELSE "drain"

EndCheck ==
  /\ mpc = "check" /\ (~BalanceWait \/ bpc \in {"reached", "missed"})
  /\ mpc' = AfterCheck
  /\ UNCHANGED <<signalCh, early, signals, loopOver, ctxDone, sentAtStop,
                 balanceVars, serverVars>>

(* The drain and the report, the last five seconds, cleanup: each ends by  *)
(* itself, and none of them looks at signals.                              *)
FinishStep ==
  /\ \/ mpc = "drain" /\ mpc' = "sleep"
     \/ mpc = "sleep" /\ mpc' = "cleanup"
     \/ mpc = "cleanup" /\ mpc' = "exited"
  /\ UNCHANGED <<signalCh, early, signals, loopOver, ctxDone, sentAtStop,
                 balanceVars, serverVars>>
-----------------------------------------------------------------------------
(* The other goroutines and the environment.                               *)

ServerStep == H!ServerStep /\ UNCHANGED <<mainVars, balanceVars>>

(* Workers are started at the end of the setup and mint to the very end;   *)
(* what they do after the check concerns nobody, and is left out.          *)
WorkersStep ==
  /\ mpc \in {"loop", "check"}
  /\ B!Attempt \/ B!MintStep \/ (BalanceWait /\ B!ZeroStep)
  /\ UNCHANGED <<mainVars, serverVars>>

AskLate == mpc \notin {"setup", "loop"}                           \* mutant
StartAsked == mpc # "setup"
ServerAsked == stopPc # "start"

(* The default action of a signal nobody has asked for ends the process.   *)
(* A channel holds one signal; the runtime drops what does not fit.        *)
Signal ==
  /\ signals < MaxSignals /\ signals' = signals + 1
  /\ mpc' = IF StartAsked \/ ServerAsked THEN mpc ELSE "killed"
  /\ signalCh' = (signalCh \/ StartAsked)
  /\ srvSignal' = (srvSignal \/ ServerAsked)
  /\ early' = (early \/ mpc = "setup")
  /\ UNCHANGED <<loopOver, ctxDone, sentAtStop, balanceVars, runPc, stopPc,
                 serving>>

(* After the check nobody looks at the context any more.                   *)
LoopRunsOut ==
  /\ mpc \in {"setup", "loop"} /\ ~loopOver /\ loopOver' = TRUE
  /\ UNCHANGED <<mpc, signalCh, early, signals, ctxDone, sentAtStop,
                 balanceVars, serverVars>>

ProtocolError ==
  /\ mpc \in {"setup", "loop", "check"}
  /\ "protocol_error" \in Faults /\ ~ctxDone /\ ctxDone' = TRUE
  /\ UNCHANGED <<mpc, signalCh, early, signals, loopOver, sentAtStop,
                 balanceVars, serverVars>>

WaitElapses == B!WaitElapses /\ UNCHANGED <<mainVars, serverVars>>
-----------------------------------------------------------------------------
MainStep ==
  NotifyStart \/ LeaveLoop \/ BeginCheck \/ CheckStep \/ EndCheck \/ FinishStep

Ended == ~Alive /\ UNCHANGED vars

Next ==
  \/ /\ Alive
     /\ \/ MainStep \/ FailSetup \/ Panic \/ ServerStep
        \/ WorkersStep \/ Signal \/ LoopRunsOut \/ ProtocolError \/ WaitElapses
  \/ Ended

Spec == Init /\ [][Next]_vars

(* Start and the server's goroutines run on, requests are answered, and    *)
(* the balance wait is limited.  Neither a signal nor an end of the loop   *)
(* is assumed to come, and the chain need not mine.                        *)
FairSpec ==
  /\ Spec
  /\ WF_vars(Alive /\ MainStep)
  /\ WF_vars(Alive /\ ServerStep)
  /\ WF_vars(Alive /\ WaitElapses)
-----------------------------------------------------------------------------
(* Properties.                                                             *)

(* Types of Start's state and of the parts: a mint is counted once.        *)
EndingTypeOK ==
  /\ mpc \in {"setup", "loop", "check", "drain", "sleep", "cleanup", "exited",
              "panicked", "failed", "killed"}
  /\ {signalCh, early, loopOver, ctxDone} \subseteq BOOLEAN
  /\ signals \in 0 .. MaxSignals /\ sentAtStop \in Nat
  /\ B!BalanceTypeOK /\ H!ServerTypeOK

(* The balance check's own properties, with everything else around it.     *)
GaugeNotAhead == B!GaugeNotAhead
PassMeansArrived == B!PassMeansArrived

(* One signal has two readers.  Unless it came before Start asked for      *)
(* signals, a server on its way down means that the load ends too: no test *)
(* goes on without its /metrics.                                           *)
ServerDownMeansEnding ==
  mpc = "loop" /\ stopPc \in {"sleep", "shut", "done"} /\ ~early => signalCh

(* With the balance check and DelinquentAction "exit", a run that ends     *)
(* with success has at least as many tokens on the chain as mints had been *)
(* counted when its load was over, whatever was refused, failed or was     *)
(* written to the gauge in between.                                        *)
SuccessMeansMinted ==
  BalanceWait /\ DelinquentAction = "exit" /\ mpc = "exited"
    => minted >= sentAtStop

(* A signal that Start holds ends the process, in the midst of a balance   *)
(* check that cannot succeed as well, although nobody reads signals then.  *)
SignalEndsRun == signalCh ~> ~Alive

(* Mints all counted and on the chain before the last query of the check   *)
(* are found there, unless the query fails or cannot tell (Fungible):      *)
(* neither a gauge left behind by a failed query nor worker 0's updates    *)
(* make the check miss them.                                               *)
SettledPasses ==
  (mpc = "check" /\ bpc = "wait" /\ B!Settled /\ ~Fungible)
    ~> (bpc = "reached" \/ failed \/ ctxDone)
=============================================================================
