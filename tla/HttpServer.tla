----------------------------- MODULE HttpServer -----------------------------
(***************************************************************************)
(* The server of /status and /metrics (internal/server/server.go).  Run    *)
(* listens in one goroutine; gracefulShutdown waits in another for a       *)
(* signal on a channel of its own, sleeps, and closes the server.  It is   *)
(* started next to perfRunner.Start (cmd/run.go), which reacts to signals  *)
(* by itself.                                                              *)
(***************************************************************************)
CONSTANT PortTaken  \* may the listening port be in use

VARIABLES
  runPc,     \* where Run is
  stopPc,    \* where gracefulShutdown is
  serving,   \* does the server accept requests
  srvSignal  \* is a signal waiting in gracefulShutdown's channel

serverVars == <<runPc, stopPc, serving, srvSignal>>

Init == /\ runPc = "start" /\ stopPc = "start"
        /\ serving = FALSE /\ srvSignal = FALSE

(* signal.Notify in gracefulShutdown.                                      *)
NotifyServer == /\ stopPc = "start" /\ stopPc' = "wait"
                /\ UNCHANGED <<runPc, serving, srvSignal>>

(* ListenAndServe; after Shutdown it returns at once, and a listener that  *)
(* cannot be had is only logged.                                           *)
Listen ==
  /\ runPc = "start"
  /\ \/ /\ stopPc \notin {"shut", "done"}
        /\ runPc' = "serve" /\ serving' = TRUE
     \/ /\ PortTaken \/ stopPc \in {"shut", "done"}
        /\ runPc' = "wait" /\ UNCHANGED serving
  /\ UNCHANGED <<stopPc, srvSignal>>

SeeSignal ==
  /\ stopPc = "wait" /\ srvSignal
  /\ stopPc' = "sleep" /\ srvSignal' = FALSE
  /\ UNCHANGED <<runPc, serving>>

(* Shutdown: five seconds, srv.Shutdown, which makes ListenAndServe        *)
(* return, then close(hs.shutdown).                                        *)
ShutServer ==
  /\ stopPc = "sleep" /\ stopPc' = "shut"
  /\ serving' = FALSE
  /\ runPc' = IF runPc = "serve" THEN "wait" ELSE runPc
  /\ UNCHANGED srvSignal

CloseChannel == /\ stopPc = "shut" /\ stopPc' = "done"
                /\ UNCHANGED <<runPc, serving, srvSignal>>

Return == /\ runPc = "wait" /\ stopPc = "done" /\ runPc' = "returned"
          /\ UNCHANGED <<stopPc, serving, srvSignal>>

ServerStep ==
  NotifyServer \/ Listen \/ SeeSignal \/ ShutServer \/ CloseChannel \/ Return

(* Types of the state of Run and gracefulShutdown.                         *)
ServerTypeOK ==
  /\ runPc \in {"start", "serve", "wait", "returned"}
  /\ stopPc \in {"start", "wait", "sleep", "shut", "done"}
  /\ serving \in BOOLEAN /\ srvSignal \in BOOLEAN
=============================================================================
