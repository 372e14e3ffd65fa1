----------------------------- MODULE MintBalance -----------------------------
(***************************************************************************)
(* The check that minted tokens arrived (detectDelinquentBalance in        *)
(* internal/perf/perf.go).  Start polls the balance of the recipient until *)
(* it equals the number of mints the workers attempted, or until           *)
(* MaxTokenBalanceWait is over.  The balance passes through one gauge,     *)
(* mintBalanceGauge, which worker 0 also sets at the end of every tenth    *)
(* loop.  Nobody has told the workers to stop yet.                         *)
(*                                                                         *)
(* The chain is external: it mines what FireFly accepted, in any order.    *)
(***************************************************************************)
EXTENDS Integers, FiniteSets

CONSTANTS
  StartingBalance,  \* mintStartingBalance, queried during the setup
  Fungible,         \* is TokenType "fungible" (the default)
  Faults,           \* the kinds of fault that may happen ("protocol_error" is
                    \* for whoever cancels the context)
  MaxMints,         \* bound: how many mints the workers attempt
  MaxUpdates        \* bound: how often worker 0 updates the gauge

VARIABLES
  attempted,   \* mints a worker has begun to submit
  uncounted,   \* those whose POST has not returned
  unmined,     \* those FireFly has accepted and the chain has not mined
  minted,      \* those on the chain
  sentMints,   \* sentMintsCounter
  gauge,       \* mintBalanceGauge
  w0pc,        \* is worker 0 idle, or about to set the gauge
  w0answer,    \* the balance it has got
  updates,     \* updates it has made
  bpc,         \* where detectDelinquentBalance is
  answer,      \* the balance Start has got
  sentRead,    \* sentMintsCounter as Start has read it for a comparison
  failed,      \* did the query fail
  waitOver     \* is time.Now() past balanceEndTime

mintVars  == <<attempted, uncounted, unmined, minted, sentMints>>
zeroVars  == <<w0pc, w0answer, updates>>
checkVars == <<bpc, answer, sentRead, failed, waitOver>>
balanceVars == <<mintVars, zeroVars, checkVars, gauge>>

Init ==
  /\ attempted = 0 /\ uncounted = 0 /\ unmined = 0 /\ minted = 0
  /\ sentMints = 0 /\ gauge = 0
  /\ w0pc = "idle" /\ w0answer = 0 /\ updates = 0
  /\ bpc = "off" /\ answer = 0 /\ sentRead = 0
  /\ failed = FALSE /\ waitOver = FALSE

(* The query asks for the number of the recipient's balance rows           *)
(* (response.Total), not for what is in them: one row for each token that  *)
(* is minted in a non-fungible pool, and one for a fungible pool.          *)
getMintRecipientBalance ==
  StartingBalance + (IF Fungible /\ minted > 0 THEN 1 ELSE minted)
-----------------------------------------------------------------------------
(* The workers' mints.  RunOnce counts a mint when its POST has returned,  *)
(* with or without an error.  When an answer got lost the client posts     *)
(* again, and two mints are accepted (no idempotency key).                 *)

Accepted == {1} \union (IF "refused" \in Faults THEN {0} ELSE {})
                \union (IF "retried" \in Faults THEN {2} ELSE {})

Attempt ==
  /\ attempted < MaxMints /\ attempted' = attempted + 1
  /\ uncounted' = uncounted + 1
  /\ \E n \in Accepted : unmined' = unmined + n
  /\ UNCHANGED <<minted, sentMints, zeroVars, checkVars, gauge>>

CountTwice ==                                                    \* mutant
  /\ uncounted > 0
  /\ uncounted' = uncounted - 2 /\ sentMints' = sentMints + 2
  /\ UNCHANGED <<attempted, unmined, minted, zeroVars, checkVars, gauge>>

CountMint ==
  /\ uncounted > 0
  /\ uncounted' = uncounted - 1 /\ sentMints' = sentMints + 1
  /\ UNCHANGED <<attempted, unmined, minted, zeroVars, checkVars, gauge>>

Mine ==
  /\ unmined > 0
  /\ unmined' = unmined - 1 /\ minted' = minted + 1
  /\ UNCHANGED <<attempted, uncounted, sentMints, zeroVars, checkVars, gauge>>
-----------------------------------------------------------------------------
(* Worker 0 at the end of its loop: a failed query leaves the gauge alone. *)

ZeroQueries ==
  /\ w0pc = "idle" /\ updates < MaxUpdates
  /\ w0pc' = "set" /\ w0answer' = getMintRecipientBalance
  /\ updates' = updates + 1
  /\ UNCHANGED <<mintVars, checkVars, gauge>>

ZeroSets ==
  /\ w0pc = "set" /\ w0pc' = "idle" /\ w0answer' = 0
  /\ gauge' = w0answer - StartingBalance
  /\ UNCHANGED <<mintVars, updates, checkVars>>
-----------------------------------------------------------------------------
(* detectDelinquentBalance.                                                *)

Begin == /\ bpc = "off" /\ bpc' = "loop"
         /\ UNCHANGED <<mintVars, zeroVars, answer, sentRead, failed,
                        waitOver, gauge>>

NeverOver ==                                                     \* mutant
  /\ bpc = "loop" /\ bpc' = "wait"
  /\ UNCHANGED <<mintVars, zeroVars, answer, sentRead, failed, waitOver, gauge>>

LoopHead ==
  /\ bpc = "loop"
  /\ bpc' = IF waitOver THEN "verdict" ELSE "wait"
  /\ UNCHANGED <<mintVars, zeroVars, answer, sentRead, failed, waitOver, gauge>>

(* The end of the check, and with it of balanceEndTime.                    *)
Return(verdict) == bpc' = verdict /\ waitOver' = FALSE

Cancelled ==
  /\ bpc = "wait" /\ Return("missed")
  /\ UNCHANGED <<mintVars, zeroVars, answer, sentRead, failed, gauge>>

(* Ten seconds later.  A failed query answers 0.                           *)
Query ==
  /\ bpc = "wait" /\ bpc' = "set"
  /\ \/ answer' = getMintRecipientBalance /\ failed' = FALSE
     \/ "query_error" \in Faults /\ answer' = 0 /\ failed' = TRUE
  /\ UNCHANGED <<mintVars, zeroVars, sentRead, waitOver, gauge>>

(* The gauge is set in either case, the comparison only after a success.   *)
SetGaugeRaw ==                                                   \* mutant
  /\ bpc = "set" /\ gauge' = answer
  /\ bpc' = IF failed THEN "loop" ELSE "compare"
  /\ answer' = 0 /\ failed' = FALSE
  /\ UNCHANGED <<mintVars, zeroVars, sentRead, waitOver>>

SetGauge ==
  /\ bpc = "set" /\ gauge' = answer - StartingBalance
  /\ bpc' = IF failed THEN "loop" ELSE "compare"
  /\ answer' = 0 /\ failed' = FALSE
  /\ UNCHANGED <<mintVars, zeroVars, sentRead, waitOver>>

(* A comparison is two reads: the counter of the mints first.  What the    *)
(* workers count from then on, the comparison does not see.                *)
ReadSent ==
  /\ \/ bpc = "compare" /\ bpc' = "compareGauge"
     \/ bpc = "verdict" /\ bpc' = "verdictGauge"
  /\ sentRead' = sentMints
  /\ UNCHANGED <<mintVars, zeroVars, answer, failed, waitOver, gauge>>

Behind == gauge <= sentRead                                      \* mutant
BalanceReached == sentRead = gauge

Compare ==
  /\ bpc = "compareGauge"
  /\ bpc' = IF BalanceReached THEN "verdict" ELSE "loop"
  /\ sentRead' = 0
  /\ UNCHANGED <<mintVars, zeroVars, answer, failed, waitOver, gauge>>

(* After the loop the two are read again.                                  *)
Verdict ==
  /\ bpc = "verdictGauge"
  /\ Return(IF BalanceReached THEN "reached" ELSE "missed")
  /\ sentRead' = 0
  /\ UNCHANGED <<mintVars, zeroVars, answer, failed, gauge>>

WaitElapses ==
  /\ bpc \notin {"off", "reached", "missed"} /\ ~waitOver /\ waitOver' = TRUE
  /\ UNCHANGED <<mintVars, zeroVars, bpc, answer, sentRead, failed, gauge>>

CheckStep ==
  LoopHead \/ Query \/ SetGauge \/ ReadSent \/ Compare \/ Verdict
MintStep == CountMint \/ Mine
ZeroStep == ZeroQueries \/ ZeroSets

Next ==
  \/ Attempt \/ MintStep \/ ZeroStep \/ Begin \/ Cancelled \/ CheckStep
  \/ WaitElapses

Spec == Init /\ [][Next]_balanceVars
-----------------------------------------------------------------------------
(* Properties.                                                             *)

(* Types; no mint is counted that was not attempted.                       *)
BalanceTypeOK ==
  /\ attempted \in 0 .. MaxMints /\ uncounted \in Nat /\ unmined \in Nat
  /\ minted \in Nat /\ sentMints \in Nat /\ gauge \in Int
  /\ w0pc \in {"idle", "set"} /\ w0answer \in Nat /\ updates \in 0 .. MaxUpdates
  /\ bpc \in {"off", "loop", "wait", "set", "compare", "compareGauge",
              "verdict", "verdictGauge", "reached", "missed"}
  /\ answer \in Nat /\ sentRead \in Nat
  /\ failed \in BOOLEAN /\ waitOver \in BOOLEAN

(* Every attempted mint is either counted or still out, and whoever writes *)
(* the gauge, however late, writes a balance the chain has had: the gauge  *)
(* never shows tokens that are not there.                                  *)
GaugeNotAhead ==
  /\ sentMints + uncounted = attempted
  /\ gauge <= minted
  /\ w0pc = "set" => w0answer - StartingBalance <= minted
  /\ bpc = "set" => answer - StartingBalance <= minted

(* When the check passes, at least as many tokens have arrived as mints    *)
(* had been counted when the check last read the counter ("check that the  *)
(* balance of the mint recipient address is correct", Start), although     *)
(* workers mint on and worker 0 sets the same gauge.  A mint counted after *)
(* that read, and before the gauge's, may still be missing.                *)
PassMeansArrived ==
  [][bpc # "reached" /\ bpc' = "reached" => minted >= sentRead]_balanceVars

(* Everything attempted is counted and on the chain, and worker 0 holds no *)
(* older balance.                                                          *)
Settled ==
  /\ attempted = MaxMints /\ uncounted = 0 /\ unmined = 0
  /\ sentMints = minted /\ w0pc = "idle"
=============================================================================
