------------------------------- MODULE RunOnce -------------------------------
(***************************************************************************)
(* What a test case does for one action (RunOnce of the *_msg.go,          *)
(* token_mint.go, custom_*.go and erc20transfer.go in internal/perf, and   *)
(* uploadBlob in test_base.go): the calls to FireFly with the retries the  *)
(* HTTP client is set up for (Init), and what becomes of their answers.    *)
(* PerfRunner has the same action as AcceptFirst, AcceptRetry and the      *)
(* Respond actions; OkMeansAccepted and KeyedOnce are what it relies on.   *)
(*                                                                         *)
(* External: resty, the HTTP client, posts again after every error but a   *)
(* 409, and does not rewind the reader of a file for it; FireFly refuses a *)
(* message whose data it does not have, and answers 409 to an idempotency  *)
(* key it knows.                                                           *)
(***************************************************************************)
EXTENDS Integers, FiniteSets

CONSTANTS
  Actions,   \* calls of RunOnce by one worker with the same iterationCount:
             \* the same action of its loops, and of loops left in exit mode
  MaxRetries \* the retry count of the client (10 in Init)

ASSUME RunOnceAssumption == IsFiniteSet(Actions) /\ MaxRetries \in Nat

BlobTests == {"blob_broadcast", "blob_private"}
KeyedTests ==
  {"custom_ethereum_contract", "custom_fabric_contract", "erc20_transfer"}
TestNames == {"msg_broadcast", "msg_private", "token_mint"}
               \cup BlobTests \cup KeyedTests

VARIABLES
  test,      \* the test case of the worker
  rpc,       \* where each RunOnce is
  tries,     \* how often it has posted in its present call
  dataID,    \* the data its message refers to, "" if uploadBlob gave no ID
  accepted,  \* what FireFly has accepted: <<action, copy, key, data>>
  panicked   \* has the process crashed

vars == <<test, rpc, tries, dataID, accepted, panicked>>

(* What FireFly may say.  "lost" and "unreachable" are errors of the       *)
(* transport; of "lost" FireFly has taken the request.                     *)
Answers == {"ok", "lost", "unreachable", "refused", "conflict"}
Transport == {"lost", "unreachable"}

Copies(a) == {m \in accepted : m.action = a}

Init == /\ test \in TestNames
        /\ rpc = [a \in Actions |-> "begin"]
        /\ tries = [a \in Actions |-> 0]
        /\ dataID = [a \in Actions |-> ""]
        /\ accepted = {} /\ panicked = FALSE

Goto(a, s) == rpc' = [rpc EXCEPT ![a] = s] /\ tries' = [tries EXCEPT ![a] = 0]

Begin(a) ==
  /\ rpc[a] = "begin"
  /\ Goto(a, IF test \in BlobTests THEN "upload" ELSE "post")
  /\ UNCHANGED <<test, dataID, accepted, panicked>>
-----------------------------------------------------------------------------
(* The client (Init): AddRetryCondition, up to SetRetryCount times.        *)

Retryable(answer) == answer \notin {"ok", "conflict"}

Retries(a, answer) == Retryable(answer) /\ tries[a] < MaxRetries

PostAgain(a) == /\ tries' = [tries EXCEPT ![a] = @ + 1]
                /\ UNCHANGED <<rpc, dataID>>
-----------------------------------------------------------------------------
(* uploadBlob.  It compares the hash FireFly returns with that of the      *)
(* blob, and returns no error after an error of the transport.             *)

(* The first attempt reads the file to its end.                            *)
Sent(a) == IF tries[a] = 0 THEN {"blob"} ELSE {"blob", "nothing"}

AnyHash(stored) == TRUE                                          \* mutant
SameHash(stored) == stored = "blob"

Uploaded(a, stored) ==
  IF SameHash(stored)
  THEN Goto(a, "post") /\ dataID' = [dataID EXCEPT ![a] = stored]
  ELSE Goto(a, "error") /\ UNCHANGED dataID

UploadAgain(a, answer) == Goto(a, "upload") /\ UNCHANGED dataID  \* mutant
UploadFailed(a, answer) ==
  /\ Goto(a, IF answer \in Transport THEN "post" ELSE "error")
  /\ UNCHANGED dataID

Upload(a) ==
  /\ rpc[a] = "upload"
  /\ \/ \E stored \in Sent(a) : Uploaded(a, stored)
     \/ \E answer \in Transport \cup {"refused"} :
          IF Retries(a, answer) THEN PostAgain(a) ELSE UploadFailed(a, answer)
  /\ UNCHANGED <<test, accepted, panicked>>
-----------------------------------------------------------------------------
(* The request for the action itself.                                      *)

(* Start time, worker and iteration are the same for all Actions, so the   *)
(* key is as unique as the UUID at its end.                                *)
NoUUID(a) == {"iteration"}                                       \* mutant
getIdempotencyKey(a) == {"iteration", a}

(* The requests without a key are given none.                              *)
NoKey(a) == {}                                                   \* mutant
Key(a) == IF test \in KeyedTests THEN getIdempotencyKey(a) ELSE {}

Known(key) == key # {} /\ \E m \in accepted : m.key = key

(* FireFly's side of one attempt.                                          *)
Possible(a, answer) ==
  CASE answer \in {"ok", "lost"} ->
         ~Known(Key(a)) /\ (test \in BlobTests => dataID[a] # "")
    [] answer = "conflict" -> Known(Key(a))
    [] OTHER -> TRUE

Request(a) == [action |-> a, copy |-> tries[a], key |-> Key(a),
               data |-> dataID[a]]

Take(a, answer) ==
  accepted' = IF answer \in {"ok", "lost"} THEN accepted \cup {Request(a)}
              ELSE accepted

(* The answer the call ends with.  A 409 is an error but for the Ethereum  *)
(* test; the ERC-20 test means to do the same, but reads the ID of the     *)
(* answer first, and crashes if the answer is an error.                    *)
AsFabric(answer) == IF answer = "ok" THEN "ok" ELSE "error"      \* mutant
Outcome(answer) ==
  IF answer = "ok" \/ (test = "custom_ethereum_contract" /\ answer = "conflict")
  THEN "ok" ELSE "error"

Panics(answer) == test = "erc20_transfer" /\ answer # "ok"

Finish(a, answer) ==
  /\ panicked' = Panics(answer)
  /\ IF Panics(answer) THEN UNCHANGED rpc
     ELSE rpc' = [rpc EXCEPT ![a] = Outcome(answer)]
  /\ UNCHANGED <<tries, dataID>>

Post(a) ==
  /\ rpc[a] = "post"
  /\ \E answer \in {x \in Answers : Possible(a, x)} :
       /\ Take(a, answer)
       /\ \/ Retries(a, answer) /\ PostAgain(a) /\ UNCHANGED panicked
          \/ ~Retries(a, answer) /\ Finish(a, answer)
  /\ UNCHANGED test
-----------------------------------------------------------------------------
Step(a) == ~panicked /\ (Begin(a) \/ Upload(a) \/ Post(a))

Next == \E a \in Actions : Step(a)

Spec == Init /\ [][Next]_vars

(* Each RunOnce is a goroutine of its own, and every attempt gets an       *)
(* answer or an error of the transport.                                    *)
FairSpec == Spec /\ \A a \in Actions : WF_vars(Step(a))
-----------------------------------------------------------------------------
(* Properties.                                                             *)

(* Types; a request FireFly has accepted is of an action that has posted,  *)
(* within the client's retries.                                            *)
RunOnceTypeOK ==
  /\ test \in TestNames
  /\ rpc \in [Actions -> {"begin", "upload", "post", "ok", "error"}]
  /\ tries \in [Actions -> 0 .. MaxRetries]
  /\ dataID \in [Actions -> {"", "blob"}]
  /\ \A m \in accepted :
       /\ m.action \in Actions /\ m.copy \in 0 .. MaxRetries
       /\ rpc[m.action] \in {"post", "ok", "error"}

(* A worker that is told of no error waits for events of that very action: *)
(* FireFly must have accepted it, and not only another one with its key    *)
(* ("Do not retry on duplicates, because FireFly should already be         *)
(* processing the transaction").                                           *)
OkMeansAccepted == \A a \in Actions : rpc[a] = "ok" => Copies(a) # {}

(* However many answers get lost, a contract is invoked once per action.   *)
(* Messages and mints carry no key, and are taken once per attempt.        *)
KeyedOnce ==
  test \in KeyedTests => \A a \in Actions : Cardinality(Copies(a)) <= 1

(* An Ethereum action FireFly has accepted is reported as failed only when *)
(* the client had no try left: a 409 after a lost answer is no failure.    *)
FailedMeansExhausted ==
  test = "custom_ethereum_contract" =>
    \A a \in Actions :
      rpc[a] = "error" /\ Copies(a) # {} => tries[a] = MaxRetries

(* No message goes out that refers to an upload that was cut short or that *)
(* failed, although uploadBlob hides an error of the transport.            *)
MessageHasItsBlob ==
  test \in BlobTests => \A m \in accepted : m.data = "blob"

(* Whatever FireFly answers, each action ends with the one answer the loop *)
(* of its worker waits for, or with a crash.                               *)
RunOnceEnds ==
  \A a \in Actions :
    rpc[a] = "begin" ~> (rpc[a] \in {"ok", "error"} \/ panicked)
=============================================================================
