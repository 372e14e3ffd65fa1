---------------------------- MODULE RunOnceProofs ----------------------------
(***************************************************************************)
(* What PerfRunner relies on of RunOnce, for any number of concurrent      *)
(* actions and any number of retries.                                      *)
(***************************************************************************)
EXTENDS RunOnce, FiniteSetTheorems, TLAPS

(* Each request FireFly has accepted is one of Actions, with its own key.  *)
OwnKeys == \A m \in accepted : m.action \in Actions /\ m.key = Key(m.action)

(* Of a keyed action there is only one.                                    *)
OneCopy ==
  test \in KeyedTests =>
    \A m, k \in accepted : m.action = k.action => m = k

RpcType == rpc \in [Actions -> {"begin", "upload", "post", "ok", "error"}]

SubmitInv == RpcType /\ OwnKeys /\ OneCopy /\ OkMeansAccepted

(* A key that FireFly knows is that of the very action: the UUIDs of two   *)
(* actions differ.                                                         *)
LEMMA KnownKey ==
  ASSUME OwnKeys, NEW a \in Actions, Known(Key(a))
  PROVE  test \in KeyedTests /\ Copies(a) # {}
<1>1. PICK m \in accepted : m.key = Key(a)
  BY DEF Known
<1>2. test \in KeyedTests
  BY DEF Known, Key
<1>3. {"iteration", m.action} = {"iteration", a}
  BY <1>1, <1>2 DEF OwnKeys, Key, getIdempotencyKey
<1>4. m.action = a
  BY <1>3
<1> QED
  BY <1>2, <1>4 DEF Copies

(* A request that is taken does not have a known key.                      *)
LEMMA TakenIsNew ==
  ASSUME OwnKeys, OneCopy, NEW a \in Actions, NEW answer \in Answers,
         Possible(a, answer), Take(a, answer), UNCHANGED test
  PROVE  /\ OwnKeys' /\ OneCopy'
         /\ \A b \in Actions : Copies(b) # {} => (Copies(b) # {})'
         /\ answer = "ok" => (Copies(a) # {})'
<1>1. CASE answer \in {"ok", "lost"}
  <2>1. accepted' = accepted \cup {Request(a)} /\ ~Known(Key(a))
    BY <1>1 DEF Take, Possible
  <2>2. Request(a).action = a /\ Request(a).key = Key(a)
    BY DEF Request
  <2>3. OwnKeys'
    BY <2>1, <2>2 DEF OwnKeys, Key, getIdempotencyKey
  <2>4. ASSUME test \in KeyedTests, NEW m \in accepted, m.action = a
        PROVE  FALSE
    BY <2>1, <2>4 DEF OwnKeys, Known, Key, getIdempotencyKey
  <2>5. OneCopy'
    BY <2>1, <2>2, <2>4 DEF OneCopy
  <2> QED
    BY <2>1, <2>2, <2>3, <2>5 DEF Copies
<1>2. CASE answer \notin {"ok", "lost"}
  BY <1>2 DEF Take, OwnKeys, OneCopy, Copies, Key, getIdempotencyKey
<1> QED
  BY <1>1, <1>2

(* Nothing has been accepted, and no RunOnce has returned.                 *)
LEMMA SubmitInit == Init => SubmitInv
  BY DEF Init, SubmitInv, RpcType, OwnKeys, OneCopy, OkMeansAccepted

(* Steps that post no action neither end one nor touch what is accepted.   *)
LEMMA QuietStep ==
  ASSUME SubmitInv, UNCHANGED <<test, accepted>>, RpcType',
         \A b \in Actions : rpc'[b] = "ok" => rpc[b] = "ok"
  PROVE  SubmitInv'
  BY DEF SubmitInv, OwnKeys, OneCopy, OkMeansAccepted, Copies, Key,
         getIdempotencyKey

LEMMA BeginQuiet ==
  ASSUME SubmitInv, NEW a \in Actions, Begin(a)
  PROVE  SubmitInv'
<1>1. rpc' = [rpc EXCEPT ![a] = IF test \in BlobTests THEN "upload" ELSE "post"]
  BY DEF Begin, Goto
<1>2. RpcType' /\ \A b \in Actions : rpc'[b] = "ok" => rpc[b] = "ok"
  BY <1>1 DEF SubmitInv, RpcType
<1> QED
  BY <1>2, QuietStep DEF Begin

LEMMA UploadQuiet ==
  ASSUME SubmitInv, NEW a \in Actions, Upload(a)
  PROVE  SubmitInv'
<1>1. \/ rpc' = rpc
      \/ \E s \in {"post", "error"} : rpc' = [rpc EXCEPT ![a] = s]
  BY DEF Upload, Uploaded, UploadFailed, PostAgain, Goto
<1>2. RpcType' /\ \A b \in Actions : rpc'[b] = "ok" => rpc[b] = "ok"
  BY <1>1 DEF SubmitInv, RpcType
<1> QED
  BY <1>2, QuietStep DEF Upload

(* An attempt either is followed by another one or ends the action; it     *)
(* ends it with success after an acceptance, or after a 409, whose key is  *)
(* this action's.                                                          *)
LEMMA PostKeeps ==
  ASSUME SubmitInv, NEW a \in Actions, Post(a)
  PROVE  SubmitInv'
<1>1. PICK answer \in Answers :
        /\ Possible(a, answer) /\ Take(a, answer)
        /\ \/ PostAgain(a)
           \/ Finish(a, answer)
  BY DEF Post
<1>2. UNCHANGED test
  BY DEF Post
<1>3. /\ OwnKeys' /\ OneCopy'
      /\ \A b \in Actions : Copies(b) # {} => (Copies(b) # {})'
      /\ answer = "ok" => (Copies(a) # {})'
  BY <1>1, <1>2, TakenIsNew DEF SubmitInv
<1>4. CASE rpc' = rpc
  BY <1>3, <1>4 DEF SubmitInv, RpcType, OkMeansAccepted
<1>5. CASE rpc' = [rpc EXCEPT ![a] = Outcome(answer)]
  <2>1. Outcome(answer) \in {"ok", "error"}
    BY DEF Outcome
  <2>2. RpcType'
    BY <1>5, <2>1 DEF SubmitInv, RpcType
  <2>3. Outcome(answer) = "ok" => (Copies(a) # {})'
    <3>1. CASE answer = "ok"
      BY <3>1, <1>3
    <3>2. CASE answer = "conflict"
      <4>1. Known(Key(a))
        BY <3>2, <1>1 DEF Possible
      <4> QED
        BY <4>1, <1>3, KnownKey DEF SubmitInv
    <3>3. CASE answer \notin {"ok", "conflict"}
      BY <3>3 DEF Outcome
    <3> QED
      BY <3>1, <3>2, <3>3
  <2>4. ASSUME NEW b \in Actions, rpc'[b] = "ok"
        PROVE  (Copies(b) # {})'
    <3>1. CASE b = a
      BY <3>1, <2>3, <2>4, <1>5 DEF SubmitInv, RpcType
    <3>2. CASE b # a
      <4>1. rpc[b] = "ok"
        BY <3>2, <2>4, <1>5 DEF SubmitInv, RpcType
      <4> QED
        BY <4>1, <1>3 DEF SubmitInv, OkMeansAccepted
    <3> QED
      BY <3>1, <3>2
  <2> QED
    BY <1>3, <2>2, <2>4 DEF SubmitInv, OkMeansAccepted
<1>6. rpc' = rpc \/ rpc' = [rpc EXCEPT ![a] = Outcome(answer)]
  BY <1>1 DEF PostAgain, Finish
<1> QED
  BY <1>4, <1>5, <1>6

LEMMA SubmitStep == SubmitInv /\ [Next]_vars => SubmitInv'
<1> SUFFICES ASSUME SubmitInv, [Next]_vars
             PROVE  SubmitInv'
  OBVIOUS
<1>1. ASSUME NEW a \in Actions, Step(a)
      PROVE  SubmitInv'
  BY <1>1, BeginQuiet, UploadQuiet, PostKeeps DEF Step
<1>2. CASE UNCHANGED vars
  BY <1>2, QuietStep DEF vars, SubmitInv, RpcType
<1> QED
  BY <1>1, <1>2 DEF Next

LEMMA SubmitInvariant == Spec => []SubmitInv
  BY SubmitInit, SubmitStep, PTL DEF Spec

(* A RunOnce that returns no error has had its own action accepted, also   *)
(* when the Ethereum test takes a 409 for success.                         *)
THEOREM NoPhantomSuccess == Spec => []OkMeansAccepted
<1>1. SubmitInv => OkMeansAccepted
  BY DEF SubmitInv
<1> QED
  BY <1>1, SubmitInvariant, PTL

(* Contract tests invoke the contract at most once per action, whatever    *)
(* the client retries.                                                     *)
THEOREM InvokedOnce == Spec => []KeyedOnce
<1>1. SubmitInv => KeyedOnce
  <2> SUFFICES ASSUME SubmitInv, test \in KeyedTests, NEW a \in Actions
               PROVE  Cardinality(Copies(a)) <= 1
    BY DEF KeyedOnce
  <2>1. CASE Copies(a) = {}
    BY <2>1, FS_EmptySet
  <2>2. CASE Copies(a) # {}
    <3>1. PICK m : m \in Copies(a)
      BY <2>2
    <3>2. Copies(a) = {m}
      BY <3>1 DEF SubmitInv, OneCopy, Copies
    <3>3. Cardinality({m}) = 1
      BY FS_Singleton
    <3> QED
      BY <3>2, <3>3
  <2> QED
    BY <2>1, <2>2
<1> QED
  BY <1>1, SubmitInvariant, PTL
-----------------------------------------------------------------------------
(* The retries.  Uploads are of blob tests only, and an Ethereum action    *)
(* fails only after the last of its tries.                                 *)
UploadOfBlob == \A a \in Actions : rpc[a] = "upload" => test \in BlobTests

FailedLast ==
  test = "custom_ethereum_contract" =>
    \A a \in Actions : rpc[a] = "error" => tries[a] = MaxRetries

CallTypes ==
  /\ rpc \in [Actions -> {"begin", "upload", "post", "ok", "error"}]
  /\ dataID \in [Actions -> {"", "blob"}]

TriesType == tries \in [Actions -> 0 .. MaxRetries]

TakenTypes ==
  \A m \in accepted :
    /\ m.action \in Actions /\ m.copy \in 0 .. MaxRetries
    /\ rpc[m.action] \in {"post", "ok", "error"}

LEMMA TypeParts ==
  RunOnceTypeOK <=> test \in TestNames /\ CallTypes /\ TriesType /\ TakenTypes
  BY DEF RunOnceTypeOK, CallTypes, TriesType, TakenTypes

RetryInv ==
  RunOnceTypeOK /\ MessageHasItsBlob /\ UploadOfBlob /\ FailedLast

LEMMA MaxIsNumber == MaxRetries \in Nat
  BY RunOnceAssumption

LEMMA RetryInit == Init => RetryInv
<1> SUFFICES ASSUME Init PROVE RetryInv
  OBVIOUS
<1>1. CallTypes
  BY DEF Init, CallTypes
<1>2. TriesType
  <2>1. 0 \in 0 .. MaxRetries
    BY MaxIsNumber
  <2>2. tries = [a \in Actions |-> 0]
    BY DEF Init
  <2> QED
    BY <2>1, <2>2 DEF TriesType
<1>3. TakenTypes
  BY DEF Init, TakenTypes
<1>4. MessageHasItsBlob /\ UploadOfBlob /\ FailedLast
  BY DEF Init, MessageHasItsBlob, UploadOfBlob, FailedLast
<1>5. test \in TestNames
  BY DEF Init
<1> QED
  BY <1>1, <1>2, <1>3, <1>4, <1>5, TypeParts DEF RetryInv

(* A count of tries that is set to a number within the limit stays there,  *)
(* and so does one that has not reached it.                                *)
LEMMA TriesKept ==
  ASSUME TriesType, NEW a \in Actions, NEW n \in 0 .. MaxRetries,
         tries' = [tries EXCEPT ![a] = n]
  PROVE  TriesType'
  BY DEF TriesType

LEMMA OneMoreTry ==
  ASSUME TriesType, NEW a \in Actions, tries[a] < MaxRetries,
         tries' = [tries EXCEPT ![a] = @ + 1]
  PROVE  TriesType'
<1>1. tries[a] \in 0 .. MaxRetries
  BY DEF TriesType
<1>2. tries[a] + 1 \in 0 .. MaxRetries
  BY <1>1, MaxIsNumber
<1> QED
  BY <1>2, TriesKept

LEMMA NoTry == 0 \in 0 .. MaxRetries
  BY MaxIsNumber

(* Steps without a request concern one action, which has nothing accepted  *)
(* and is of a test that uploads, if it ends.                              *)
LEMMA BeginRetry ==
  ASSUME RetryInv, NEW a \in Actions, Begin(a)
  PROVE  RetryInv'
<1>1. /\ rpc[a] = "begin"
      /\ \E s \in {"post", "upload"} :
           /\ rpc' = [rpc EXCEPT ![a] = s]
           /\ s = "upload" => test \in BlobTests
      /\ tries' = [tries EXCEPT ![a] = 0]
      /\ UNCHANGED <<test, dataID, accepted, panicked>>
  BY DEF Begin, Goto
<1>2. RunOnceTypeOK'
  <2>1. test \in TestNames /\ CallTypes /\ TriesType /\ TakenTypes
    BY TypeParts DEF RetryInv
  <2>2. CallTypes' /\ TakenTypes'
    BY <1>1, <2>1 DEF CallTypes, TakenTypes
  <2>3. TriesType'
    BY <1>1, <2>1, NoTry, TriesKept
  <2> QED
    BY <1>1, <2>1, <2>2, <2>3
    DEF RunOnceTypeOK, CallTypes, TriesType, TakenTypes
<1>3. MessageHasItsBlob' /\ UploadOfBlob' /\ FailedLast'
  BY <1>1 DEF RetryInv, RunOnceTypeOK, MessageHasItsBlob, UploadOfBlob,
              FailedLast
<1> QED
  BY <1>2, <1>3 DEF RetryInv

LEMMA UploadRetry ==
  ASSUME RetryInv, NEW a \in Actions, Upload(a)
  PROVE  RetryInv'
<1>1. /\ rpc[a] = "upload" /\ test \in BlobTests
      /\ UNCHANGED <<test, accepted, panicked>>
  BY DEF Upload, RetryInv, UploadOfBlob
<1>2. \/ /\ tries[a] < MaxRetries /\ tries' = [tries EXCEPT ![a] = @ + 1]
         /\ UNCHANGED <<rpc, dataID>>
      \/ /\ \E s \in {"post", "error"} : rpc' = [rpc EXCEPT ![a] = s]
         /\ tries' = [tries EXCEPT ![a] = 0]
         /\ dataID' = dataID \/ dataID' = [dataID EXCEPT ![a] = "blob"]
  BY DEF Upload, Uploaded, SameHash, UploadFailed, Retries, PostAgain, Goto
<1>3. RunOnceTypeOK'
  <2>1. test \in TestNames /\ CallTypes /\ TriesType /\ TakenTypes
    BY TypeParts DEF RetryInv
  <2>2. CallTypes'
    BY <1>2, <2>1 DEF CallTypes
  <2>3. TakenTypes'
    BY <1>1, <1>2, <2>1 DEF CallTypes, TakenTypes
  <2>4. TriesType'
    BY <1>2, <2>1, NoTry, TriesKept, OneMoreTry
  <2> QED
    BY <1>1, <2>1, <2>2, <2>3, <2>4
    DEF RunOnceTypeOK, CallTypes, TriesType, TakenTypes
<1>4. MessageHasItsBlob' /\ UploadOfBlob' /\ FailedLast'
  BY <1>1, <1>2
  DEF RetryInv, RunOnceTypeOK, MessageHasItsBlob, UploadOfBlob, FailedLast,
      BlobTests
<1> QED
  BY <1>3, <1>4 DEF RetryInv

(* What FireFly takes is typed, and of a blob test it has the blob.        *)
LEMMA TakeRetry ==
  ASSUME RetryInv, NEW a \in Actions, rpc[a] = "post", NEW answer \in Answers,
         Possible(a, answer), Take(a, answer)
  PROVE  \A m \in accepted' :
           /\ m \in accepted \/ (m.action = a /\ m.copy = tries[a])
           /\ test \in BlobTests => m.data = "blob"
<1>1. CASE answer \in {"ok", "lost"}
  <2>1. /\ accepted' = accepted \cup {Request(a)}
        /\ test \in BlobTests => dataID[a] # ""
    BY <1>1 DEF Take, Possible
  <2>2. /\ Request(a).action = a /\ Request(a).copy = tries[a]
        /\ Request(a).data = dataID[a]
    BY DEF Request
  <2>3. dataID[a] \in {"", "blob"}
    BY DEF RetryInv, RunOnceTypeOK
  <2> QED
    BY <2>1, <2>2, <2>3 DEF RetryInv, MessageHasItsBlob
<1>2. CASE answer \notin {"ok", "lost"}
  BY <1>2 DEF Take, RetryInv, MessageHasItsBlob
<1> QED
  BY <1>1, <1>2

LEMMA PostRetry ==
  ASSUME RetryInv, NEW a \in Actions, Post(a)
  PROVE  RetryInv'
<1>1. PICK answer \in Answers :
        /\ Possible(a, answer) /\ Take(a, answer)
        /\ \/ Retries(a, answer) /\ PostAgain(a) /\ UNCHANGED panicked
           \/ ~Retries(a, answer) /\ Finish(a, answer)
  BY DEF Post
<1>2. rpc[a] = "post" /\ UNCHANGED test
  BY DEF Post
<1>3. dataID' = dataID
  BY <1>1 DEF PostAgain, Finish
<1>4. \A m \in accepted' :
        /\ m \in accepted \/ (m.action = a /\ m.copy = tries[a])
        /\ test \in BlobTests => m.data = "blob"
  BY <1>1, <1>2, TakeRetry
<1>5. test \in TestNames /\ CallTypes /\ TriesType /\ TakenTypes
  BY TypeParts DEF RetryInv
<1>6. tries[a] \in 0 .. MaxRetries
  BY <1>5 DEF TriesType
<1>7. MessageHasItsBlob'
  BY <1>2, <1>4 DEF MessageHasItsBlob
<1>8. CASE Retries(a, answer) /\ PostAgain(a) /\ UNCHANGED panicked
  <2>1. /\ tries[a] < MaxRetries /\ tries' = [tries EXCEPT ![a] = @ + 1]
        /\ UNCHANGED <<rpc, panicked>>
    BY <1>8 DEF Retries, PostAgain
  <2>2. RunOnceTypeOK'
    <3>1. CallTypes' /\ TakenTypes'
      BY <2>1, <1>5, <1>6, <1>2, <1>3, <1>4 DEF CallTypes, TakenTypes
    <3>2. TriesType'
      BY <2>1, <1>5, OneMoreTry
    <3> QED
      BY <3>1, <3>2, <1>5, <1>2
      DEF RunOnceTypeOK, CallTypes, TriesType, TakenTypes
  <2>3. UploadOfBlob' /\ FailedLast'
    BY <2>1, <1>2 DEF RetryInv, RunOnceTypeOK, UploadOfBlob, FailedLast
  <2> QED
    BY <2>2, <2>3, <1>7 DEF RetryInv
<1>9. CASE ~Retries(a, answer) /\ Finish(a, answer)
  <2>1. /\ UNCHANGED tries
        /\ rpc' = rpc \/ rpc' = [rpc EXCEPT ![a] = Outcome(answer)]
    BY <1>9 DEF Finish
  <2>2. Outcome(answer) \in {"ok", "error"}
    BY DEF Outcome
  <2>3. ASSUME test = "custom_ethereum_contract", Outcome(answer) = "error"
        PROVE  tries[a] = MaxRetries
    <3>1. Retryable(answer)
      BY <2>3 DEF Outcome, Retryable
    <3>2. ~(tries[a] < MaxRetries)
      BY <3>1, <1>9 DEF Retries
    <3> QED
      BY <3>2, <1>6, MaxIsNumber
  <2>4. RunOnceTypeOK'
    <3>1. CallTypes'
      BY <2>1, <2>2, <1>5, <1>3 DEF CallTypes
    <3>2. TakenTypes'
      BY <2>1, <2>2, <1>5, <1>6, <1>2, <1>4 DEF CallTypes, TakenTypes
    <3>3. TriesType'
      BY <2>1, <1>5 DEF TriesType
    <3> QED
      BY <3>1, <3>2, <3>3, <1>5, <1>2
      DEF RunOnceTypeOK, CallTypes, TriesType, TakenTypes
  <2>5. UploadOfBlob' /\ FailedLast'
    BY <2>1, <2>2, <2>3, <1>2
    DEF RetryInv, RunOnceTypeOK, UploadOfBlob, FailedLast
  <2> QED
    BY <2>4, <2>5, <1>7 DEF RetryInv
<1> QED
  BY <1>1, <1>8, <1>9

LEMMA RetryStep == RetryInv /\ [Next]_vars => RetryInv'
<1> SUFFICES ASSUME RetryInv, [Next]_vars
             PROVE  RetryInv'
  OBVIOUS
<1>1. ASSUME NEW a \in Actions, Step(a)
      PROVE  RetryInv'
  BY <1>1, BeginRetry, UploadRetry, PostRetry DEF Step
<1>2. CASE UNCHANGED vars
  BY <1>2 DEF vars, RetryInv, RunOnceTypeOK, MessageHasItsBlob, UploadOfBlob,
              FailedLast
<1> QED
  BY <1>1, <1>2 DEF Next

LEMMA RetryInvariant == Spec => []RetryInv
  BY RetryInit, RetryStep, PTL DEF Spec

(* An accepted Ethereum action is reported as failed only when the client  *)
(* had no try left, however many retries it has.                           *)
THEOREM FailureIsLast == Spec => []FailedMeansExhausted
<1>1. RetryInv => FailedMeansExhausted
  BY DEF RetryInv, FailedLast, FailedMeansExhausted
<1> QED
  BY <1>1, RetryInvariant, PTL

(* FireFly accepts no blob message without the blob of the test, although  *)
(* uploads fail unnoticed and retried ones are empty.                      *)
THEOREM NoMessageWithoutBlob == Spec => []MessageHasItsBlob
<1>1. RetryInv => MessageHasItsBlob
  BY DEF RetryInv
<1> QED
  BY <1>1, RetryInvariant, PTL
=============================================================================
