------------------------ MODULE TransferEngineProofs ------------------------
(***************************************************************************)
(* Proofs about TransferEngine, for all keys, versions, sizes, faults and  *)
(* bounds.                                                                 *)
(***************************************************************************)
EXTENDS TransferEngine, TLAPS

(* The actions of a transfer, unfolded by the leaves below.                *)
USE DEF stores, locals, Goto

-----------------------------------------------------------------------------
(* What leaving an attempt does to the types.                              *)
LEMMA FailType ==
    ASSUME TypeOK, NEW k \in Keys, NEW e \in SUBSET Facts, Fail(k, e)
    PROVE  /\ pc' \in [Keys -> PCs]
           /\ attempt' \in [Keys -> 0 .. MaxRetries]
           /\ stream' \in [Keys -> Objects]
           /\ copyErr' \in [Keys -> {"none", "read", "write"}]
           /\ err' \in [Keys -> SUBSET Facts]
<1>1. CASE isRetryable(e) /\ attempt[k] < MaxRetries
  <2>1. attempt[k] + 1 \in 0 .. MaxRetries
    BY <1>1, EngineAssumption DEF TypeOK
  <2>2. QED
    BY <1>1, <2>1 DEF Fail, Return, TypeOK, PCs, Objects
<1>2. CASE ~(isRetryable(e) /\ attempt[k] < MaxRetries)
  BY <1>2 DEF Fail, Return, TypeOK, PCs, Objects
<1>3. QED
  BY <1>1, <1>2

LEMMA ErrorsAreFacts == Errors \subseteq SUBSET Facts
BY EngineAssumption DEF Errors, CtxErr, Facts

(* The first bytes of any version are data.                                *)
LEMMA OpenedBody ==
    ASSUME NEW c \in Contents
    PROVE  [of |-> c, len |-> 0, intact |-> FALSE] \in Data
<1>1. 0 \in 0 .. SizeOf[c]
  BY EngineAssumption
<1>2. [of |-> c, len |-> 0, intact |-> FALSE] \in Streams(c)
  BY <1>1 DEF Streams
<1>3. QED
  BY <1>2 DEF Data

LEMMA StreamsAreData ==
    ASSUME NEW c \in Contents, NEW d \in Streams(c)
    PROVE  d \in Data
BY DEF Data

LEMMA DataHasVersion ==
    ASSUME NEW d \in Data
    PROVE  d.of \in Contents
BY DEF Data, Streams

-----------------------------------------------------------------------------
(* The inductive invariant.  TypeOK and CompletedVerified are not enough:  *)
(* that the object recorded by MarkCompleted is the verified one needs the *)
(* link, kept from Close to MarkCompleted, between the bytes the attempt   *)
(* hashed and the object in the destination, and that a key is recorded    *)
(* only when its goroutine has finished with it.                           *)
Streaming == {"copy", "close", "verify", "delete", "mark"}

Reading ==
    \A k \in Keys : pc[k] \in Streaming => stream[k] \in Data

Committed ==
    \A k \in Keys : pc[k] \in {"verify", "delete", "mark"} => dest[k] = stream[k]

Checked ==
    \A k \in Keys : pc[k] = "mark" => Matches(k, stream[k])

RecordedWhenDone ==
    \A k \in completed : pc[k] = "done"

IInv == /\ TypeOK
        /\ Reading
        /\ Committed
        /\ Checked
        /\ RecordedWhenDone
        /\ CompletedVerified

LEMMA InitIInv == Init => IInv
<1> SUFFICES ASSUME Init PROVE IInv
  OBVIOUS
<1>1. TypeOK
  <2>1. 0 \in 0 .. MaxRetries /\ 0 \in 0 .. MaxOverwrites
    BY EngineAssumption
  <2>2. NoObject \in Objects
    BY DEF Objects
  <2>3. QED
    BY <2>1, <2>2, EngineAssumption DEF Init, TypeOK, PCs
<1>2. Reading /\ Committed /\ Checked
  BY DEF Init, Reading, Committed, Checked, Streaming
<1>3. RecordedWhenDone /\ CompletedVerified
  BY DEF Init, RecordedWhenDone, CompletedVerified
<1>4. QED
  BY <1>1, <1>2, <1>3 DEF IInv

(* A step of k's goroutine that leaves the other keys alone preserves the  *)
(* invariant of the other keys; what remains is k's own part.              *)
LEMMA StepType ==
    ASSUME IInv, NEW k \in Keys, Advance(k)
    PROVE  TypeOK'
<1> USE DEF IInv
<1>1. CASE Begin(k)
  BY <1>1 DEF Begin, TypeOK, PCs
<1>2. CASE GetObject(k)
  <2>1. CASE \E e \in Errors : Fail(k, e)
    <3>1. PICK e \in Errors : Fail(k, e)
      BY <2>1
    <3>2. e \in SUBSET Facts
      BY ErrorsAreFacts
    <3>3. UNCHANGED <<stores, completed, ctxDone>>
      BY <1>2 DEF GetObject
    <3>4. QED
      BY <3>1, <3>2, <3>3, FailType DEF TypeOK
  <2>2. CASE /\ stream' = [stream EXCEPT ![k] =
                               [of |-> source[k], len |-> 0, intact |-> FALSE]]
             /\ Goto(k, "copy")
             /\ UNCHANGED <<attempt, copyErr, err>>
    <3>1. source[k] \in Contents
      BY DEF TypeOK
    <3>2. [of |-> source[k], len |-> 0, intact |-> FALSE] \in Objects
      BY <3>1, OpenedBody DEF Objects
    <3>3. UNCHANGED <<stores, completed, ctxDone>>
      BY <1>2 DEF GetObject
    <3>4. QED
      BY <2>2, <3>2, <3>3 DEF TypeOK, PCs
  <2>3. QED
    BY <1>2, <2>1, <2>2 DEF GetObject
<1>3. CASE Copy(k)
  <2>1. stream[k].of \in Contents
    BY <1>3, DataHasVersion DEF Copy, Reading, Streaming
  <2>2. stream' \in [Keys -> Objects]
    BY <1>3, <2>1, StreamsAreData DEF Copy, TypeOK, Objects
  <2>3. err' \in [Keys -> SUBSET Facts] /\ copyErr' \in [Keys -> {"none", "read", "write"}]
    BY <1>3, ErrorsAreFacts DEF Copy, TypeOK
  <2>4. QED
    BY <1>3, <2>2, <2>3 DEF Copy, TypeOK, PCs
<1>4. CASE CloseWriter(k)
  <2>1. dest' \in [Keys -> Objects]
    BY <1>4 DEF CloseWriter, Commit, TypeOK
  <2>2. CASE \E e \in SUBSET Facts : Fail(k, e)
    BY <1>4, <2>1, <2>2, FailType DEF CloseWriter, TypeOK
  <2>3. CASE ~ \E e \in SUBSET Facts : Fail(k, e)
    <3>1. err[k] \in SUBSET Facts
      BY DEF TypeOK
    <3>2. /\ Goto(k, "verify")
          /\ UNCHANGED <<attempt, stream, copyErr, err>>
      BY <1>4, <2>3, <3>1, ErrorsAreFacts DEF CloseWriter
    <3>3. QED
      BY <1>4, <2>1, <3>2 DEF CloseWriter, TypeOK, PCs
  <2>4. QED
    BY <2>2, <2>3
<1>5. CASE Verify(k)
  BY <1>5 DEF Verify, TypeOK, PCs
<1>6. CASE DeleteObject(k)
  <2>1. dest' \in [Keys -> Objects]
    BY <1>6 DEF DeleteObject, TypeOK, Objects
  <2>2. QED
    BY <1>6, <2>1, FailType DEF DeleteObject, TypeOK
<1>7. CASE MarkCompleted(k)
  BY <1>7 DEF MarkCompleted, Return, TypeOK, PCs, Objects
<1>8. CASE Backoff(k)
  BY <1>8 DEF Backoff, TypeOK, PCs, CtxErr, Facts
<1>9. QED
  BY <1>1, <1>2, <1>3, <1>4, <1>5, <1>6, <1>7, <1>8 DEF Advance

(* The other parts, for k itself and for the keys it leaves alone.         *)
LEMMA StepUntouched ==
    ASSUME TypeOK, NEW k \in Keys, Advance(k), NEW j \in Keys \ {k}
    PROVE  pc'[j] = pc[j] /\ stream'[j] = stream[j] /\ dest'[j] = dest[j]
BY DEF Advance, Begin, GetObject, Copy, CloseWriter, Commit, Verify, DeleteObject,
   MarkCompleted, Backoff, Fail, Return, TypeOK

LEMMA StepRecorded ==
    ASSUME IInv, NEW k \in Keys, Advance(k)
    PROVE  /\ completed' = completed \/ (pc[k] = "mark" /\ completed' = completed \cup {k})
           /\ pc[k] # "done"
BY DEF Advance, Begin, GetObject, Copy, CloseWriter, Verify, DeleteObject,
   MarkCompleted, Backoff

LEMMA StepOwn ==
    ASSUME IInv, NEW k \in Keys, Advance(k)
    PROVE  /\ pc'[k] \in Streaming => stream'[k] \in Data
           /\ pc'[k] \in {"verify", "delete", "mark"} => dest'[k] = stream'[k]
           /\ pc'[k] = "mark" => Matches(k, stream'[k])
           /\ pc'[k] = "done" =>
                 /\ pc[k] = "mark"
                 /\ dest'[k] \in Data
                 /\ Matches(k, dest'[k])
<1> USE DEF IInv
<1>1. CASE Begin(k)
  BY <1>1 DEF Begin, TypeOK, Streaming
<1>2. CASE GetObject(k)
  <2>1. [of |-> source[k], len |-> 0, intact |-> FALSE] \in Data
    BY OpenedBody DEF TypeOK
  <2>2. QED
    BY <1>2, <2>1 DEF GetObject, Fail, TypeOK, Streaming
<1>3. CASE Copy(k)
  <2>1. \A d \in Streams(stream[k].of) : d \in Data
    BY <1>3, DataHasVersion, StreamsAreData DEF Copy, Reading, Streaming
  <2>2. pc'[k] = "close" /\ stream'[k] \in Data
    BY <1>3, <2>1 DEF Copy, TypeOK, Reading, Streaming
  <2>3. QED
    BY <2>2
<1>4. CASE CloseWriter(k)
  BY <1>4 DEF CloseWriter, Commit, Fail, TypeOK, Reading, Streaming
<1>5. CASE Verify(k)
  BY <1>5 DEF Verify, TypeOK, Reading, Committed, Streaming
<1>6. CASE DeleteObject(k)
  BY <1>6 DEF DeleteObject, Fail, TypeOK, Streaming
<1>7. CASE MarkCompleted(k)
  BY <1>7 DEF MarkCompleted, TypeOK, Reading, Committed, Checked, Streaming
<1>8. CASE Backoff(k)
  BY <1>8 DEF Backoff, TypeOK, Streaming
<1>9. QED
  BY <1>1, <1>2, <1>3, <1>4, <1>5, <1>6, <1>7, <1>8 DEF Advance

LEMMA StepIInv ==
    ASSUME IInv, NEW k \in Keys, Advance(k)
    PROVE  IInv'
<1>1. TypeOK'
  BY StepType
<1>2. Reading'
  BY StepUntouched, StepOwn DEF IInv, Reading
<1>3. Committed'
  BY StepUntouched, StepOwn DEF IInv, Committed
<1>4. Checked'
  <2>1. ASSUME NEW j \in Keys, pc'[j] = "mark"
        PROVE  Matches(j, stream'[j])
    <3>1. CASE j = k
      BY <2>1, <3>1, StepOwn
    <3>2. CASE j # k
      BY <2>1, <3>2, StepUntouched DEF IInv, Checked
    <3>3. QED
      BY <3>1, <3>2
  <2>2. QED
    BY <2>1 DEF Checked, Matches
<1>5. RecordedWhenDone' /\ CompletedVerified'
  <2>1. ASSUME NEW j \in completed'
        PROVE  /\ pc'[j] = "done"
               /\ dest'[j] \in Data
               /\ Matches(j, dest'[j])
    <3>1. CASE j \in completed
      <4>1. j \in Keys /\ j # k
        BY <3>1, StepRecorded DEF IInv, TypeOK, RecordedWhenDone
      <4>2. QED
        BY <3>1, <4>1, StepUntouched DEF IInv, RecordedWhenDone, CompletedVerified
    <3>2. CASE j \notin completed
      <4>1. j = k /\ pc[k] = "mark"
        BY <2>1, <3>2, StepRecorded
      <4>2. MarkCompleted(k)
        BY <4>1 DEF Advance, Begin, GetObject, Copy, CloseWriter, Verify,
           DeleteObject, Backoff
      <4>3. pc'[k] = "done"
        BY <4>2 DEF MarkCompleted, IInv, TypeOK
      <4>4. QED
        BY <4>1, <4>3, StepOwn
    <3>3. QED
      BY <3>1, <3>2
  <2>2. QED
    BY <2>1 DEF RecordedWhenDone, CompletedVerified, Matches
<1>6. QED
  BY <1>1, <1>2, <1>3, <1>4, <1>5 DEF IInv

(* Cancellation and writers of the source bucket touch none of it.         *)
LEMMA EnvironmentIInv ==
    ASSUME IInv, Cancel \/ (\E k \in Keys : Overwrite(k)) \/ UNCHANGED vars
    PROVE  IInv'
<1>1. UNCHANGED <<dest, completed, locals>>
  BY DEF Cancel, Overwrite, vars
<1>2. TypeOK'
  <2>1. CASE Cancel
    BY <2>1 DEF Cancel, IInv, TypeOK
  <2>2. CASE \E k \in Keys : Overwrite(k)
    <3>1. PICK k \in Keys : Overwrite(k)
      BY <2>2
    <3>2. overwrites + 1 \in 0 .. MaxOverwrites
      BY <3>1, EngineAssumption DEF Overwrite, IInv, TypeOK
    <3>3. QED
      BY <3>1, <3>2 DEF Overwrite, IInv, TypeOK
  <2>3. CASE UNCHANGED vars
    BY <2>3 DEF vars, IInv, TypeOK
  <2>4. QED
    BY <2>1, <2>2, <2>3
<1>3. QED
  BY <1>1, <1>2 DEF IInv, Reading, Committed, Checked, RecordedWhenDone,
     CompletedVerified, Matches, Streaming

LEMMA NextIInv == IInv /\ [Next]_vars => IInv'
<1> SUFFICES ASSUME IInv, [Next]_vars PROVE IInv'
  OBVIOUS
<1>1. CASE \E k \in Keys : Advance(k)
  BY <1>1, StepIInv
<1>2. CASE Cancel \/ (\E k \in Keys : Overwrite(k)) \/ UNCHANGED vars
  BY <1>2, EnvironmentIInv
<1>3. QED
  BY <1>1, <1>2 DEF Next, Terminated

(* Every reachable state satisfies the inductive invariant.                *)
THEOREM Invariance == Spec => []IInv
<1>1. QED
  BY InitIInv, NextIInv, PTL DEF Spec

(* The state of Transfer and doTransfer keeps its types; in particular the *)
(* loop variable never exceeds maxRetries.                                 *)
THEOREM TypeCorrect == Spec => []TypeOK
<1>1. IInv => TypeOK
  BY DEF IInv
<1>2. QED
  BY <1>1, Invariance, PTL

(* Whatever the stores do, a key in the completed set has a verified       *)
(* object in the destination.                                              *)
THEOREM CompletedIsVerified == Spec => []CompletedVerified
<1>1. IInv => CompletedVerified
  BY DEF IInv
<1>2. QED
  BY <1>1, Invariance, PTL

-----------------------------------------------------------------------------
(* After a cancellation the stores answer with the context's error only,   *)
(* and that is not retried.                                                *)
LEMMA CancelledFails ==
    ASSUME TypeOK, NEW k \in Keys, NEW e \in {CtxErr, {}}, Fail(k, e)
    PROVE  pc'[k] = "failed"
<1>1. ~isRetryable(e)
  BY DEF isRetryable, CtxErr
<1>2. QED
  BY <1>1 DEF Fail, TypeOK

(* A transfer that is neither in Close nor in its backoff when the context *)
(* is cancelled queues no further attempt (transfer.go:75-78, 193-198).    *)
THEOREM CancelledIsNotRetried == Spec => CancelNotRetried
<1>1. ASSUME TypeOK, [Next]_vars, NEW k \in Keys,
             ctxDone, pc[k] \notin {"close", "backoff"}
      PROVE  pc'[k] # "backoff"
  <2>1. CASE Advance(k)
    <3>1. Errors = {CtxErr}
      BY <1>1 DEF Errors
    <3>2. CASE GetObject(k)
      BY <1>1, <3>1, <3>2, CancelledFails DEF GetObject
    <3>3. CASE DeleteObject(k)
      BY <1>1, <3>3, CancelledFails DEF DeleteObject
    <3>4. CASE Begin(k) \/ Copy(k) \/ Verify(k) \/ MarkCompleted(k)
      BY <1>1, <3>4 DEF Begin, Copy, Verify, MarkCompleted, TypeOK
    <3>5. QED
      BY <1>1, <2>1, <3>2, <3>3, <3>4 DEF Advance, CloseWriter, Backoff
  <2>2. ASSUME NEW j \in Keys \ {k}, Advance(j)
        PROVE  pc'[k] = pc[k]
    BY <1>1, <2>2, StepUntouched
  <2>3. CASE Cancel \/ (\E j \in Keys : Overwrite(j)) \/ UNCHANGED vars
    BY <1>1, <2>3 DEF Cancel, Overwrite, vars
  <2>4. QED
    BY <1>1, <2>1, <2>2, <2>3 DEF Next, Terminated
<1>2. TypeOK /\ [Next]_vars =>
          [\A k \in Keys : ctxDone /\ pc[k] \notin {"close", "backoff"}
                              => pc'[k] # "backoff"]_vars
  BY <1>1
<1>3. QED
  BY <1>2, TypeCorrect, PTL DEF Spec, CancelNotRetried

-----------------------------------------------------------------------------
(* Refinement of the ledger.                                               *)
LEMMA InitLedger == Init => Ledger!Init
BY DEF Init, Ledger!Init, Objects

(* A step of a goroutine stores or removes an unrecorded object, or        *)
(* records a verified one, or does nothing the ledger sees.                *)
LEMMA StepLedger ==
    ASSUME IInv, IInv', NEW k \in Keys, Advance(k)
    PROVE  [Ledger!Next]_<<dest, completed>>
<1>1. CASE UNCHANGED <<dest, completed>>
  BY <1>1
<1>2. CASE pc[k] = "mark" /\ completed' = completed \cup {k}
  <2>1. MarkCompleted(k)
    BY <1>2 DEF Advance, Begin, GetObject, Copy, CloseWriter, Verify,
       DeleteObject, Backoff
  <2>2. dest[k] \in VerifiedObjects[k]
    BY <1>2 DEF IInv, Reading, Committed, Checked, Streaming, VerifiedObjects
  <2>3. Ledger!Record(k)
    BY <1>2, <2>1, <2>2 DEF MarkCompleted, Ledger!Record
  <2>4. QED
    BY <2>3 DEF Ledger!Next
<1>3. CASE completed' = completed /\ dest' # dest
  <2>1. k \notin completed
    BY StepRecorded DEF IInv, RecordedWhenDone
  <2>2. dest'[k] \in Objects
    BY DEF IInv, TypeOK
  <2>3. dest' = [dest EXCEPT ![k] = dest'[k]]
    <3>1. \A j \in Keys : dest'[j] = [dest EXCEPT ![k] = dest'[k]][j]
      BY StepUntouched DEF IInv, TypeOK
    <3>2. QED
      BY <3>1 DEF IInv, TypeOK
  <2>4. Ledger!Store(k)
    BY <1>3, <2>1, <2>2, <2>3 DEF Ledger!Store
  <2>5. QED
    BY <2>4 DEF Ledger!Next
<1>4. QED
  BY <1>1, <1>2, <1>3, StepRecorded

(* The engine implements the ledger: a recorded key's object is never      *)
(* written or deleted again.                                               *)
THEOREM ImplementsLedger == Spec => LedgerSpec
<1>1. ASSUME IInv, IInv', [Next]_vars
      PROVE  [Ledger!Next]_<<dest, completed>>
  <2>1. CASE \E k \in Keys : Advance(k)
    BY <1>1, <2>1, StepLedger
  <2>2. CASE Cancel \/ (\E k \in Keys : Overwrite(k)) \/ UNCHANGED vars
    BY <2>2 DEF Cancel, Overwrite, vars
  <2>3. QED
    BY <1>1, <2>1, <2>2 DEF Next, Terminated
<1>2. QED
  BY <1>1, InitLedger, Invariance, PTL DEF Spec, LedgerSpec, Ledger!Spec, Ledger!vars

-----------------------------------------------------------------------------
(* Retries.  A transfer gives up early only on an error that isRetryable   *)
(* refuses, and every error it gives up on came from a store, from a       *)
(* failed verification, or from the context, once that was cancelled.      *)
HasOrigin(e) == e \in Faults \cup {{}} \/ (e = CtxErr /\ ctxDone)

GivenUp ==
    \A k \in Keys :
        /\ HasOrigin(err[k])
        /\ pc[k] = "failed" => ~isRetryable(err[k]) \/ attempt[k] = MaxRetries

LEMMA GivenUpByFail ==
    ASSUME TypeOK, NEW k \in Keys, NEW e, HasOrigin(e), Fail(k, e), UNCHANGED ctxDone
    PROVE  /\ HasOrigin(err[k])'
           /\ pc'[k] = "failed" => ~isRetryable(err'[k]) \/ attempt'[k] = MaxRetries
<1>1. CASE isRetryable(e) /\ attempt[k] < MaxRetries
  BY <1>1 DEF Fail, TypeOK, HasOrigin
<1>2. CASE ~(isRetryable(e) /\ attempt[k] < MaxRetries)
  <2>1. err'[k] = e
    BY <1>2 DEF Fail, TypeOK
  <2>2. ~isRetryable(e) \/ attempt'[k] = MaxRetries
    BY <1>2, EngineAssumption DEF Fail, TypeOK
  <2> QED
    BY <2>1, <2>2 DEF HasOrigin
<1> QED
  BY <1>1, <1>2

LEMMA GivenUpByStep ==
    ASSUME TypeOK, GivenUp, NEW k \in Keys, Advance(k)
    PROVE  GivenUp'
<1>1. /\ \A e \in Errors : HasOrigin(e)
      /\ HasOrigin(err[k]) /\ HasOrigin({})
  BY DEF Errors, GivenUp, HasOrigin
<1>2. UNCHANGED ctxDone
  BY DEF Advance, Begin, GetObject, Copy, CloseWriter, Verify, DeleteObject, MarkCompleted,
     Backoff
<1>3. /\ HasOrigin(err[k])'
      /\ pc'[k] = "failed" => ~isRetryable(err'[k]) \/ attempt'[k] = MaxRetries
  <2>1. ASSUME NEW e, HasOrigin(e), Fail(k, e)
        PROVE  /\ HasOrigin(err[k])'
               /\ pc'[k] = "failed" => ~isRetryable(err'[k]) \/ attempt'[k] = MaxRetries
    BY <1>2, <2>1, GivenUpByFail
  <2>2. CASE UNCHANGED err /\ pc'[k] # "failed"
    BY <1>1, <1>2, <2>2 DEF HasOrigin
  <2>3. CASE Begin(k) \/ Verify(k) \/ MarkCompleted(k)
    <3>1. UNCHANGED err /\ pc'[k] # "failed"
      BY <2>3 DEF Begin, Verify, MarkCompleted, Return, TypeOK
    <3> QED BY <2>2, <3>1
  <2>4. CASE Copy(k)
    <3>1. pc'[k] # "failed"
      BY <2>4 DEF Copy, TypeOK
    <3>2. HasOrigin(err'[k])
      BY <1>1, <2>4 DEF Copy, TypeOK
    <3> QED BY <1>2, <3>1, <3>2 DEF HasOrigin
  <2>5. CASE Backoff(k)
    <3>1. CASE pc'[k] # "failed" /\ UNCHANGED err
      BY <2>2, <3>1
    <3>2. CASE ctxDone /\ err'[k] = CtxErr
      BY <1>2, <3>2 DEF HasOrigin, isRetryable, CtxErr
    <3> QED
      BY <2>5, <3>1, <3>2 DEF Backoff, TypeOK
  <2>6. CASE GetObject(k)
    <3>1. CASE \E e \in Errors : Fail(k, e)
      BY <1>1, <2>1, <3>1
    <3>2. CASE UNCHANGED err /\ pc'[k] = "copy"
      BY <2>2, <3>2
    <3> QED
      BY <2>6, <3>1, <3>2 DEF GetObject, TypeOK
  <2>7. CASE CloseWriter(k)
    <3>1. CASE \E e \in Errors \cup {err[k]} : Fail(k, e)
      BY <1>1, <2>1, <3>1
    <3>2. CASE UNCHANGED err /\ pc'[k] = "verify"
      BY <2>2, <3>2
    <3> QED
      BY <2>7, <3>1, <3>2 DEF CloseWriter, TypeOK
  <2>8. CASE DeleteObject(k)
    BY <1>1, <2>1, <2>8 DEF DeleteObject
  <2> QED
    BY <2>3, <2>4, <2>5, <2>6, <2>7, <2>8 DEF Advance
<1>4. ASSUME NEW j \in Keys \ {k}
      PROVE  pc'[j] = pc[j] /\ err'[j] = err[j] /\ attempt'[j] = attempt[j]
  BY DEF Advance, Begin, GetObject, Copy, CloseWriter, Verify, DeleteObject, MarkCompleted,
     Backoff, Fail, Return, TypeOK
<1> QED
  BY <1>2, <1>3, <1>4 DEF GivenUp, HasOrigin

LEMMA GivenUpInvariant == Spec => []GivenUp
<1>1. Init => GivenUp
  BY DEF Init, GivenUp, HasOrigin
<1>2. TypeOK /\ GivenUp /\ [Next]_vars => GivenUp'
  <2>1. ASSUME UNCHANGED locals, ctxDone => ctxDone', GivenUp PROVE GivenUp'
    BY <2>1 DEF GivenUp, HasOrigin
  <2>2. CASE Cancel \/ (\E k \in Keys : Overwrite(k)) \/ UNCHANGED vars
    BY <2>1, <2>2 DEF Cancel, Overwrite, vars
  <2> QED
    BY <2>2, GivenUpByStep DEF Next, Terminated
<1>3. QED
  BY <1>1, <1>2, TypeCorrect, PTL DEF Spec

(* Which errors cost all attempts and which end a transfer at once, for    *)
(* any errors the stores may return and any number of retries, interleaved *)
(* with any cancellation; in particular no transfer reports a cancellation *)
(* that did not happen.                                                    *)
THEOREM GivesUpOnlyForCause == Spec => []GivesUpForCause
<1>1. GivenUp => GivesUpForCause
  <2> SUFFICES ASSUME GivenUp, NEW k \in Keys, pc[k] = "failed", attempt[k] < MaxRetries
               PROVE  \/ "ctx" \in err[k] /\ (ctxDone \/ err[k] \in Faults)
                      \/ "net" \in err[k] /\ "timeout" \notin err[k]
                      \/ err[k] \cap {"net", "retryCode", "googleapi5", "eof", "resetText"} = {}
    BY DEF GivesUpForCause
  <2>1. ~isRetryable(err[k])
    <3>1. attempt[k] # MaxRetries
      BY EngineAssumption
    <3> QED BY <3>1 DEF GivenUp
  <2>2. CASE "ctx" \in err[k]
    BY <2>2 DEF GivenUp, HasOrigin
  <2>3. CASE "ctx" \notin err[k] /\ "net" \in err[k]
    BY <2>1, <2>3 DEF isRetryable
  <2>4. CASE "ctx" \notin err[k] /\ "net" \notin err[k]
    BY <2>1, <2>4 DEF isRetryable
  <2> QED
    BY <2>2, <2>3, <2>4
<1>2. QED
  BY <1>1, GivenUpInvariant, PTL
=============================================================================
