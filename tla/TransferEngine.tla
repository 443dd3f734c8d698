--------------------------- MODULE TransferEngine ---------------------------
(***************************************************************************)
(* transfer.go: TransferEngine.Transfer (the retry loop), doTransfer (one  *)
(* streaming attempt) and isRetryable, for a set of keys that are          *)
(* transferred concurrently.  Each call of doTransfer is split at its      *)
(* calls to the two object stores.  The stores are external: any call may  *)
(* fail, a read may end early or be garbled, a Close that reports an error *)
(* may have committed all the same.  A committed upload replaces the       *)
(* destination object at once and no commit takes effect after Close has   *)
(* returned.                                                               *)
(***************************************************************************)
EXTENDS Naturals

CONSTANTS
    Keys,           \* the keys handed to the engine
    Contents,       \* versions of source objects
    SizeOf,         \* SizeOf[c]: the size of version c
    Listed,         \* Listed[k]: the version whose size and ETag the job carries
    Multipart,      \* the keys whose ETag contains "-"
    NoObject,       \* the value of dest[k] when the bucket has no such key
    MaxRetries,     \* cfg.MaxRetries
    Faults,         \* the errors a store may return (sets of Facts)
    CloseAmbiguous, \* TRUE when a failed Close may still have committed
    MaxOverwrites   \* bound: changes of the source during the migration

(* What an error is.  isRetryable and isFatalError can tell that it        *)
(* matches context.Canceled or DeadlineExceeded, that it is a net.Error,   *)
(* one that timed out, that it carries one of the smithy codes they list   *)
(* ("retryCode", "fatalCode"), that its text has "googleapi: Error 5",     *)
(* that it is an EOF, that its text names a reset connection or a broken   *)
(* pipe.  They cannot tell by itself that a store is "busy", that is, has  *)
(* answered with a 5xx or a 429.                                           *)
Facts == {"ctx", "net", "timeout", "retryCode", "fatalCode", "googleapi5",
          "eof", "resetText", "busy"}

ASSUME EngineAssumption ==
    /\ Keys # {}
    /\ SizeOf \in [Contents -> Nat \ {0}]
    /\ Listed \in [Keys -> Contents]
    /\ Multipart \subseteq Keys
    /\ MaxRetries \in Nat
    /\ MaxOverwrites \in Nat
    /\ CloseAmbiguous \in BOOLEAN
    /\ Faults \subseteq SUBSET Facts

(* The bytes of version c as they may come out of a read: all of them      *)
(* (intact, so that their MD5 is c's), as many but garbled, or fewer.      *)
Streams(c) == {d \in [of : {c}, len : 0 .. SizeOf[c], intact : BOOLEAN] :
                   d.intact => d.len = SizeOf[c]}
Data == UNION {Streams(c) : c \in Contents}
Objects == Data \cup {NoObject}

ASSUME NoObjectAssumption == NoObject \notin Data

VARIABLES
    source,     \* source[k]: the version the source bucket holds now
    dest,       \* dest[k]: the data the destination bucket holds, or NoObject
    completed,  \* the keys passed to StateManager.MarkCompleted
    ctxDone,    \* the context of the transfers has been cancelled
    overwrites, \* changes of the source so far
    pc,         \* pc[k]: where the goroutine that transfers k is
    attempt,    \* attempt[k]: the loop variable of Transfer
    stream,     \* stream[k]: what this attempt read, hashed and counted
    copyErr,    \* copyErr[k]: the side on which io.CopyBuffer failed, or "none"
    err         \* err[k]: the error the current attempt met or Transfer returned

stores == <<source, dest, overwrites>>
locals == <<pc, attempt, stream, copyErr, err>>
vars == <<stores, completed, ctxDone, locals>>

PCs == {"idle", "get", "copy", "close", "verify", "delete", "mark",
        "backoff", "done", "failed"}

TypeOK ==
    /\ source \in [Keys -> Contents]
    /\ dest \in [Keys -> Objects]
    /\ completed \subseteq Keys
    /\ ctxDone \in BOOLEAN
    /\ overwrites \in 0 .. MaxOverwrites
    /\ pc \in [Keys -> PCs]
    /\ attempt \in [Keys -> 0 .. MaxRetries]
    /\ stream \in [Keys -> Objects]
    /\ copyErr \in [Keys -> {"none", "read", "write"}]
    /\ err \in [Keys -> SUBSET Facts]

Init ==
    /\ source = Listed
    /\ dest = [k \in Keys |-> NoObject]
    /\ completed = {}
    /\ ctxDone = FALSE
    /\ overwrites = 0
    /\ pc = [k \in Keys |-> "idle"]
    /\ attempt = [k \in Keys |-> 0]
    /\ stream = [k \in Keys |-> NoObject]
    /\ copyErr = [k \in Keys |-> "none"]
    /\ err = [k \in Keys |-> {}]

-----------------------------------------------------------------------------
(* Mutant: retry everything but the fatal codes.                           *)
isRetryableUnlessFatal(e) == "fatalCode" \notin e

(* The order of the tests matters: a net.Error is classified by Timeout()  *)
(* alone and never reaches the tests that follow.                          *)
isRetryable(e) ==
    /\ "ctx" \notin e
    /\ IF "net" \in e THEN "timeout" \in e
       ELSE e \cap {"retryCode", "googleapi5", "eof", "resetText"} # {}

(* Every store call takes the context: after a cancellation it fails with  *)
(* the context's error.                                                    *)
CtxErr == {"ctx"}
Errors == IF ctxDone THEN {CtxErr} ELSE Faults

Matches(k, d) ==
    /\ d.len = SizeOf[Listed[k]]
    /\ k \in Multipart \/ (d.of = Listed[k] /\ d.intact)

Goto(k, label) == pc' = [pc EXCEPT ![k] = label]

(* doTransfer returns: its locals are gone.                                *)
Return(k) ==
    /\ stream' = [stream EXCEPT ![k] = NoObject]
    /\ copyErr' = [copyErr EXCEPT ![k] = "none"]

(* Mutant: the loop runs one attempt too many.                             *)
FailTooLate(k, e) ==
    /\ Return(k)
    /\ IF isRetryable(e) /\ attempt[k] <= MaxRetries
       THEN /\ Goto(k, "backoff")
            /\ attempt' = [attempt EXCEPT ![k] = @ + 1]
            /\ err' = [err EXCEPT ![k] = {}]
       ELSE /\ Goto(k, "failed")
            /\ err' = [err EXCEPT ![k] = e]
            /\ UNCHANGED attempt

(* Mutant: the loop stops one attempt too early.                           *)
FailTooEarly(k, e) ==
    /\ Return(k)
    /\ IF isRetryable(e) /\ attempt[k] + 1 < MaxRetries
       THEN /\ Goto(k, "backoff")
            /\ attempt' = [attempt EXCEPT ![k] = @ + 1]
            /\ err' = [err EXCEPT ![k] = {}]
       ELSE /\ Goto(k, "failed")
            /\ err' = [err EXCEPT ![k] = e]
            /\ UNCHANGED attempt

(* doTransfer returns error e: leave Transfer with it, or go round the     *)
(* loop to the backoff of the next attempt.  lastErr is read only after    *)
(* the last attempt, so that an error that is retried is forgotten.        *)
Fail(k, e) ==
    /\ Return(k)
    /\ IF isRetryable(e) /\ attempt[k] < MaxRetries
       THEN /\ Goto(k, "backoff")
            /\ attempt' = [attempt EXCEPT ![k] = @ + 1]
            /\ err' = [err EXCEPT ![k] = {}]
       ELSE /\ Goto(k, "failed")
            /\ err' = [err EXCEPT ![k] = e]
            /\ UNCHANGED attempt

(* The pool calls Transfer.                                                *)
Begin(k) ==
    /\ pc[k] = "idle"
    /\ Goto(k, "get")
    /\ UNCHANGED <<stores, completed, ctxDone, attempt, stream, copyErr, err>>

(* The body that GetObject returns is the version current at the call.     *)
GetObject(k) ==
    /\ pc[k] = "get"
    /\ \/ /\ ~ctxDone
          /\ stream' = [stream EXCEPT ![k] =
                           [of |-> source[k], len |-> 0, intact |-> FALSE]]
          /\ Goto(k, "copy")
          /\ UNCHANGED <<attempt, copyErr, err>>
       \/ \E e \in Errors : Fail(k, e)
    /\ UNCHANGED <<stores, completed, ctxDone>>

(* io.CopyBuffer from the tee reader to the GCS writer.  What was read     *)
(* before a failed write is not looked at again.                           *)
Copy(k) ==
    /\ pc[k] = "copy"
    /\ \/ /\ ~ctxDone
          /\ \E d \in Streams(stream[k].of) : stream' = [stream EXCEPT ![k] = d]
          /\ UNCHANGED <<copyErr, err>>
       \/ \E e \in Errors :
             /\ err' = [err EXCEPT ![k] = e]
             /\ \/ /\ copyErr' = [copyErr EXCEPT ![k] = "read"]
                   /\ \E d \in Streams(stream[k].of) :
                          stream' = [stream EXCEPT ![k] = d]
                \/ /\ copyErr' = [copyErr EXCEPT ![k] = "write"]
                   /\ UNCHANGED stream
    /\ Goto(k, "close")
    /\ UNCHANGED <<stores, completed, ctxDone, attempt>>

(* writer.Close() is called whether or not the copy failed and commits     *)
(* what was written so far, except after a failed write.  An error of the  *)
(* copy takes precedence over one of Close.                                *)
Commit(k) == dest' = [dest EXCEPT ![k] = stream[k]]

(* Mutant: the result of Close is not looked at.                           *)
CloseWriterUnchecked(k) ==
    /\ pc[k] = "close"
    /\ IF copyErr[k] = "none"
       THEN /\ UNCHANGED dest \/ (~ctxDone /\ Commit(k))
            /\ Goto(k, "verify")
            /\ UNCHANGED <<attempt, stream, copyErr, err>>
       ELSE UNCHANGED dest /\ Fail(k, err[k])
    /\ UNCHANGED <<source, overwrites, completed, ctxDone>>

(* Mutant: the key is recorded at the commit, before the verification.     *)
CloseWriterRecords(k) ==
    /\ pc[k] = "close" /\ copyErr[k] = "none" /\ ~ctxDone
    /\ Commit(k)
    /\ Goto(k, "verify")
    /\ completed' = completed \cup {k}
    /\ UNCHANGED <<source, overwrites, ctxDone, attempt, stream, copyErr, err>>

CloseWriter(k) ==
    /\ pc[k] = "close"
    /\ \/ /\ ~ctxDone /\ copyErr[k] # "write"
          /\ Commit(k)
          /\ IF copyErr[k] = "none"
             THEN Goto(k, "verify") /\ UNCHANGED <<attempt, stream, copyErr, err>>
             ELSE Fail(k, err[k])
       \/ \E e \in Errors :
             /\ \/ UNCHANGED dest
                \/ CloseAmbiguous /\ copyErr[k] # "write" /\ Commit(k)
             /\ Fail(k, IF copyErr[k] = "none" THEN e ELSE err[k])
    /\ UNCHANGED <<source, overwrites, completed, ctxDone>>

(* The size check, then the MD5 check unless the ETag is a multipart one.  *)
Verify(k) ==
    /\ pc[k] = "verify"
    /\ Goto(k, IF Matches(k, stream[k]) THEN "mark" ELSE "delete")
    /\ UNCHANGED <<stores, completed, ctxDone, attempt, stream, copyErr, err>>

(* obj.Delete after a mismatch; its own failure is only logged.  The error *)
(* returned, "size mismatch" or "md5 mismatch", has none of the facts.     *)
DeleteObject(k) ==
    /\ pc[k] = "delete"
    /\ \/ ~ctxDone /\ dest' = [dest EXCEPT ![k] = NoObject]
       \/ Errors # {} /\ UNCHANGED dest
    /\ Fail(k, {})
    /\ UNCHANGED <<source, overwrites, completed, ctxDone>>

MarkCompleted(k) ==
    /\ pc[k] = "mark"
    /\ completed' = completed \cup {k}
    /\ Return(k)
    /\ Goto(k, "done")
    /\ UNCHANGED <<stores, ctxDone, attempt, err>>

(* The select of the backoff: the timer, or the end of the context.  When  *)
(* both are ready either may be taken.                                     *)
Backoff(k) ==
    /\ pc[k] = "backoff"
    /\ \/ Goto(k, "get") /\ UNCHANGED err
       \/ ctxDone /\ Goto(k, "failed") /\ err' = [err EXCEPT ![k] = CtxErr]
    /\ UNCHANGED <<stores, completed, ctxDone, attempt, stream, copyErr>>

Advance(k) ==
    \/ Begin(k) \/ GetObject(k) \/ Copy(k) \/ CloseWriter(k) \/ Verify(k)
    \/ DeleteObject(k) \/ MarkCompleted(k) \/ Backoff(k)

-----------------------------------------------------------------------------
(* Environment: cancellation, and writers of the source bucket.            *)
Cancel ==
    /\ ~ctxDone
    /\ ctxDone' = TRUE
    /\ UNCHANGED <<stores, completed, locals>>

Overwrite(k) ==
    /\ overwrites < MaxOverwrites
    /\ \E c \in Contents \ {source[k]} : source' = [source EXCEPT ![k] = c]
    /\ overwrites' = overwrites + 1
    /\ UNCHANGED <<dest, completed, ctxDone, locals>>

Terminated ==
    /\ \A k \in Keys : pc[k] \in {"done", "failed"}
    /\ UNCHANGED vars

Next ==
    \/ \E k \in Keys : Advance(k) \/ Overwrite(k)
    \/ Cancel
    \/ Terminated

Spec == Init /\ [][Next]_vars

-----------------------------------------------------------------------------
(* A key in the completed set has an object in the destination that passed *)
(* the size check and, unless its ETag is a multipart one, the MD5 check,  *)
(* however many attempts, partial commits and deletions came before.  The  *)
(* code checks the bytes that went through its own hash, never the object: *)
(* the property ties the one to the other (transfer.go 152-187).           *)
CompletedVerified ==
    \A k \in completed : dest[k] \in Data /\ Matches(k, dest[k])

(* What the retry loop does with the errors the stores really return: with *)
(* an attempt left, Transfer gives up only when it was cancelled, or on a  *)
(* store error that matches the context's (the time limits of the HTTP     *)
(* client do), on a net.Error that did not time out, whatever else it says *)
(* (a reset connection, a request that met EOF), and on an error that is   *)
(* none of: a listed smithy code, a googleapi 5xx, an EOF, a reset.  To    *)
(* the last belong a failed verification and every 5xx that is named in    *)
(* another way (transfer.go:60-103, 193-238).  A timeout, SlowDown, or a   *)
(* body that ends early thus costs all attempts, however a cancellation    *)
(* races the backoff.                                                      *)
GivesUpForCause ==
    \A k \in Keys :
        pc[k] = "failed" /\ attempt[k] < MaxRetries =>
            \/ "ctx" \in err[k] /\ (ctxDone \/ err[k] \in Faults)
            \/ "net" \in err[k] /\ "timeout" \notin err[k]
            \/ err[k] \cap {"net", "retryCode", "googleapi5", "eof", "resetText"} = {}

(* Once the context is cancelled no new attempt is queued for an error of  *)
(* a store call made after the cancellation: only the outcome of an        *)
(* earlier copy, which Close could not change any more, still leads to a   *)
(* backoff, and that backoff leads to at most one call that fails.         *)
CancelNotRetried ==
    [][\A k \in Keys :
          ctxDone /\ pc[k] \notin {"close", "backoff"} => pc'[k] # "backoff"]_vars

(* The engine implements the ledger's promise.                             *)
VerifiedObjects == [k \in Keys |-> {d \in Data : Matches(k, d)}]
Ledger == INSTANCE ObjectLedger WITH
              recorded <- completed, Verified <- VerifiedObjects
LedgerSpec == Ledger!Spec

(* "Corrupt uploads are automatically deleted" (README.md:13): when the    *)
(* transfer of a key has given up without being cancelled and no Close was *)
(* ambiguous, whatever the destination holds under it passes the checks.   *)
NoCorruptLeft ==
    \A k \in Keys :
        pc[k] = "failed" /\ ~ctxDone /\ dest[k] # NoObject => Matches(k, dest[k])

(* "5xx server errors" and "Connection reset" are retried                  *)
(* (MIGRATION_TOOL_SPEC.md:1623-1627, README.md:18).  The formula asks for *)
(* less, that one of the two be: no state has both a transfer that was     *)
(* given up on a 5xx and one that was given up on a reset, each with an    *)
(* attempt left.                                                           *)
GivenUpEarly(fact) ==
    {k \in Keys : pc[k] = "failed" /\ fact \in err[k] /\ attempt[k] < MaxRetries}

TransientIsRetried == GivenUpEarly("busy") = {} \/ GivenUpEarly("resetText") = {}
=============================================================================
