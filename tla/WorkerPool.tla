----------------------------- MODULE WorkerPool -----------------------------
(***************************************************************************)
(* pool.go: WorkerPool.Run, which takes jobs from the channel, acquires a  *)
(* slot for each and starts a goroutine that runs processJob, and those    *)
(* goroutines.  TransferEngine.Transfer is seen here only through its      *)
(* outcome.  A goroutine is named by the key of its job.                   *)
(***************************************************************************)
EXTENDS ProgressBars

CONSTANT
    Failures   \* how a transfer may fail by itself: "failed", "fatal"

ASSUME FailuresAssumption == Failures \subseteq {"failed", "fatal"}

VARIABLES
    rpc,       \* Run: "recv", "acquire", "wait", "return", "returned"
    rjob,      \* Run's current job while it acquires a slot, or NoKey
    rerr,      \* what Run returns: "nil", "ctx", "fatal"
    groupErr,  \* the first error of the pool's errgroup: "nil", "fatal"
    sem,       \* the slot IDs in the semaphore channel (their order is
               \* left out: a receive may get any of them)
    gpc,       \* gpc[k]: the goroutine of k's job
    slot,      \* slot[k]: its workerID, 0 when it is not running
    outcome    \* outcome[k]: what Transfer returned to it, while it runs

poolVars == <<rpc, rjob, rerr, groupErr, sem, gpc, slot, outcome>>

(* "none": not started; "start": before progress.StartTransfer;            *)
(* "transfer": in Transfer; "report": Transfer has returned; "release":    *)
(* the deferred send of the slot ID is next; "exit": the function given to *)
(* g.Go has returned an error that the errgroup has not yet got; "gone".   *)
GoroutinePCs == {"none", "start", "transfer", "report", "release", "exit", "gone"}
HoldsSlot == {"start", "transfer", "report", "release"}
InFlight == {"start", "transfer", "report"}

PoolTypeOK ==
    /\ rpc \in {"recv", "acquire", "wait", "return", "returned"}
    /\ rjob \in Keys \cup {NoKey}
    /\ rerr \in {"nil", "ctx", "fatal"}
    /\ groupErr \in {"nil", "fatal"}
    /\ sem \subseteq Slots
    /\ gpc \in [Keys -> GoroutinePCs]
    /\ slot \in [Keys -> Slots]
    /\ outcome \in [Keys -> {"none", "ok", "failed", "fatal", "ctx"}]

PoolInit ==
    /\ rpc = "recv"
    /\ rjob = NoKey
    /\ rerr = "nil"
    /\ groupErr = "nil"
    /\ sem = Slots
    /\ gpc = [k \in Keys |-> "none"]
    /\ slot = [k \in Keys |-> 0]
    /\ outcome = [k \in Keys |-> "none"]

-----------------------------------------------------------------------------
(* Run.                                                                    *)

(* for job := range wp.jobs: the next job, or the end of a closed channel. *)
Receive ==
    /\ rpc = "recv"
    /\ \/ /\ jobs # <<>>
          /\ rjob' = Head(jobs)
          /\ jobs' = Tail(jobs)
          /\ rpc' = "acquire"
       \/ /\ jobs = <<>> /\ closed
          /\ rpc' = "wait"
          /\ UNCHANGED <<rjob, jobs>>
    /\ UNCHANGED <<rerr, groupErr, sem, gpc, slot, outcome,
                   closed, cancelled, completed, barVars>>

(* The select on the semaphore: a slot, and the goroutine is started; or   *)
(* the end of the context, and Run returns at once, dropping the job and   *)
(* waiting for nobody.                                                     *)
Acquire ==
    /\ rpc = "acquire"
    /\ \/ \E s \in sem :
             /\ sem' = sem \ {s}
             /\ gpc' = [gpc EXCEPT ![rjob] = "start"]
             /\ slot' = [slot EXCEPT ![rjob] = s]
             /\ rpc' = "recv"
             /\ UNCHANGED rerr
       \/ /\ InnerDone
          /\ rerr' = "ctx"
          /\ rpc' = "return"
          /\ UNCHANGED <<sem, gpc, slot>>
    /\ rjob' = NoKey
    /\ UNCHANGED <<groupErr, outcome, jobs, closed, cancelled, completed, barVars>>

(* Mutant: Run returns when the channel is drained, without g.Wait().      *)
WaitWorkersNot ==
    /\ rpc = "wait"
    /\ rerr' = groupErr
    /\ rpc' = "return"
    /\ UNCHANGED <<rjob, groupErr, sem, gpc, slot, outcome,
                   jobs, closed, cancelled, completed, barVars>>

(* g.Wait(): every goroutine has finished; it cancels the inner context.   *)
WaitWorkers ==
    /\ rpc = "wait"
    /\ \A k \in Keys : gpc[k] \in {"none", "gone"}
    /\ rerr' = groupErr
    /\ rpc' = "return"
    /\ cancelled' = cancelled \cup {"inner"}
    /\ UNCHANGED <<rjob, groupErr, sem, gpc, slot, outcome,
                   jobs, closed, completed, barVars>>

-----------------------------------------------------------------------------
(* The goroutine of job k.                                                 *)
Step(k, from, to) == gpc[k] = from /\ gpc' = [gpc EXCEPT ![k] = to]

(* Mutant: the slot is given back at the start, not by a deferred call.    *)
StartReleases(k) ==
    /\ Step(k, "start", "transfer")
    /\ StartTransfer(slot[k], k)
    /\ sem' = sem \cup {slot[k]}
    /\ UNCHANGED <<rpc, rjob, rerr, groupErr, slot, outcome,
                   jobs, closed, cancelled, completed>>

Start(k) ==
    /\ Step(k, "start", "transfer")
    /\ StartTransfer(slot[k], k)
    /\ UNCHANGED <<rpc, rjob, rerr, groupErr, sem, slot, outcome,
                   jobs, closed, cancelled, completed>>

(* Transfer returns.  It returns nil only after MarkCompleted, and the     *)
(* context's error only when the context is done; it may still succeed or  *)
(* fail otherwise then.                                                    *)
Transfer(k) ==
    /\ Step(k, "transfer", "report")
    /\ \/ /\ outcome' = [outcome EXCEPT ![k] = "ok"]
          /\ completed' = completed \cup {k}
       \/ /\ \E o \in Failures \cup (IF InnerDone THEN {"ctx"} ELSE {}) :
                outcome' = [outcome EXCEPT ![k] = o]
          /\ UNCHANGED completed
    /\ UNCHANGED <<rpc, rjob, rerr, groupErr, sem, slot,
                   jobs, closed, cancelled, barVars>>

(* The rest of processJob.                                                 *)
Report(k) ==
    /\ Step(k, "report", "release")
    /\ IF outcome[k] = "ok" THEN CompleteTransfer(slot[k]) ELSE FailTransfer(slot[k])
    /\ UNCHANGED <<rpc, rjob, rerr, groupErr, sem, slot, outcome,
                   jobs, closed, cancelled, completed>>

(* The goroutine's locals are gone.                                        *)
Forget(k) ==
    /\ outcome' = [outcome EXCEPT ![k] = "none"]
    /\ slot' = [slot EXCEPT ![k] = 0]

(* Mutant: the slot is given back only when processJob returned nil.       *)
ReleaseUnlessFatal(k) ==
    /\ gpc[k] = "release"
    /\ IF outcome[k] = "fatal"
       THEN gpc' = [gpc EXCEPT ![k] = "exit"] /\ UNCHANGED <<sem, slot, outcome>>
       ELSE /\ gpc' = [gpc EXCEPT ![k] = "gone"]
            /\ sem' = sem \cup {slot[k]}
            /\ Forget(k)
    /\ UNCHANGED <<rpc, rjob, rerr, groupErr,
                   jobs, closed, cancelled, completed, barVars>>

(* The deferred function: the slot goes back before the errgroup sees the  *)
(* error.  Only a fatal error was returned by processJob: of a goroutine   *)
(* that returns nil the errgroup only notes the end, in the same step.     *)
Release(k) ==
    /\ gpc[k] = "release"
    /\ sem' = sem \cup {slot[k]}
    /\ IF outcome[k] = "fatal"
       THEN gpc' = [gpc EXCEPT ![k] = "exit"] /\ UNCHANGED <<slot, outcome>>
       ELSE gpc' = [gpc EXCEPT ![k] = "gone"] /\ Forget(k)
    /\ UNCHANGED <<rpc, rjob, rerr, groupErr,
                   jobs, closed, cancelled, completed, barVars>>

(* The errgroup gets a fatal error: the first one is kept and cancels the  *)
(* inner context.                                                          *)
Exit(k) ==
    /\ Step(k, "exit", "gone")
    /\ groupErr' = "fatal"
    /\ cancelled' = cancelled \cup {"inner"}
    /\ Forget(k)
    /\ UNCHANGED <<rpc, rjob, rerr, sem, jobs, closed, completed, barVars>>

Goroutine(k) == Start(k) \/ Transfer(k) \/ Report(k) \/ Release(k) \/ Exit(k)
Run == Receive \/ Acquire \/ WaitWorkers

-----------------------------------------------------------------------------
(* A slot ID is in the semaphore or held by one goroutine, never both and  *)
(* never by two: currentBars and currentState are indexed by it without a  *)
(* lock (progress.go:36-37).                                               *)
SlotExclusive ==
    /\ \A k \in Keys : gpc[k] \in HoldsSlot => slot[k] \notin sem
    /\ \A j, k \in Keys :
          gpc[j] \in HoldsSlot /\ gpc[k] \in HoldsSlot /\ slot[j] = slot[k] => j = k

(* No slot ID is ever lost: what the semaphore does not hold, a goroutine  *)
(* holds and will give back, also after a failure (pool.go:69-72).         *)
SlotConserved ==
    \A s \in Slots \ sem : \E k \in Keys : gpc[k] \in HoldsSlot /\ slot[k] = s
=============================================================================
