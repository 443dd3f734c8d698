------------------------------ MODULE Migration ------------------------------
(***************************************************************************)
(* main.go:runMigration from the creation of the jobs channel on: the      *)
(* lister and the pool under one errgroup, the signal handler with its     *)
(* forced exit, and the end of the run (Complete, Wait, exit code).        *)
(* Once the process has exited no goroutine takes a step.                  *)
(***************************************************************************)
EXTENDS Lister, WorkerPool

CONSTANT
    CompletedBefore   \* the keys already in the completed set at the start

ASSUME CompletedBeforeAssumption ==
    CompletedBefore \subseteq Keys /\ IsFiniteSet(CompletedBefore)

VARIABLES
    mpc,        \* the main goroutine: "group", "sweep", "failed", "overall",
                \* "wait", "exited"
    swept,      \* the slots Complete has visited
    outerErr,   \* the first error of main's errgroup: "nil", "ctx", "fatal", "list"
    signalled,  \* the signal goroutine has taken a signal
    exit        \* "running", "ok" (code 0), "error" (code 1), "forced" (os.Exit(1))

mainVars == <<mpc, swept, outerErr, signalled, exit>>
chanVars == <<jobs, closed>>
vars == <<chanVars, cancelled, completed, listerVars, poolVars, barVars, mainVars>>

TypeOK ==
    /\ jobs \in Seq(Keys) /\ Len(jobs) <= Capacity
    /\ closed \in BOOLEAN
    /\ cancelled \subseteq Contexts
    /\ completed \subseteq Keys
    /\ ListerTypeOK
    /\ PoolTypeOK
    /\ BarsTypeOK
    /\ mpc \in {"group", "sweep", "failed", "overall", "wait", "exited"}
    /\ swept \in 0 .. Workers
    /\ outerErr \in {"nil", "ctx", "fatal", "list"}
    /\ signalled \in BOOLEAN
    /\ exit \in {"running", "ok", "error", "forced"}

Init ==
    /\ jobs = <<>>
    /\ closed = FALSE
    /\ cancelled = {}
    /\ completed = CompletedBefore
    /\ ListerInit
    /\ PoolInit
    /\ \E preloaded \in {0, Cardinality(CompletedBefore)} : BarsInit(preloaded)
    /\ mpc = "group"
    /\ swept = 0
    /\ outerErr = "nil"
    /\ signalled = FALSE
    /\ exit = "running"

-----------------------------------------------------------------------------
Running == mpc # "exited"

(* Mutant: the last error is kept.                                         *)
GroupGetsLast(e) ==
    IF e # "nil"
    THEN outerErr' = e /\ cancelled' = cancelled \cup {"outer"}
    ELSE UNCHANGED <<outerErr, cancelled>>

(* errgroup.Go: the first error is kept and cancels the outer context.     *)
GroupGets(e) ==
    IF e # "nil" /\ outerErr = "nil"
    THEN outerErr' = e /\ cancelled' = cancelled \cup {"outer"}
    ELSE UNCHANGED <<outerErr, cancelled>>

ListerReturn ==
    /\ lpc = "return"
    /\ lpc' = "returned"
    /\ GroupGets(lerr)
    /\ UNCHANGED <<page, pageJobs, total, skipped, current, lerr, manifest, chanVars,
                   completed, poolVars, barVars, mpc, swept, signalled, exit>>

RunReturn ==
    /\ rpc = "return"
    /\ rpc' = "returned"
    /\ GroupGets(rerr)
    /\ UNCHANGED <<rjob, rerr, groupErr, sem, gpc, slot, outcome, chanVars,
                   completed, listerVars, barVars, mpc, swept, signalled, exit>>

ListerStep ==
    /\ Running
    /\ \/ /\ NextPage(OuterDone) \/ SendJob(OuterDone) \/ EndOfListing \/ CloseJobs
          /\ UNCHANGED <<poolVars, barVars, mainVars>>
       \/ UpdateTotals /\ UNCHANGED <<poolVars, mainVars>>
       \/ ListerReturn

RunStep ==
    /\ Running
    /\ \/ Run /\ UNCHANGED <<listerVars, mainVars>>
       \/ RunReturn

GoroutineStep(k) == Running /\ Goroutine(k) /\ UNCHANGED <<listerVars, mainVars>>

-----------------------------------------------------------------------------
(* The main goroutine.                                                     *)
MainGoto(from, to) == mpc = from /\ mpc' = to

(* g.Wait(): both have returned; it cancels the outer context.             *)
GroupWait ==
    /\ MainGoto("group", "sweep")
    /\ lpc = "returned" /\ rpc = "returned"
    /\ cancelled' = cancelled \cup {"outer"}
    /\ UNCHANGED <<chanVars, completed, listerVars, poolVars, barVars,
                   swept, outerErr, signalled, exit>>

(* progress.Complete(): its loop over the slots, one slot at a time.       *)
Sweep ==
    /\ mpc = "sweep"
    /\ IF swept < Workers
       THEN /\ AbortSlot(swept)
            /\ swept' = swept + 1
            /\ UNCHANGED mpc
       ELSE mpc' = "failed" /\ UNCHANGED <<swept, barVars>>
    /\ UNCHANGED <<chanVars, cancelled, completed, listerVars, poolVars,
                   outerErr, signalled, exit>>

EndFailedBars ==
    /\ MainGoto("failed", "overall")
    /\ CompleteFailed
    /\ UNCHANGED <<chanVars, cancelled, completed, listerVars, poolVars,
                   swept, outerErr, signalled, exit>>

EndOverallBar ==
    /\ MainGoto("overall", "wait")
    /\ CompleteOverall
    /\ UNCHANGED <<chanVars, cancelled, completed, listerVars, poolVars,
                   swept, outerErr, signalled, exit>>

(* progress.Wait() returns, then runMigration and the process.             *)
Return ==
    /\ MainGoto("wait", "exited")
    /\ WaitReturns
    /\ exit' = IF outerErr = "nil" THEN "ok" ELSE "error"
    /\ UNCHANGED <<chanVars, cancelled, completed, listerVars, poolVars, barVars,
                   swept, outerErr, signalled>>

MainStep == GroupWait \/ Sweep \/ EndFailedBars \/ EndOverallBar \/ Return

-----------------------------------------------------------------------------
(* The signal goroutine: the first SIGINT or SIGTERM cancels the root      *)
(* context and arms a timer that ends the process two seconds later.       *)
Signal ==
    /\ Running /\ ~signalled
    /\ signalled' = TRUE
    /\ cancelled' = cancelled \cup {"root"}
    /\ UNCHANGED <<chanVars, completed, listerVars, poolVars, barVars,
                   mpc, swept, outerErr, exit>>

(* Mutant: the timer is stopped when the errgroup has returned.            *)
ForceExitOfGroup ==
    /\ mpc = "group" /\ signalled
    /\ mpc' = "exited"
    /\ exit' = "forced"
    /\ UNCHANGED <<chanVars, cancelled, completed, listerVars, poolVars, barVars,
                   swept, outerErr, signalled>>

ForceExit ==
    /\ Running /\ signalled
    /\ mpc' = "exited"
    /\ exit' = "forced"
    /\ UNCHANGED <<chanVars, cancelled, completed, listerVars, poolVars, barVars,
                   swept, outerErr, signalled>>

Terminated == ~Running /\ UNCHANGED vars

Work ==
    \/ ListerStep
    \/ RunStep
    \/ \E k \in Keys : GoroutineStep(k)
    \/ MainStep
    \/ ForceExit

Next == Work \/ Signal \/ Terminated

Spec == Init /\ [][Next]_vars

(* The Go runtime runs some goroutine while one can run, every call to the *)
(* two stores returns, and a timer that was armed fires; a signal need     *)
(* never come.  One condition for all goroutines is enough, and assumes    *)
(* less than one for each, because no goroutine here can run for ever.     *)
FairSpec == Spec /\ WF_vars(Work)

-----------------------------------------------------------------------------
Listed == UNION {{Pages[p][i] : i \in 1 .. Len(Pages[p])} : p \in 1 .. Len(Pages)}

(* The unsynchronised currentBars: while Complete has not begun, a         *)
(* transfer finds its own bar in its slot (progress.go:295, 301, 338).     *)
BarIsMine ==
    mpc = "group" =>
        \A k \in Keys :
            gpc[k] \in {"transfer", "report"} => currentBars[slot[k]] = k

(* Exit code 0 means that every object of the listing was dealt with: it   *)
(* is completed, or its goroutine has ended and reported it among the      *)
(* "Failed Files"; and none of them met a fatal error (main.go:566-584).   *)
SuccessAccountsForAll ==
    exit = "ok" =>
        /\ \A k \in Listed \ ZeroSize : k \in completed \/ gpc[k] = "gone"
        /\ groupErr = "nil"

(* A manifest is saved only for a listing read to its end: its total is    *)
(* the number of all non-empty objects, and every one that was not yet     *)
(* completed has been handed over (lister.go:102-113).                     *)
ManifestIsWholeListing ==
    manifest # NoManifest =>
        /\ manifest = Cardinality(Listed \ ZeroSize)
        /\ pageJobs = {}

(* An object recorded by an earlier run, or an empty one, is never         *)
(* transferred (README.md:5).                                              *)
NothingTransferredTwice ==
    \A k \in CompletedBefore \cup ZeroSize : gpc[k] = "none"

(* The error the user is shown has a cause, although it is not always the  *)
(* first thing that went wrong: "context canceled" means that a signal or  *)
(* a fatal error of a transfer has cancelled a context, never that the     *)
(* lister or the pool was stopped by the other's normal end or by a failed *)
(* listing; a fatal error is one that a transfer did meet                  *)
(* (pool.go:60-77, main.go:551-565).                                       *)
ErrorHasCause ==
    /\ outerErr = "ctx" => signalled \/ groupErr = "fatal"
    /\ outerErr = "fatal" => groupErr = "fatal"

(* The overall bar counts every transfer that was reported once, and of    *)
(* the bytes completed by earlier runs no byte twice, although the lister  *)
(* reads and stores completedBytes while the workers add to it             *)
(* (progress.go:168-177, 328-329).  It may show less than was done, and    *)
(* completedBytes may lag behind it, but neither ever shows more.          *)
Reported == {k \in completed \ CompletedBefore : gpc[k] # "report"}

OverallIsHonest ==
    /\ Cardinality(Reported) <= overall
    /\ overall <= Cardinality(Reported) + Cardinality(CompletedBefore)
    /\ completedBytes <= overall

(* g.Wait() of main always returns, also when Run has returned early while *)
(* the lister was blocked on the full channel, or the lister has failed    *)
(* while Run was waiting for a job.                                        *)
GroupReturns == <>(mpc # "group")

(* A run whose pool was not cut short ends by itself: every bar is         *)
(* completed, so that container.Wait() returns (progress.go:450-452).      *)
UncutRunExits == <>(exit # "running" \/ rerr = "ctx")

(* After a signal the process ends, whatever hangs (main.go:319-323).      *)
SignalExits == signalled ~> (exit # "running")

(* "SIGINT/SIGTERM finishes in-flight transfers before exiting"            *)
(* (README.md:19): a signalled run that ends by itself, with no fatal      *)
(* error, leaves no transfer behind.                                       *)
ShutdownFinishesInFlight ==
    /\ signalled /\ exit \in {"ok", "error"}
    /\ groupErr = "nil" /\ \A k \in Keys : outcome[k] # "fatal"
    => \A k \in Keys : gpc[k] \notin InFlight
=============================================================================
