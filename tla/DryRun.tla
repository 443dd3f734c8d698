------------------------------- MODULE DryRun -------------------------------
(***************************************************************************)
(* main.go:499-549, the --dry-run path of runMigration: the main goroutine *)
(* calls ScanAndStream itself, a second goroutine drains the channel and   *)
(* counts, then main waits for the progress bars and prints the summary.   *)
(***************************************************************************)
EXTENDS Lister

CONSTANT
    CompletedBefore   \* the keys already in the completed set at the start

VARIABLES
    mpc,            \* the main goroutine: "scan", "drain", "wait", "exited"
    dryRunObjects,  \* the jobs the draining goroutine has counted
    drained,        \* drainDone is closed
    exit            \* "running", "ok", "error", "forced"

mainVars == <<mpc, dryRunObjects, drained, exit>>
vars == <<jobs, closed, cancelled, completed, listerVars, barVars, mainVars>>

Init ==
    /\ jobs = <<>>
    /\ closed = FALSE
    /\ cancelled = {}
    /\ completed = CompletedBefore
    /\ ListerInit
    /\ \E preloaded \in {0, Cardinality(CompletedBefore)} : BarsInit(preloaded)
    /\ mpc = "scan"
    /\ dryRunObjects = 0
    /\ drained = FALSE
    /\ exit = "running"

-----------------------------------------------------------------------------
(* ScanAndStream with the root context; both its returns close the channel.*)
Scan ==
    /\ mpc = "scan"
    /\ \/ UpdateTotals
       \/ /\ NextPage(RootDone) \/ SendJob(RootDone) \/ EndOfListing \/ CloseJobs
          /\ UNCHANGED barVars
    /\ UNCHANGED mainVars

ScanReturns ==
    /\ mpc = "scan" /\ lpc = "return"
    /\ IF lerr = "nil"
       THEN mpc' = "drain" /\ UNCHANGED exit
       ELSE mpc' = "exited" /\ exit' = "error"
    /\ UNCHANGED <<jobs, closed, cancelled, completed, listerVars, barVars,
                   dryRunObjects, drained>>

Drain ==
    /\ mpc # "exited" /\ ~drained
    /\ \/ /\ jobs # <<>>
          /\ jobs' = Tail(jobs)
          /\ dryRunObjects' = dryRunObjects + 1
          /\ UNCHANGED drained
       \/ /\ jobs = <<>> /\ closed
          /\ drained' = TRUE
          /\ UNCHANGED <<jobs, dryRunObjects>>
    /\ UNCHANGED <<closed, cancelled, completed, listerVars, barVars, mpc, exit>>

(* <-drainDone                                                             *)
Drained ==
    /\ mpc = "drain" /\ drained
    /\ mpc' = "wait"
    /\ UNCHANGED <<jobs, closed, cancelled, completed, listerVars, barVars,
                   dryRunObjects, drained, exit>>

(* progress.Wait(), which nothing on this path precedes with Complete();   *)
(* then the summary.                                                       *)
Return ==
    /\ mpc = "wait"
    /\ WaitReturns
    /\ mpc' = "exited"
    /\ exit' = "ok"
    /\ UNCHANGED <<jobs, closed, cancelled, completed, listerVars, barVars,
                   dryRunObjects, drained>>

(* The signal handler of runMigration and its timer.                       *)
Signal ==
    /\ mpc # "exited" /\ ~RootDone
    /\ cancelled' = cancelled \cup {"root"}
    /\ UNCHANGED <<jobs, closed, completed, listerVars, barVars, mainVars>>

ForceExit ==
    /\ mpc # "exited" /\ RootDone
    /\ mpc' = "exited"
    /\ exit' = "forced"
    /\ UNCHANGED <<jobs, closed, cancelled, completed, listerVars, barVars,
                   dryRunObjects, drained>>

Work == Scan \/ ScanReturns \/ Drain \/ Drained \/ Return \/ ForceExit

Next == Work \/ Signal \/ (mpc = "exited" /\ UNCHANGED vars)

FairSpec == Init /\ [][Next]_vars /\ WF_vars(Work)

-----------------------------------------------------------------------------
(* A dry run ends and prints its summary: "scan and count objects without  *)
(* transferring anything" (README.md:16); it is Complete that lets         *)
(* container.Wait() return (progress.go:450).                              *)
DryRunReturns == <>(exit # "running")
=============================================================================
