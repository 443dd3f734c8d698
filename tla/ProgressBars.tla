---------------------------- MODULE ProgressBars ----------------------------
(***************************************************************************)
(* progress.go: which bars the ProgressReporter has open, because          *)
(* container.Wait() returns only when every bar was completed or aborted.  *)
(* A bar is named by the key it is shown for.  The mpb container is        *)
(* external.  Of the counters, the position of the overall bar and         *)
(* completedBytes are modelled, with every object one byte long: they are  *)
(* updated by the lister and by the workers without a lock.  The other     *)
(* counters, the decorators and the rendering are left out.                *)
(***************************************************************************)
EXTENDS RunContext

VARIABLES
    currentBars,  \* currentBars[s]: the bar of the transfer in slot s, or NoKey
    failedBars,   \* the bars of failed transfers, completed by Complete
    openBars,     \* the bars the container still waits for
    overallOpen,  \* the overall bar has not been completed
    overall,      \* the position of the overall bar; no code reads it
    completedBytes

counters == <<overall, completedBytes>>
barVars == <<currentBars, failedBars, openBars, overallOpen, counters>>

BarsTypeOK ==
    /\ currentBars \in [Slots -> Keys \cup {NoKey}]
    /\ failedBars \subseteq Keys
    /\ openBars \subseteq Keys
    /\ overallOpen \in BOOLEAN
    /\ overall \in Nat
    /\ completedBytes \in Nat

(* preloaded: what the manifest of an earlier run has put on the bar.      *)
BarsInit(preloaded) ==
    /\ currentBars = [s \in Slots |-> NoKey]
    /\ failedBars = {}
    /\ openBars = {}
    /\ overallOpen = TRUE
    /\ overall = preloaded
    /\ completedBytes = preloaded

(* Mutant: the bar is put in the first slot.                               *)
StartTransferFirst(s, k) ==
    /\ currentBars' = [currentBars EXCEPT ![0] = k]
    /\ openBars' = openBars \cup {k}
    /\ UNCHANGED <<failedBars, overallOpen, counters>>

StartTransfer(s, k) ==
    /\ currentBars' = [currentBars EXCEPT ![s] = k]
    /\ openBars' = openBars \cup {k}
    /\ UNCHANGED <<failedBars, overallOpen, counters>>

(* The bar found in the slot is completed; there may be none any more.     *)
(* The two counters are incremented one after the other: as the bar's      *)
(* position is read by no code, its increment is taken together with the   *)
(* one of completedBytes.                                                  *)
CompleteTransfer(s) ==
    /\ openBars' = openBars \ {currentBars[s]}
    /\ currentBars' = [currentBars EXCEPT ![s] = NoKey]
    /\ overall' = overall + 1
    /\ completedBytes' = completedBytes + 1
    /\ UNCHANGED <<failedBars, overallOpen>>

(* Mutant: the failed bar is not kept for Complete.                        *)
FailTransferDrops(s) ==
    /\ currentBars' = [currentBars EXCEPT ![s] = NoKey]
    /\ UNCHANGED <<failedBars, openBars, overallOpen, counters>>

(* The bar found in the slot stays open until Complete.                    *)
FailTransfer(s) ==
    /\ failedBars' = failedBars \cup ({currentBars[s]} \ {NoKey})
    /\ currentBars' = [currentBars EXCEPT ![s] = NoKey]
    /\ UNCHANGED <<openBars, overallOpen, counters>>

(* The three parts of Complete: abort what is in slot s (its loop visits   *)
(* the slots in order), complete the failed bars, complete the overall bar.*)
AbortSlot(s) ==
    /\ openBars' = openBars \ {currentBars[s]}
    /\ currentBars' = [currentBars EXCEPT ![s] = NoKey]
    /\ UNCHANGED <<failedBars, overallOpen, counters>>

CompleteFailed ==
    /\ openBars' = openBars \ failedBars
    /\ failedBars' = {}
    /\ UNCHANGED <<currentBars, overallOpen, counters>>

CompleteOverall ==
    /\ overallOpen' = FALSE
    /\ UNCHANGED <<currentBars, failedBars, openBars, counters>>

(* Mutant: all the skipped bytes are added to the bar after each page.     *)
UpdateScanTotalsAdds(skippedBytes, current) ==
    /\ IF skippedBytes > current
       THEN /\ overall' = overall + skippedBytes
            /\ completedBytes' = skippedBytes
       ELSE UNCHANGED counters
    /\ UNCHANGED <<currentBars, failedBars, openBars, overallOpen>>

(* The end of UpdateScanTotals: current is the value of completedBytes     *)
(* that it has read before; what the workers add between its read and its  *)
(* store is lost.                                                          *)
UpdateScanTotals(skippedBytes, current) ==
    /\ IF skippedBytes > current
       THEN /\ overall' = overall + (skippedBytes - current)
            /\ completedBytes' = skippedBytes
       ELSE UNCHANGED counters
    /\ UNCHANGED <<currentBars, failedBars, openBars, overallOpen>>

(* container.Wait() may return.                                            *)
WaitReturns == openBars = {} /\ ~overallOpen
=============================================================================
