------------------------------- MODULE Lister -------------------------------
(***************************************************************************)
(* lister.go: ScanAndStream, the single pass over the source listing that  *)
(* counts the totals and sends one job per object still to transfer, and   *)
(* the goroutine or the dry run that calls it and closes the channel.      *)
(* The listing itself is external: pages of keys in a fixed order, each    *)
(* key on it once; any request for a page may fail.                        *)
(***************************************************************************)
EXTENDS ProgressBars, FiniteSets

CONSTANTS
    Pages,     \* the listing: a sequence of sequences of keys
    ZeroSize,  \* the keys of the listing whose object is empty ("folders")
    ListFails  \* TRUE when a request for a page may fail

ASSUME ListerAssumption ==
    /\ Pages \in Seq(Seq(Keys))
    /\ \A p, q \in DOMAIN Pages : \A i \in DOMAIN Pages[p], j \in DOMAIN Pages[q] :
          Pages[p][i] = Pages[q][j] => p = q /\ i = j
    /\ ZeroSize \subseteq Keys
    /\ ListFails \in BOOLEAN

VARIABLES
    lpc,       \* "page", "totals", "send", "close", "return", "returned"
    page,      \* the pages received so far
    pageJobs,  \* the jobs of the current page that are still to be sent, as
               \* the positions of their objects on it
    total,     \* totalObjects
    skipped,   \* skippedObjects
    current,   \* currentCompleted: completedBytes as UpdateScanTotals read it
    lerr,      \* what ScanAndStream returns: "nil", "ctx", "list"
    manifest   \* the total written by SaveManifest in this run, or -1

listerVars == <<lpc, page, pageJobs, total, skipped, current, lerr, manifest>>

NoManifest == -1

ListerTypeOK ==
    /\ lpc \in {"page", "totals", "send", "close", "return", "returned"}
    /\ page \in 0 .. Len(Pages)
    /\ pageJobs \in SUBSET Nat
    /\ total \in Nat
    /\ skipped \in 0 .. total
    /\ current \in Nat
    /\ lerr \in {"nil", "ctx", "list"}
    /\ manifest \in Nat \cup {NoManifest}

ListerInit ==
    /\ lpc = "page"
    /\ page = 0
    /\ pageJobs = {}
    /\ total = 0
    /\ skipped = 0
    /\ current = 0
    /\ lerr = "nil"
    /\ manifest = NoManifest

-----------------------------------------------------------------------------
(* Positions on page p: of the non-empty objects, of those with a job.     *)
Objects(p) == {i \in DOMAIN Pages[p] : Pages[p][i] \notin ZeroSize}

(* Mutant: completed keys are sent again.                                  *)
ToSendAll(p) == Objects(p)

ToSend(p) == {i \in Objects(p) : Pages[p][i] \notin completed}

ListerReturns(e) == lerr' = e /\ lpc' = "close"

(* Mutant: a failed request ends the loop instead of the function.         *)
NextPageBreak(d) ==
    /\ lpc = "page" /\ page < Len(Pages)
    /\ \/ /\ ~d
          /\ page' = page + 1
          /\ pageJobs' = ToSend(page + 1)
          /\ total' = total + Cardinality(Objects(page + 1))
          /\ lpc' = "totals"
          /\ current' = completedBytes
       \/ /\ d \/ ListFails
          /\ page' = Len(Pages)
          /\ UNCHANGED <<lpc, pageJobs, total, current>>
    /\ UNCHANGED <<skipped, lerr, manifest, jobs, closed, cancelled, completed>>

(* paginator.NextPage, the first pass over the page and the beginning of   *)
(* UpdateScanTotals: totals are updated before any of the page's jobs is   *)
(* sent.  d: the lister's context is done.                                 *)
NextPage(d) ==
    /\ lpc = "page" /\ page < Len(Pages)
    /\ \/ /\ ~d
          /\ page' = page + 1
          /\ pageJobs' = ToSend(page + 1)
          /\ total' = total + Cardinality(Objects(page + 1))
          /\ skipped' = skipped + Cardinality(Objects(page + 1) \ ToSend(page + 1))
          /\ lpc' = "totals"
          /\ current' = completedBytes
          /\ UNCHANGED lerr
       \/ /\ IF d THEN ListerReturns("ctx") ELSE ListFails /\ ListerReturns("list")
          /\ UNCHANGED <<page, pageJobs, total, skipped, current>>
    /\ UNCHANGED <<manifest, jobs, closed, cancelled, completed>>

UpdateTotals ==
    /\ lpc = "totals"
    /\ UpdateScanTotals(skipped, current)
    /\ current' = 0
    /\ lpc' = IF pageJobs = {} THEN "page" ELSE "send"
    /\ UNCHANGED <<page, pageJobs, total, skipped, lerr, manifest, jobs,
                   closed, cancelled, completed>>

(* The first of the page's jobs goes into the channel.                     *)
Send ==
    \E i \in pageJobs :
        /\ \A j \in pageJobs : i <= j
        /\ jobs' = Append(jobs, Pages[page][i])
        /\ pageJobs' = pageJobs \ {i}
        /\ lpc' = IF pageJobs' = {} THEN "page" ELSE "send"

(* Mutant: the send does not look at the context.                          *)
SendJobBlocking(d) ==
    /\ lpc = "send" /\ Len(jobs) < Capacity
    /\ Send
    /\ UNCHANGED <<lerr, page, total, skipped, current, manifest,
                   closed, cancelled, completed>>

(* Mutant: the channel has no bound.                                       *)
SendJobUnbounded(d) ==
    /\ lpc = "send"
    /\ Send
    /\ UNCHANGED <<lerr, page, total, skipped, current, manifest,
                   closed, cancelled, completed>>

(* The second pass: a send on the bounded channel or the end of the        *)
(* context; when both are ready either may be taken.                       *)
SendJob(d) ==
    /\ lpc = "send"
    /\ \/ /\ Len(jobs) < Capacity
          /\ Send
          /\ UNCHANGED lerr
       \/ /\ d /\ ListerReturns("ctx")
          /\ UNCHANGED <<jobs, pageJobs>>
    /\ UNCHANGED <<page, total, skipped, current, manifest, closed, cancelled,
                   completed>>

(* No more pages: the manifest is saved, unless the listing was empty; a   *)
(* failure to save it is only logged.                                      *)
EndOfListing ==
    /\ lpc = "page" /\ page = Len(Pages)
    /\ \/ total > 0 /\ manifest' = total
       \/ UNCHANGED manifest
    /\ ListerReturns("nil")
    /\ UNCHANGED <<page, pageJobs, total, skipped, current, jobs,
                   closed, cancelled, completed>>

(* close(jobs): deferred by the lister's goroutine, explicit in a dry run. *)
CloseJobs ==
    /\ lpc = "close"
    /\ closed' = TRUE
    /\ lpc' = "return"
    /\ UNCHANGED <<page, pageJobs, total, skipped, current, lerr, manifest,
                   jobs, cancelled, completed>>
=============================================================================
