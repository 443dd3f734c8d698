-------------------------- MODULE MigrationProofs --------------------------
(***************************************************************************)
(* Proofs about Migration, for any listing, any number of workers, any set *)
(* of failures and any keys completed before.                              *)
(***************************************************************************)
EXTENDS Migration, FiniteSetTheorems, TLAPS

(* The variables a step leaves alone are given as tuples.                  *)
USE DEF chanVars, listerVars, poolVars, barVars, counters, mainVars

-----------------------------------------------------------------------------
(* The totals of a page are natural numbers.                               *)
LEMMA PageCounts ==
    ASSUME NEW p \in 1 .. Len(Pages)
    PROVE  /\ Cardinality(Objects(p)) \in Nat
           /\ Cardinality(Objects(p) \ ToSend(p)) \in 0 .. Cardinality(Objects(p))
           /\ ToSend(p) \subseteq 1 .. Len(Pages[p])
           /\ Pages[p] \in Seq(Keys)
<1>1. Pages[p] \in Seq(Keys)
  BY ListerAssumption
<1>2. Objects(p) \in SUBSET (1 .. Len(Pages[p])) /\ Len(Pages[p]) \in Nat
  BY <1>1 DEF Objects
<1>3. IsFiniteSet(1 .. Len(Pages[p]))
  BY <1>2, FS_Interval
<1>4. IsFiniteSet(Objects(p))
  BY <1>2, <1>3, FS_Subset
<1>5. Objects(p) \ ToSend(p) \in SUBSET Objects(p) /\ ToSend(p) \subseteq Objects(p)
  BY DEF ToSend
<1>6. /\ IsFiniteSet(Objects(p) \ ToSend(p))
      /\ Cardinality(Objects(p) \ ToSend(p)) <= Cardinality(Objects(p))
  BY <1>4, <1>5, FS_Subset
<1>7. Cardinality(Objects(p)) \in Nat /\ Cardinality(Objects(p) \ ToSend(p)) \in Nat
  BY <1>4, <1>6, FS_CardinalityType
<1>8. QED
  BY <1>1, <1>2, <1>5, <1>6, <1>7

LEMMA LengthsAreNat ==
    /\ Len(Pages) \in Nat /\ Pages \in Seq(Seq(Keys))
    /\ Capacity \in Nat /\ Workers \in Nat /\ 0 \in Slots
BY ListerAssumption, WorkersAssumption DEF Capacity, Slots

-----------------------------------------------------------------------------
(* Type correctness.  The jobs of a page are positions on that page.       *)
OnPage ==
    IF page = 0 THEN pageJobs = {} ELSE pageJobs \subseteq 1 .. Len(Pages[page])

ChannelTypeOK ==
    /\ jobs \in Seq(Keys) /\ Len(jobs) <= Capacity
    /\ closed \in BOOLEAN
    /\ cancelled \subseteq Contexts
    /\ completed \subseteq Keys

MainTypeOK ==
    /\ mpc \in {"group", "sweep", "failed", "overall", "wait", "exited"}
    /\ swept \in 0 .. Workers
    /\ outerErr \in {"nil", "ctx", "fatal", "list"}
    /\ signalled \in BOOLEAN
    /\ exit \in {"running", "ok", "error", "forced"}

LEMMA TypeParts ==
    /\ TypeOK <=> ChannelTypeOK /\ ListerTypeOK /\ PoolTypeOK /\ BarsTypeOK /\ MainTypeOK
    /\ TypeOK' <=> ChannelTypeOK' /\ ListerTypeOK' /\ PoolTypeOK' /\ BarsTypeOK'
                     /\ MainTypeOK'
BY DEF TypeOK, ChannelTypeOK, MainTypeOK

LEMMA TypeUnchanged ==
    /\ ListerTypeOK /\ UNCHANGED listerVars => ListerTypeOK'
    /\ PoolTypeOK /\ UNCHANGED poolVars => PoolTypeOK'
    /\ BarsTypeOK /\ UNCHANGED barVars => BarsTypeOK'
    /\ MainTypeOK /\ UNCHANGED mainVars => MainTypeOK'
    /\ OnPage /\ UNCHANGED listerVars => OnPage'
<1>1. ListerTypeOK /\ UNCHANGED listerVars => ListerTypeOK'
  BY DEF ListerTypeOK
<1>2. PoolTypeOK /\ UNCHANGED poolVars => PoolTypeOK'
  BY DEF PoolTypeOK
<1>3. BarsTypeOK /\ UNCHANGED barVars => BarsTypeOK'
  BY DEF BarsTypeOK
<1>4. MainTypeOK /\ UNCHANGED mainVars => MainTypeOK'
  BY DEF MainTypeOK
<1>5. OnPage /\ UNCHANGED listerVars => OnPage'
  BY DEF OnPage
<1>6. QED
  BY <1>1, <1>2, <1>3, <1>4, <1>5

(* The first error of main's errgroup.                                     *)
LEMMA GroupGetsType ==
    ASSUME NEW e \in {"nil", "ctx", "fatal", "list"}, GroupGets(e),
           cancelled \subseteq Contexts, outerErr \in {"nil", "ctx", "fatal", "list"}
    PROVE  /\ cancelled' \subseteq Contexts
           /\ outerErr' \in {"nil", "ctx", "fatal", "list"}
BY DEF GroupGets, Contexts

LEMMA NextPageType ==
    ASSUME ListerTypeOK, BarsTypeOK, OnPage, NEW d, NextPage(d)
    PROVE  ListerTypeOK' /\ OnPage'
<1>1. page \in 0 .. Len(Pages) /\ page < Len(Pages) /\ Len(Pages) \in Nat
  BY LengthsAreNat DEF NextPage, ListerTypeOK
<1>2. page + 1 \in 1 .. Len(Pages) /\ page + 1 # 0
  BY <1>1
<1>3. /\ lerr' \in {"nil", "ctx", "list"}
      /\ lpc' \in {"page", "totals", "send", "close", "return", "returned"}
      /\ manifest' = manifest /\ current' \in Nat
  BY DEF NextPage, ListerReturns, ListerTypeOK, BarsTypeOK
<1>4. CASE /\ page' = page + 1
           /\ pageJobs' = ToSend(page + 1)
           /\ total' = total + Cardinality(Objects(page + 1))
           /\ skipped' = skipped + Cardinality(Objects(page + 1) \ ToSend(page + 1))
  <2>1. /\ Cardinality(Objects(page + 1)) \in Nat
        /\ Cardinality(Objects(page + 1) \ ToSend(page + 1))
             \in 0 .. Cardinality(Objects(page + 1))
        /\ ToSend(page + 1) \subseteq 1 .. Len(Pages[page + 1])
        /\ Pages[page + 1] \in Seq(Keys)
    BY <1>2, PageCounts
  <2>2. total' \in Nat /\ skipped' \in 0 .. total'
    BY <1>4, <2>1 DEF ListerTypeOK
  <2>3. pageJobs' \in SUBSET Nat /\ OnPage'
    BY <1>2, <1>4, <2>1 DEF OnPage
  <2>4. QED
    BY <1>2, <1>3, <1>4, <2>2, <2>3 DEF ListerTypeOK
<1>5. CASE UNCHANGED <<page, pageJobs, total, skipped>>
  BY <1>3, <1>5 DEF ListerTypeOK, OnPage
<1>6. QED
  BY <1>4, <1>5 DEF NextPage

(* The key that Send puts in the channel.                                  *)
LEMMA SentKey ==
    ASSUME ListerTypeOK, OnPage, NEW i \in pageJobs
    PROVE  page \in 1 .. Len(Pages) /\ i \in 1 .. Len(Pages[page]) /\ Pages[page][i] \in Keys
<1>1. page # 0 /\ i \in 1 .. Len(Pages[page])
  BY DEF OnPage
<1>2. page \in 1 .. Len(Pages)
  BY <1>1, LengthsAreNat DEF ListerTypeOK
<1>3. Pages[page] \in Seq(Keys)
  BY <1>2, LengthsAreNat
<1>4. QED
  BY <1>1, <1>2, <1>3

LEMMA SendJobType ==
    ASSUME ChannelTypeOK, ListerTypeOK, OnPage, NEW d, SendJob(d)
    PROVE  ChannelTypeOK' /\ ListerTypeOK' /\ OnPage'
<1>1. CASE Len(jobs) < Capacity /\ Send /\ UNCHANGED lerr
  <2>1. PICK i \in pageJobs :
            /\ jobs' = Append(jobs, Pages[page][i])
            /\ pageJobs' = pageJobs \ {i}
            /\ lpc' = IF pageJobs' = {} THEN "page" ELSE "send"
    BY <1>1 DEF Send
  <2>2. Pages[page][i] \in Keys
    BY SentKey
  <2>3. jobs' \in Seq(Keys) /\ Len(jobs') <= Capacity
    BY <1>1, <2>1, <2>2, LengthsAreNat DEF ChannelTypeOK
  <2>4. QED
    BY <1>1, <2>1, <2>3 DEF SendJob, ChannelTypeOK, ListerTypeOK, OnPage
<1>2. CASE ListerReturns("ctx") /\ UNCHANGED <<jobs, pageJobs>>
  BY <1>2 DEF SendJob, ListerReturns, ChannelTypeOK, ListerTypeOK, OnPage
<1>3. QED
  BY <1>1, <1>2 DEF SendJob

LEMMA ListerType ==
    ASSUME TypeOK, OnPage, ListerStep
    PROVE  TypeOK' /\ OnPage'
<1> USE TypeParts, TypeUnchanged
<1>1. CASE NextPage(OuterDone) /\ UNCHANGED <<poolVars, barVars, mainVars>>
  <2>1. ChannelTypeOK'
    BY <1>1 DEF NextPage, ChannelTypeOK
  <2>2. QED
    BY <1>1, <2>1, NextPageType
<1>2. CASE SendJob(OuterDone) /\ UNCHANGED <<poolVars, barVars, mainVars>>
  BY <1>2, SendJobType
<1>3. CASE (EndOfListing \/ CloseJobs) /\ UNCHANGED <<poolVars, barVars, mainVars>>
  <2>1. ChannelTypeOK'
    BY <1>3 DEF EndOfListing, CloseJobs, ChannelTypeOK
  <2>2. ListerTypeOK' /\ OnPage'
    BY <1>3 DEF EndOfListing, CloseJobs, ListerReturns, ListerTypeOK, OnPage
  <2>3. QED
    BY <1>3, <2>1, <2>2
<1>4. CASE ListerReturn
  <2>1. /\ GroupGets(lerr)
        /\ UNCHANGED <<chanVars, completed, poolVars, barVars, mpc, swept, signalled, exit>>
    BY <1>4 DEF ListerReturn
  <2>2. cancelled' \subseteq Contexts /\ outerErr' \in {"nil", "ctx", "fatal", "list"}
    BY <2>1, GroupGetsType DEF TypeOK, ListerTypeOK
  <2>3. ChannelTypeOK' /\ MainTypeOK'
    BY <2>1, <2>2 DEF ChannelTypeOK, MainTypeOK
  <2>4. ListerTypeOK' /\ OnPage'
    BY <1>4 DEF ListerReturn, ListerTypeOK, OnPage
  <2>5. QED
    BY <2>1, <2>3, <2>4
<1>5. CASE UpdateTotals /\ UNCHANGED <<poolVars, mainVars>>
  <2>1. ChannelTypeOK' /\ ListerTypeOK' /\ OnPage'
    BY <1>5 DEF UpdateTotals, ChannelTypeOK, ListerTypeOK, OnPage
  <2>2. /\ skipped \in Nat /\ current \in Nat
        /\ skipped > current => skipped - current \in Nat
    BY DEF ListerTypeOK
  <2>3. BarsTypeOK'
    BY <1>5, <2>2 DEF UpdateTotals, UpdateScanTotals, BarsTypeOK
  <2>4. QED
    BY <1>5, <2>1, <2>3
<1>6. QED
  BY <1>1, <1>2, <1>3, <1>4, <1>5 DEF ListerStep

LEMMA RunType ==
    ASSUME TypeOK, OnPage, RunStep
    PROVE  TypeOK' /\ OnPage'
<1> USE TypeParts, TypeUnchanged
<1>1. CASE Receive /\ UNCHANGED <<listerVars, mainVars>>
  <2>1. ChannelTypeOK'
    <3>1. CASE jobs # <<>> /\ jobs' = Tail(jobs)
      <4>1. jobs' \in Seq(Keys) /\ Len(jobs') = Len(jobs) - 1
        BY <3>1 DEF ChannelTypeOK
      <4>2. QED
        BY <1>1, <4>1, LengthsAreNat DEF Receive, ChannelTypeOK
    <3>2. CASE jobs' = jobs
      BY <1>1, <3>2 DEF Receive, ChannelTypeOK
    <3>3. QED
      BY <1>1, <3>1, <3>2 DEF Receive
  <2>2. PoolTypeOK'
    BY <1>1 DEF Receive, ChannelTypeOK, PoolTypeOK
  <2>3. BarsTypeOK'
    BY <1>1 DEF Receive
  <2>4. QED
    BY <1>1, <2>1, <2>2, <2>3
<1>2. CASE Acquire /\ UNCHANGED <<listerVars, mainVars>>
  <2>1. ChannelTypeOK' /\ BarsTypeOK'
    BY <1>2 DEF Acquire, ChannelTypeOK
  <2>2. PoolTypeOK'
    BY <1>2 DEF Acquire, PoolTypeOK, GoroutinePCs
  <2>3. QED
    BY <1>2, <2>1, <2>2
<1>3. CASE WaitWorkers /\ UNCHANGED <<listerVars, mainVars>>
  <2>1. ChannelTypeOK' /\ BarsTypeOK'
    BY <1>3 DEF WaitWorkers, ChannelTypeOK, Contexts
  <2>2. PoolTypeOK'
    BY <1>3 DEF WaitWorkers, PoolTypeOK
  <2>3. QED
    BY <1>3, <2>1, <2>2
<1>4. CASE RunReturn
  <2>1. /\ GroupGets(rerr)
        /\ UNCHANGED <<chanVars, completed, listerVars, barVars, mpc, swept, signalled, exit>>
    BY <1>4 DEF RunReturn
  <2>2. cancelled' \subseteq Contexts /\ outerErr' \in {"nil", "ctx", "fatal", "list"}
    BY <2>1, GroupGetsType DEF TypeOK, PoolTypeOK
  <2>3. ChannelTypeOK' /\ MainTypeOK'
    BY <2>1, <2>2 DEF ChannelTypeOK, MainTypeOK
  <2>4. PoolTypeOK'
    BY <1>4 DEF RunReturn, PoolTypeOK
  <2>5. QED
    BY <2>1, <2>3, <2>4
<1>5. QED
  BY <1>1, <1>2, <1>3, <1>4 DEF RunStep, Run

LEMMA GoroutineType ==
    ASSUME TypeOK, OnPage, NEW k \in Keys, GoroutineStep(k)
    PROVE  TypeOK' /\ OnPage'
<1> USE TypeParts, TypeUnchanged
<1>1. UNCHANGED <<listerVars, mainVars>>
  BY DEF GoroutineStep
<1>2. slot[k] \in Slots
  BY DEF PoolTypeOK
<1>3. CASE Start(k)
  <2>1. ChannelTypeOK'
    BY <1>3 DEF Start, ChannelTypeOK
  <2>2. PoolTypeOK'
    BY <1>3 DEF Start, Step, PoolTypeOK, GoroutinePCs
  <2>3. BarsTypeOK'
    BY <1>2, <1>3 DEF Start, StartTransfer, BarsTypeOK
  <2>4. QED
    BY <1>1, <2>1, <2>2, <2>3
<1>4. CASE Transfer(k)
  <2>1. ChannelTypeOK' /\ BarsTypeOK'
    BY <1>4 DEF Transfer, ChannelTypeOK
  <2>2. outcome' \in [Keys -> {"none", "ok", "failed", "fatal", "ctx"}]
    BY <1>4, FailuresAssumption DEF Transfer, PoolTypeOK
  <2>3. PoolTypeOK'
    BY <1>4, <2>2 DEF Transfer, Step, PoolTypeOK, GoroutinePCs
  <2>4. QED
    BY <1>1, <2>1, <2>3
<1>5. CASE Report(k)
  <2>1. ChannelTypeOK'
    BY <1>5 DEF Report, ChannelTypeOK
  <2>2. PoolTypeOK'
    BY <1>5 DEF Report, Step, PoolTypeOK, GoroutinePCs
  <2>3. BarsTypeOK'
    BY <1>2, <1>5 DEF Report, CompleteTransfer, FailTransfer, BarsTypeOK
  <2>4. QED
    BY <1>1, <2>1, <2>2, <2>3
<1>6. CASE Release(k)
  <2>1. ChannelTypeOK' /\ BarsTypeOK'
    BY <1>6 DEF Release, ChannelTypeOK
  <2>2. PoolTypeOK'
    BY <1>2, <1>6, LengthsAreNat DEF Release, Forget, PoolTypeOK, GoroutinePCs
  <2>3. QED
    BY <1>1, <2>1, <2>2
<1>7. CASE Exit(k)
  <2>1. ChannelTypeOK' /\ BarsTypeOK'
    BY <1>7 DEF Exit, ChannelTypeOK, Contexts
  <2>2. PoolTypeOK'
    BY <1>7, LengthsAreNat DEF Exit, Step, Forget, PoolTypeOK, GoroutinePCs
  <2>3. QED
    BY <1>1, <2>1, <2>2
<1>8. QED
  BY <1>3, <1>4, <1>5, <1>6, <1>7 DEF GoroutineStep, Goroutine

LEMMA MainType ==
    ASSUME TypeOK, OnPage, MainStep \/ Signal \/ ForceExit
    PROVE  TypeOK' /\ OnPage'
<1> USE TypeParts, TypeUnchanged
<1>1. UNCHANGED <<listerVars, poolVars>> /\ UNCHANGED <<jobs, closed, completed>>
  BY DEF MainStep, GroupWait, Sweep, EndFailedBars, EndOverallBar, Return, Signal, ForceExit
<1>2. cancelled' \subseteq Contexts
  BY DEF MainStep, GroupWait, Sweep, EndFailedBars, EndOverallBar, Return, Signal, ForceExit,
         ChannelTypeOK, Contexts
<1>3. ChannelTypeOK'
  BY <1>1, <1>2 DEF ChannelTypeOK
<1>4. MainTypeOK'
  <2>1. CASE Sweep
    BY <2>1, LengthsAreNat DEF Sweep, MainTypeOK
  <2>2. CASE GroupWait \/ EndFailedBars \/ EndOverallBar
    BY <2>2 DEF GroupWait, EndFailedBars, EndOverallBar, MainGoto, MainTypeOK
  <2>3. CASE Return
    BY <2>3 DEF Return, MainGoto, MainTypeOK
  <2>4. CASE Signal \/ ForceExit
    BY <2>4 DEF Signal, ForceExit, MainTypeOK
  <2>5. QED
    BY <2>1, <2>2, <2>3, <2>4 DEF MainStep
<1>5. BarsTypeOK'
  <2>1. CASE Sweep
    BY <2>1 DEF Sweep, AbortSlot, BarsTypeOK
  <2>2. CASE EndFailedBars \/ EndOverallBar
    BY <2>2 DEF EndFailedBars, CompleteFailed, EndOverallBar, CompleteOverall, BarsTypeOK
  <2>3. CASE GroupWait \/ Return \/ Signal \/ ForceExit
    BY <2>3 DEF GroupWait, Return, Signal, ForceExit
  <2>4. QED
    BY <2>1, <2>2, <2>3 DEF MainStep
<1>6. QED
  BY <1>1, <1>3, <1>4, <1>5

-----------------------------------------------------------------------------
(* A job is in one place.  Each key of the listing is handed over once: it *)
(* is then in the channel, or Run's current job, or a goroutine's, never   *)
(* in two of these places, because the listing names it once.  That no     *)
(* goroutine is started twice for a key, so that no slot ID is forgotten,  *)
(* rests on this.                                                          *)
DueKeys == Keys \ (CompletedBefore \cup ZeroSize)

HandedOver ==
    {k \in DueKeys : \E p \in 1 .. page : \E i \in 1 .. Len(Pages[p]) :
                        Pages[p][i] = k /\ ~(p = page /\ i \in pageJobs)}

PageDue == \A i \in pageJobs : Pages[page][i] \in DueKeys

ChannelOnce ==
    /\ \A i \in 1 .. Len(jobs) :
          jobs[i] \in HandedOver /\ gpc[jobs[i]] = "none" /\ jobs[i] # rjob
    /\ \A i, j \in 1 .. Len(jobs) : jobs[i] = jobs[j] => i = j

CurrentOnce ==
    /\ rpc = "acquire" <=> rjob # NoKey
    /\ rjob # NoKey => rjob \in HandedOver /\ gpc[rjob] = "none"

StartedDue == \A k \in Keys : gpc[k] # "none" => k \in HandedOver

QueueInv ==
    /\ CompletedBefore \subseteq completed
    /\ PageDue
    /\ ChannelOnce
    /\ CurrentOnce
    /\ StartedDue

LEMMA NotYetHanded ==
    ASSUME ListerTypeOK, OnPage, NEW i \in pageJobs
    PROVE  Pages[page][i] \notin HandedOver
<1>1. page \in 1 .. Len(Pages) /\ i \in 1 .. Len(Pages[page])
  BY SentKey
<1>2. SUFFICES ASSUME NEW p \in 1 .. page, NEW j \in 1 .. Len(Pages[p]),
                      Pages[p][j] = Pages[page][i], ~(p = page /\ j \in pageJobs)
               PROVE  FALSE
  BY DEF HandedOver
<1>3. p \in 1 .. Len(Pages) /\ Len(Pages) \in Nat
  BY <1>1, LengthsAreNat
<1>4. Pages[p] \in Seq(Keys) /\ Pages[page] \in Seq(Keys)
  BY <1>1, <1>3, LengthsAreNat
<1>5. /\ p \in DOMAIN Pages /\ page \in DOMAIN Pages
      /\ j \in DOMAIN Pages[p] /\ i \in DOMAIN Pages[page]
  BY <1>1, <1>3, <1>4, LengthsAreNat
<1>6. p = page /\ i = j
  BY <1>2, <1>5, ListerAssumption
<1>7. QED
  BY <1>2, <1>6

(* Handing over is never undone, and a page that comes in is not handed    *)
(* over yet.                                                               *)
LEMMA HandedStays ==
    ASSUME ListerTypeOK,
           \/ page' = page /\ pageJobs' \subseteq pageJobs
           \/ page' = page + 1
    PROVE  HandedOver \subseteq HandedOver'
<1> SUFFICES ASSUME NEW k \in HandedOver PROVE k \in HandedOver'
  OBVIOUS
<1>1. PICK p \in 1 .. page : \E i \in 1 .. Len(Pages[p]) :
                Pages[p][i] = k /\ ~(p = page /\ i \in pageJobs)
  BY DEF HandedOver
<1>2. p \in 1 .. page' /\ (page' = page + 1 => p # page')
  BY <1>1, LengthsAreNat DEF ListerTypeOK
<1>3. QED
  BY <1>1, <1>2 DEF HandedOver

LEMMA HandedBySend ==
    ASSUME ListerTypeOK, OnPage, PageDue, NEW i \in pageJobs,
           pageJobs' = pageJobs \ {i}, page' = page
    PROVE  Pages[page][i] \in HandedOver'
BY SentKey DEF HandedOver, PageDue, ListerTypeOK

LEMMA QueueUnchanged ==
    ASSUME QueueInv, UNCHANGED <<jobs, completed, listerVars, rpc, rjob, gpc>>
    PROVE  QueueInv'
<1>1. HandedOver' = HandedOver
  BY DEF HandedOver
<1>2. PageDue' /\ CurrentOnce' /\ StartedDue'
  BY <1>1 DEF QueueInv, PageDue, CurrentOnce, StartedDue
<1>3. ChannelOnce'
  BY <1>1 DEF QueueInv, ChannelOnce
<1>4. QED
  BY <1>2, <1>3 DEF QueueInv

LEMMA QueueSend ==
    ASSUME ChannelTypeOK, ListerTypeOK, OnPage, QueueInv,
           Send, UNCHANGED <<page, completed, rpc, rjob, gpc>>
    PROVE  QueueInv'
<1>1. PICK i \in pageJobs :
          /\ jobs' = Append(jobs, Pages[page][i])
          /\ pageJobs' = pageJobs \ {i}
  BY DEF Send
<1> DEFINE k == Pages[page][i]
<1>2. k \in Keys /\ k \notin HandedOver /\ k \in HandedOver'
  BY <1>1, SentKey, NotYetHanded, HandedBySend DEF QueueInv, PageDue
<1>3. HandedOver \subseteq HandedOver'
  BY <1>1, HandedStays
<1>4. PageDue' /\ CompletedBefore \subseteq completed'
  BY <1>1 DEF QueueInv, PageDue
<1>5. CurrentOnce' /\ StartedDue'
  BY <1>3 DEF QueueInv, CurrentOnce, StartedDue
<1>6. gpc[k] = "none" /\ k # rjob /\ \A j \in 1 .. Len(jobs) : jobs[j] # k
  <2>1. k # NoKey
    BY <1>2, NoKeyAssumption
  <2>2. QED
    BY <1>2, <2>1 DEF QueueInv, CurrentOnce, StartedDue, ChannelOnce
<1> HIDE DEF k
<1>7. /\ Len(jobs') = Len(jobs) + 1 /\ Len(jobs) \in Nat
      /\ \A j \in 1 .. Len(jobs) : jobs'[j] = jobs[j]
      /\ jobs'[Len(jobs) + 1] = k
  BY <1>1 DEF ChannelTypeOK, k
<1>8. \A j \in 1 .. Len(jobs') : j \in 1 .. Len(jobs) \/ j = Len(jobs) + 1
  BY <1>7
<1>9. ChannelOnce'
  <2>1. ASSUME NEW j \in 1 .. Len(jobs')
        PROVE  /\ jobs'[j] \in HandedOver'
               /\ gpc[jobs'[j]] = "none" /\ jobs'[j] # rjob
    <3>1. CASE j \in 1 .. Len(jobs)
      BY <1>3, <1>7, <3>1 DEF QueueInv, ChannelOnce
    <3>2. CASE j = Len(jobs) + 1
      BY <1>2, <1>6, <1>7, <3>2
    <3>3. QED
      BY <1>8, <2>1, <3>1, <3>2
  <2>2. ASSUME NEW i1 \in 1 .. Len(jobs'), NEW i2 \in 1 .. Len(jobs'), jobs'[i1] = jobs'[i2]
        PROVE  i1 = i2
    BY <1>6, <1>7, <1>8, <2>2 DEF QueueInv, ChannelOnce
  <2>3. QED
    BY <2>1, <2>2 DEF ChannelOnce
<1>10. QED
  BY <1>4, <1>5, <1>9 DEF QueueInv

LEMMA QueueLister ==
    ASSUME TypeOK, OnPage, QueueInv, ListerStep
    PROVE  QueueInv'
<1>1. UNCHANGED <<completed, rpc, rjob, gpc>>
  BY DEF ListerStep, NextPage, UpdateTotals, SendJob, EndOfListing, CloseJobs, ListerReturn
<1>2. CASE UNCHANGED <<jobs, page, pageJobs>>
  <2>1. HandedOver' = HandedOver
    BY <1>2 DEF HandedOver
  <2>2. PageDue' /\ CurrentOnce' /\ StartedDue'
    BY <1>1, <1>2, <2>1 DEF QueueInv, PageDue, CurrentOnce, StartedDue
  <2>3. ChannelOnce'
    BY <1>1, <1>2, <2>1 DEF QueueInv, ChannelOnce
  <2>4. QED
    BY <1>1, <2>2, <2>3 DEF QueueInv
<1>3. CASE Send /\ page' = page
  BY <1>1, <1>3, QueueSend, TypeParts
<1>4. CASE /\ page < Len(Pages)
           /\ page' = page + 1 /\ pageJobs' = ToSend(page + 1) /\ jobs' = jobs
  <2>1. HandedOver \subseteq HandedOver'
    BY <1>4, HandedStays, TypeParts
  <2>2. PageDue'
    <3>1. page + 1 \in 1 .. Len(Pages)
      BY <1>4, LengthsAreNat, TypeParts DEF ListerTypeOK
    <3>2. Pages[page + 1] \in Seq(Keys) /\ ToSend(page + 1) \subseteq 1 .. Len(Pages[page + 1])
      BY <3>1, PageCounts
    <3>3. \A i \in ToSend(page + 1) : Pages[page + 1][i] \in Keys
      BY <3>2
    <3>4. QED
      BY <1>4, <3>3 DEF PageDue, DueKeys, ToSend, Objects, QueueInv
  <2>3. QED
    BY <1>1, <1>4, <2>1, <2>2 DEF QueueInv, ChannelOnce, CurrentOnce, StartedDue
<1>5. QED
  BY <1>2, <1>3, <1>4
     DEF ListerStep, NextPage, UpdateTotals, SendJob, EndOfListing, CloseJobs, ListerReturn

LEMMA QueueRun ==
    ASSUME TypeOK, QueueInv, RunStep
    PROVE  QueueInv'
<1>1. UNCHANGED <<completed, listerVars>>
  BY DEF RunStep, Run, Receive, Acquire, WaitWorkers, RunReturn
<1>2. (CompletedBefore \subseteq completed)' /\ PageDue' /\ HandedOver' = HandedOver
  BY <1>1 DEF QueueInv, PageDue, HandedOver
<1>3. CASE Receive /\ jobs # <<>>
  <2>1. /\ rjob' = jobs[1] /\ jobs' = Tail(jobs) /\ rpc' = "acquire" /\ rpc = "recv"
        /\ gpc' = gpc
    BY <1>3 DEF Receive
  <2>2. /\ Len(jobs) \in Nat /\ 1 \in 1 .. Len(jobs) /\ jobs[1] \in Keys
        /\ Len(jobs') = Len(jobs) - 1
        /\ \A i \in 1 .. Len(jobs') : i + 1 \in 1 .. Len(jobs) /\ jobs'[i] = jobs[i + 1]
    BY <1>3, <2>1 DEF TypeOK
  <2>3. rjob' # NoKey
    BY <2>1, <2>2, NoKeyAssumption
  <2>4. CurrentOnce'
    BY <1>2, <2>1, <2>2, <2>3 DEF QueueInv, ChannelOnce, CurrentOnce
  <2>5. ChannelOnce'
    <3>1. ASSUME NEW i \in 1 .. Len(jobs')
          PROVE  /\ jobs'[i] \in HandedOver'
                 /\ gpc'[jobs'[i]] = "none" /\ jobs'[i] # rjob'
      <4>1. i + 1 \in 1 .. Len(jobs) /\ jobs'[i] = jobs[i + 1] /\ i + 1 # 1
        BY <2>2
      <4>2. QED
        BY <1>2, <2>1, <2>2, <4>1 DEF QueueInv, ChannelOnce
    <3>2. ASSUME NEW i \in 1 .. Len(jobs'), NEW j \in 1 .. Len(jobs'), jobs'[i] = jobs'[j]
          PROVE  i = j
      <4>1. i + 1 = j + 1
        BY <2>2, <3>2 DEF QueueInv, ChannelOnce
      <4>2. QED
        BY <4>1
    <3>3. QED
      BY <3>1, <3>2 DEF ChannelOnce
  <2>6. StartedDue'
    BY <1>2, <2>1 DEF QueueInv, StartedDue
  <2>7. QED
    BY <1>2, <2>4, <2>5, <2>6 DEF QueueInv
<1>4. CASE Acquire
  <2>1. /\ jobs' = jobs /\ rpc = "acquire" /\ rpc' # "acquire" /\ rjob' = NoKey
        /\ gpc' = gpc \/ gpc' = [gpc EXCEPT ![rjob] = "start"]
    BY <1>4 DEF Acquire
  <2>2. rjob \in Keys /\ rjob \in HandedOver /\ gpc \in [Keys -> GoroutinePCs]
    BY <2>1 DEF QueueInv, CurrentOnce, TypeOK, PoolTypeOK
  <2>3. CurrentOnce'
    BY <2>1 DEF CurrentOnce
  <2>4. StartedDue'
    BY <1>2, <2>1, <2>2 DEF QueueInv, StartedDue
  <2>5. ChannelOnce'
    <3>1. ASSUME NEW i \in 1 .. Len(jobs)
          PROVE  jobs[i] \in HandedOver' /\ gpc'[jobs[i]] = "none" /\ jobs[i] # NoKey
      <4>1. jobs[i] \in Keys /\ jobs[i] # rjob /\ gpc[jobs[i]] = "none"
            /\ jobs[i] \in HandedOver
        BY <3>1 DEF TypeOK, QueueInv, ChannelOnce
      <4>2. QED
        BY <1>2, <2>1, <2>2, <4>1, NoKeyAssumption
    <3>2. QED
      BY <2>1, <3>1 DEF QueueInv, ChannelOnce
  <2>6. QED
    BY <1>2, <2>3, <2>4, <2>5 DEF QueueInv
<1>5. CASE UNCHANGED <<jobs, rjob, gpc>> /\ rpc # "acquire" /\ rpc' # "acquire"
  BY <1>2, <1>5 DEF QueueInv, ChannelOnce, CurrentOnce, StartedDue
<1>6. QED
  BY <1>3, <1>4, <1>5 DEF RunStep, Run, Receive, WaitWorkers, RunReturn

LEMMA QueueGoroutine ==
    ASSUME TypeOK, QueueInv, NEW k \in Keys, GoroutineStep(k)
    PROVE  QueueInv'
<1>1. /\ UNCHANGED <<jobs, listerVars, rpc, rjob>> /\ completed \subseteq completed'
      /\ gpc[k] # "none" /\ \E to \in GoroutinePCs \ {"none"} : gpc' = [gpc EXCEPT ![k] = to]
  BY DEF GoroutineStep, Goroutine, Start, Transfer, Report, Release, Exit, Step, GoroutinePCs
<1>2. HandedOver' = HandedOver
  BY <1>1 DEF HandedOver
<1>3. \A j \in Keys : gpc[j] = "none" <=> gpc'[j] = "none"
  BY <1>1 DEF TypeOK, PoolTypeOK
<1>4. PageDue' /\ (CompletedBefore \subseteq completed)'
  BY <1>1 DEF QueueInv, PageDue
<1>5. StartedDue'
  BY <1>2, <1>3 DEF QueueInv, StartedDue
<1>6. CurrentOnce'
  BY <1>1, <1>2, <1>3 DEF QueueInv, CurrentOnce, TypeOK, PoolTypeOK
<1>7. ChannelOnce'
  <2>1. \A i \in 1 .. Len(jobs) : jobs[i] \in Keys
    BY DEF TypeOK
  <2>2. QED
    BY <1>1, <1>2, <1>3, <2>1 DEF QueueInv, ChannelOnce
<1>8. QED
  BY <1>4, <1>5, <1>6, <1>7 DEF QueueInv

-----------------------------------------------------------------------------
(* Slots.                                                                  *)
SlotInv == SlotExclusive /\ SlotConserved

LEMMA SlotsUnchanged ==
    ASSUME SlotInv, UNCHANGED <<sem, gpc, slot>>
    PROVE  SlotInv'
BY DEF SlotInv, SlotExclusive, SlotConserved

(* A goroutine takes a slot out of the semaphore for a key that has none.  *)
LEMMA SlotsAcquire ==
    ASSUME TypeOK, QueueInv, SlotInv, Acquire
    PROVE  SlotInv'
<1>1. CASE UNCHANGED <<sem, gpc, slot>>
  BY <1>1, SlotsUnchanged
<1>2. CASE \E s \in sem :
             /\ sem' = sem \ {s}
             /\ gpc' = [gpc EXCEPT ![rjob] = "start"]
             /\ slot' = [slot EXCEPT ![rjob] = s]
  <2>1. PICK s \in sem :
             /\ sem' = sem \ {s}
             /\ gpc' = [gpc EXCEPT ![rjob] = "start"]
             /\ slot' = [slot EXCEPT ![rjob] = s]
    BY <1>2
  <2>2. rjob \in Keys /\ gpc[rjob] = "none"
    BY DEF Acquire, QueueInv, CurrentOnce, TypeOK, PoolTypeOK
  <2>3. /\ gpc'[rjob] = "start" /\ slot'[rjob] = s
        /\ \A k \in Keys \ {rjob} : gpc'[k] = gpc[k] /\ slot'[k] = slot[k]
    BY <2>1, <2>2 DEF TypeOK, PoolTypeOK
  <2>4. SlotExclusive'
    BY <2>1, <2>2, <2>3 DEF SlotInv, SlotExclusive, HoldsSlot
  <2>5. SlotConserved'
    BY <2>1, <2>2, <2>3 DEF SlotInv, SlotConserved, HoldsSlot
  <2>6. QED
    BY <2>4, <2>5 DEF SlotInv
<1>3. QED
  BY <1>1, <1>2 DEF Acquire

LEMMA SlotsGoroutine ==
    ASSUME TypeOK, SlotInv, NEW k \in Keys, Goroutine(k)
    PROVE  SlotInv'
<1>1. CASE Start(k) \/ Transfer(k) \/ Report(k)
  <2>1. /\ sem' = sem /\ slot' = slot
        /\ \A j \in Keys : gpc'[j] \in HoldsSlot <=> gpc[j] \in HoldsSlot
    BY <1>1 DEF Start, Transfer, Report, Step, TypeOK, PoolTypeOK, HoldsSlot
  <2>2. QED
    BY <2>1 DEF SlotInv, SlotExclusive, SlotConserved
<1>2. CASE Release(k)
  <2>1. /\ sem' = sem \cup {slot[k]} /\ gpc[k] \in HoldsSlot /\ gpc'[k] \notin HoldsSlot
        /\ \A j \in Keys \ {k} : gpc'[j] = gpc[j] /\ slot'[j] = slot[j]
    BY <1>2 DEF Release, Forget, TypeOK, PoolTypeOK, HoldsSlot
  <2>2. SlotExclusive'
    BY <2>1 DEF SlotInv, SlotExclusive
  <2>3. SlotConserved'
    BY <2>1 DEF SlotInv, SlotConserved
  <2>4. QED
    BY <2>2, <2>3 DEF SlotInv
<1>3. CASE Exit(k)
  <2>1. /\ sem' = sem /\ gpc[k] \notin HoldsSlot /\ gpc'[k] \notin HoldsSlot
        /\ \A j \in Keys \ {k} : gpc'[j] = gpc[j] /\ slot'[j] = slot[j]
    BY <1>3 DEF Exit, Step, Forget, TypeOK, PoolTypeOK, HoldsSlot
  <2>2. QED
    BY <2>1 DEF SlotInv, SlotExclusive, SlotConserved
<1>4. QED
  BY <1>1, <1>2, <1>3 DEF Goroutine

LEMMA SlotsPreserved ==
    ASSUME TypeOK, QueueInv, SlotInv, [Next]_vars
    PROVE  SlotInv'
<1>1. CASE RunStep
  <2>1. CASE Acquire
    BY <2>1, SlotsAcquire
  <2>2. CASE Receive \/ WaitWorkers \/ RunReturn
    BY <2>2, SlotsUnchanged DEF Receive, WaitWorkers, RunReturn
  <2>3. QED
    BY <1>1, <2>1, <2>2 DEF RunStep, Run
<1>2. ASSUME NEW k \in Keys, GoroutineStep(k) PROVE SlotInv'
  BY <1>2, SlotsGoroutine DEF GoroutineStep
<1>3. CASE ListerStep
  BY <1>3, SlotsUnchanged DEF ListerStep, UpdateTotals, ListerReturn
<1>4. CASE MainStep \/ Signal \/ ForceExit
  BY <1>4, SlotsUnchanged
     DEF MainStep, GroupWait, Sweep, EndFailedBars, EndOverallBar, Return, Signal, ForceExit
<1>5. CASE UNCHANGED vars
  BY <1>5, SlotsUnchanged DEF vars
<1>6. QED
  BY <1>1, <1>2, <1>3, <1>4, <1>5 DEF Next, Work, Terminated

-----------------------------------------------------------------------------
(* Bars.  What keeps the unsynchronised slots of currentBars apart is that *)
(* no two goroutines hold the same slot, and that Complete comes last.     *)
LEMMA BarsUnchanged ==
    ASSUME BarIsMine, mpc' = "group" => mpc = "group", UNCHANGED <<currentBars, slot, gpc>>
    PROVE  BarIsMine'
BY DEF BarIsMine

LEMMA BarsAcquire ==
    ASSUME TypeOK, QueueInv, BarIsMine, Acquire, UNCHANGED mainVars
    PROVE  BarIsMine'
<1>1. currentBars' = currentBars /\ mpc' = mpc
  BY DEF Acquire
<1>2. CASE UNCHANGED <<gpc, slot>>
  BY <1>1, <1>2, BarsUnchanged
<1>3. CASE \E s \in sem : /\ gpc' = [gpc EXCEPT ![rjob] = "start"]
                          /\ slot' = [slot EXCEPT ![rjob] = s]
  <2>1. \A k \in Keys : gpc'[k] \in {"transfer", "report"} =>
                          gpc[k] = gpc'[k] /\ slot'[k] = slot[k]
    BY <1>3 DEF TypeOK, PoolTypeOK
  <2>2. QED
    BY <1>1, <2>1 DEF BarIsMine
<1>4. QED
  BY <1>2, <1>3 DEF Acquire

LEMMA BarsGoroutine ==
    ASSUME TypeOK, SlotInv, BarIsMine, NEW k \in Keys, GoroutineStep(k)
    PROVE  BarIsMine'
<1>1. mpc' = mpc
  BY DEF GoroutineStep
<1>2. SUFFICES ASSUME mpc = "group", NEW j \in Keys, gpc'[j] \in {"transfer", "report"}
               PROVE  currentBars'[slot'[j]] = j
  BY <1>1 DEF BarIsMine
<1>3. /\ slot[k] \in Slots /\ slot[j] \in Slots
      /\ currentBars \in [Slots -> Keys \cup {NoKey}]
      /\ gpc \in [Keys -> GoroutinePCs] /\ slot \in [Keys -> Slots]
  BY DEF TypeOK, PoolTypeOK, BarsTypeOK
<1>4. CASE Start(k)
  <2>1. /\ gpc[k] = "start" /\ gpc' = [gpc EXCEPT ![k] = "transfer"]
        /\ slot' = slot /\ currentBars' = [currentBars EXCEPT ![slot[k]] = k]
    BY <1>4 DEF Start, Step, StartTransfer
  <2>2. CASE j = k
    BY <1>3, <2>1, <2>2
  <2>3. CASE j # k
    <3>1. gpc[j] \in {"transfer", "report"}
      BY <1>2, <1>3, <2>1, <2>3
    <3>2. slot[j] # slot[k]
      BY <2>1, <2>3, <3>1 DEF SlotInv, SlotExclusive, HoldsSlot
    <3>3. QED
      BY <1>2, <1>3, <2>1, <3>1, <3>2 DEF BarIsMine
  <2>4. QED
    BY <2>2, <2>3
<1>5. CASE Transfer(k)
  <2>1. /\ gpc[k] = "transfer" /\ gpc' = [gpc EXCEPT ![k] = "report"]
        /\ slot' = slot /\ currentBars' = currentBars
    BY <1>5 DEF Transfer, Step
  <2>2. gpc[j] \in {"transfer", "report"}
    BY <1>2, <1>3, <2>1
  <2>3. QED
    BY <1>2, <2>1, <2>2 DEF BarIsMine
<1>6. CASE Report(k)
  <2>1. /\ gpc[k] = "report" /\ gpc' = [gpc EXCEPT ![k] = "release"]
        /\ slot' = slot /\ currentBars' = [currentBars EXCEPT ![slot[k]] = NoKey]
    BY <1>6 DEF Report, Step, CompleteTransfer, FailTransfer
  <2>2. j # k /\ gpc[j] \in {"transfer", "report"}
    BY <1>2, <1>3, <2>1
  <2>3. slot[j] # slot[k]
    BY <2>1, <2>2 DEF SlotInv, SlotExclusive, HoldsSlot
  <2>4. QED
    BY <1>2, <1>3, <2>1, <2>2, <2>3 DEF BarIsMine
<1>7. CASE Release(k) \/ Exit(k)
  <2>1. /\ currentBars' = currentBars
        /\ \E to \in {"exit", "gone"} : gpc' = [gpc EXCEPT ![k] = to]
        /\ \A i \in Keys \ {k} : slot'[i] = slot[i]
    BY <1>3, <1>7 DEF Release, Exit, Step, Forget
  <2>2. j # k /\ gpc[j] \in {"transfer", "report"}
    BY <1>2, <1>3, <2>1
  <2>3. QED
    BY <1>2, <2>1, <2>2 DEF BarIsMine
<1>8. QED
  BY <1>4, <1>5, <1>6, <1>7 DEF GoroutineStep, Goroutine

LEMMA BarsPreserved ==
    ASSUME TypeOK, QueueInv, SlotInv, BarIsMine, [Next]_vars
    PROVE  BarIsMine'
<1>1. CASE RunStep
  <2>1. CASE Acquire /\ UNCHANGED <<listerVars, mainVars>>
    BY <2>1, BarsAcquire
  <2>2. CASE (Receive \/ WaitWorkers) /\ UNCHANGED <<listerVars, mainVars>>
    BY <2>2, BarsUnchanged DEF Receive, WaitWorkers
  <2>3. CASE RunReturn
    BY <2>3, BarsUnchanged DEF RunReturn
  <2>4. QED
    BY <1>1, <2>1, <2>2, <2>3 DEF RunStep, Run
<1>2. ASSUME NEW k \in Keys, GoroutineStep(k) PROVE BarIsMine'
  BY <1>2, BarsGoroutine
<1>3. CASE ListerStep
  BY <1>3, BarsUnchanged DEF ListerStep, UpdateTotals, UpdateScanTotals, ListerReturn
<1>4. CASE MainStep \/ ForceExit
  <2>1. mpc' # "group"
    BY <1>4 DEF MainStep, GroupWait, Sweep, EndFailedBars, EndOverallBar, Return, ForceExit,
                MainGoto
  <2>2. QED
    BY <2>1 DEF BarIsMine
<1>5. CASE Signal
  BY <1>5, BarsUnchanged DEF Signal
<1>6. CASE UNCHANGED vars
  BY <1>6, BarsUnchanged DEF vars
<1>7. QED
  BY <1>1, <1>2, <1>3, <1>4, <1>5, <1>6 DEF Next, Work, Terminated

-----------------------------------------------------------------------------
(* The cause of the reported error.  A cancelled context has a cause of    *)
(* its own, and what the lister and Run will return has one, or comes too  *)
(* late to be reported.                                                    *)
Alarm == signalled \/ groupErr = "fatal"

CauseInv ==
    /\ RootDone => signalled
    /\ "outer" \in cancelled => outerErr # "nil" \/ mpc # "group"
    /\ "inner" \in cancelled => groupErr = "fatal" \/ rpc \in {"return", "returned"}
    /\ mpc \notin {"group", "exited"} => lpc = "returned" /\ rpc = "returned"
    /\ lerr = "ctx" \/ rerr = "ctx" => Alarm \/ outerErr # "nil"
    /\ rerr = "fatal" => groupErr = "fatal"
    /\ ErrorHasCause

LEMMA CauseUnchanged ==
    ASSUME CauseInv, UNCHANGED <<cancelled, outerErr, mpc, groupErr, rpc, lpc, lerr, rerr>>,
           signalled => signalled'
    PROVE  CauseInv'
BY DEF CauseInv, ErrorHasCause, Alarm, RootDone

(* Whoever finds its context done has an error to blame.                   *)
LEMMA DoneHasCause ==
    ASSUME CauseInv, Running
    PROVE  /\ OuterDone /\ lpc # "returned" => Alarm \/ outerErr # "nil"
           /\ InnerDone /\ rpc \notin {"return", "returned"} => Alarm \/ outerErr # "nil"
BY DEF CauseInv, Running, OuterDone, InnerDone, Alarm

(* The errgroup of main takes an error that has a cause.                   *)
LEMMA GroupGetsCause ==
    ASSUME CauseInv, NEW e \in {"nil", "ctx", "fatal", "list"}, GroupGets(e),
           e = "ctx" => Alarm \/ outerErr # "nil", e = "fatal" => groupErr = "fatal",
           UNCHANGED <<mpc, groupErr, signalled>>
    PROVE  /\ RootDone' => signalled'
           /\ "outer" \in cancelled' => outerErr' # "nil" \/ mpc' # "group"
           /\ "inner" \in cancelled' => "inner" \in cancelled
           /\ outerErr # "nil" => outerErr' # "nil"
           /\ ErrorHasCause'
BY DEF CauseInv, GroupGets, ErrorHasCause, Alarm, RootDone

LEMMA CausePreserved ==
    ASSUME TypeOK, CauseInv, [Next]_vars
    PROVE  CauseInv'
<1>1. CASE ListerStep
  <2>1. CASE NextPage(OuterDone) \/ SendJob(OuterDone)
    <3>1. UNCHANGED <<cancelled, outerErr, mpc, groupErr, rpc, rerr, signalled>>
      BY <1>1, <2>1 DEF ListerStep, NextPage, SendJob, UpdateTotals, ListerReturn
    <3>2. lpc \in {"page", "send"}
      BY <2>1 DEF NextPage, SendJob
    <3>3. lerr' = lerr \/ lerr' = "list" \/ (lerr' = "ctx" /\ OuterDone)
      BY <2>1 DEF NextPage, SendJob, ListerReturns
    <3>4. mpc \in {"group", "exited"}
      BY <3>2 DEF CauseInv
    <3>5. OuterDone => Alarm \/ outerErr # "nil"
      BY <1>1, <3>2, DoneHasCause DEF ListerStep
    <3> QED
      BY <3>1, <3>3, <3>4, <3>5 DEF CauseInv, ErrorHasCause, Alarm, RootDone
  <2>2. CASE EndOfListing \/ CloseJobs \/ UpdateTotals
    <3>1. UNCHANGED <<cancelled, outerErr, mpc, groupErr, rpc, rerr, signalled>>
      BY <1>1, <2>2 DEF ListerStep, NextPage, SendJob, EndOfListing, CloseJobs,
                        UpdateTotals, ListerReturn
    <3>2. lpc # "returned" /\ (lerr' = lerr \/ lerr' = "nil")
      BY <2>2 DEF EndOfListing, CloseJobs, UpdateTotals, ListerReturns
    <3> QED
      BY <3>1, <3>2 DEF CauseInv, ErrorHasCause, Alarm, RootDone
  <2>3. CASE ListerReturn
    <3>1. /\ UNCHANGED <<mpc, groupErr, rpc, rerr, signalled, lerr>>
          /\ GroupGets(lerr) /\ lpc' = "returned"
      BY <2>3 DEF ListerReturn
    <3>2. lerr \in {"nil", "ctx", "list"}
      BY DEF TypeOK, ListerTypeOK
    <3>3. lerr = "ctx" => Alarm \/ outerErr # "nil"
      BY DEF CauseInv
    <3> QED
      BY <3>1, <3>2, <3>3, GroupGetsCause DEF CauseInv, Alarm
  <2> QED
    BY <1>1, <2>1, <2>2, <2>3 DEF ListerStep
<1>2. CASE RunStep
  <2>1. CASE Receive /\ UNCHANGED <<listerVars, mainVars>>
    <3>1. /\ UNCHANGED <<cancelled, outerErr, mpc, groupErr, lpc, lerr, rerr, signalled>>
          /\ rpc = "recv"
      BY <2>1 DEF Receive
    <3> QED
      BY <3>1 DEF CauseInv, ErrorHasCause, Alarm, RootDone
  <2>2. CASE Acquire /\ UNCHANGED <<listerVars, mainVars>>
    <3>1. /\ UNCHANGED <<cancelled, outerErr, mpc, groupErr, lpc, lerr, signalled>>
          /\ rpc = "acquire"
          /\ rerr' = rerr \/ (rerr' = "ctx" /\ InnerDone)
      BY <2>2 DEF Acquire
    <3>2. InnerDone => Alarm \/ outerErr # "nil"
      BY <1>2, <3>1, DoneHasCause DEF RunStep
    <3> QED
      BY <3>1, <3>2 DEF CauseInv, ErrorHasCause, Alarm, RootDone
  <2>3. CASE WaitWorkers /\ UNCHANGED <<listerVars, mainVars>>
    <3>1. /\ UNCHANGED <<outerErr, mpc, groupErr, lpc, lerr, signalled>>
          /\ rpc = "wait" /\ rpc' = "return" /\ rerr' = groupErr
          /\ cancelled' = cancelled \cup {"inner"}
      BY <2>3 DEF WaitWorkers
    <3>2. groupErr \in {"nil", "fatal"}
      BY DEF TypeOK, PoolTypeOK
    <3> QED
      BY <3>1, <3>2 DEF CauseInv, ErrorHasCause, Alarm, RootDone
  <2>4. CASE RunReturn
    <3>1. /\ UNCHANGED <<mpc, groupErr, lpc, lerr, rerr, signalled>>
          /\ GroupGets(rerr) /\ rpc = "return" /\ rpc' = "returned"
      BY <2>4 DEF RunReturn
    <3>2. rerr \in {"nil", "ctx", "fatal"}
      BY DEF TypeOK, PoolTypeOK
    <3>3. /\ rerr = "ctx" => Alarm \/ outerErr # "nil"
          /\ rerr = "fatal" => groupErr = "fatal"
      BY DEF CauseInv
    <3> QED
      BY <3>1, <3>2, <3>3, GroupGetsCause DEF CauseInv, Alarm
  <2> QED
    BY <1>2, <2>1, <2>2, <2>3, <2>4 DEF RunStep, Run
<1>3. ASSUME NEW k \in Keys, GoroutineStep(k) PROVE CauseInv'
  <2>1. UNCHANGED <<outerErr, mpc, signalled, rpc, lpc, lerr, rerr>>
    BY <1>3 DEF GoroutineStep, Goroutine, Start, Transfer, Report, Release, Exit
  <2>2. \/ UNCHANGED <<cancelled, groupErr>>
        \/ groupErr' = "fatal" /\ cancelled' = cancelled \cup {"inner"}
    BY <1>3 DEF GoroutineStep, Goroutine, Start, Transfer, Report, Release, Exit
  <2> QED
    BY <2>1, <2>2 DEF CauseInv, ErrorHasCause, Alarm, RootDone
<1>4. CASE MainStep
  <2>1. UNCHANGED <<outerErr, groupErr, rpc, lpc, lerr, rerr, signalled>>
    BY <1>4 DEF MainStep, GroupWait, Sweep, EndFailedBars, EndOverallBar, Return
  <2>2. CASE GroupWait
    BY <2>1, <2>2 DEF GroupWait, MainGoto, CauseInv, ErrorHasCause, Alarm, RootDone
  <2>3. CASE Sweep \/ EndFailedBars \/ EndOverallBar \/ Return
    <3>1. cancelled' = cancelled /\ mpc \notin {"group", "exited"} /\ mpc' # "group"
      BY <2>3 DEF Sweep, EndFailedBars, EndOverallBar, Return, MainGoto
    <3> QED
      BY <2>1, <3>1 DEF CauseInv, ErrorHasCause, Alarm, RootDone
  <2> QED
    BY <1>4, <2>2, <2>3 DEF MainStep
<1>5. CASE Signal
  BY <1>5 DEF Signal, CauseInv, ErrorHasCause, Alarm, RootDone
<1>6. CASE ForceExit
  BY <1>6 DEF ForceExit, CauseInv, ErrorHasCause, Alarm, RootDone
<1>7. CASE UNCHANGED vars
  BY <1>7, CauseUnchanged DEF vars
<1> QED
  BY <1>1, <1>2, <1>3, <1>4, <1>5, <1>6, <1>7 DEF Next, Work, Terminated

-----------------------------------------------------------------------------
(* The inductive invariant.                                                *)
IInv == TypeOK /\ OnPage /\ QueueInv /\ SlotInv /\ BarIsMine

LEMMA InitIInv == Init => IInv
<1> SUFFICES ASSUME Init PROVE IInv
  OBVIOUS
<1> USE DEF Init, ListerInit, PoolInit, BarsInit
<1>1. Cardinality({}) = 0 /\ <<>> \in Seq(Keys) /\ Len(<<>>) = 0
  BY FS_EmptySet
<1>2. ChannelTypeOK
  <2>1. Len(jobs) <= Capacity
    BY <1>1, LengthsAreNat
  <2>2. QED
    BY <1>1, <2>1, CompletedBeforeAssumption DEF ChannelTypeOK
<1>3. MainTypeOK
  <2>1. swept \in 0 .. Workers
    BY LengthsAreNat
  <2>2. QED
    BY <2>1 DEF MainTypeOK
<1>4. ListerTypeOK /\ OnPage
  BY LengthsAreNat DEF ListerTypeOK, OnPage
<1>5. PoolTypeOK
  BY LengthsAreNat DEF PoolTypeOK, GoroutinePCs
<1>6. BarsTypeOK
  <2>1. Cardinality(CompletedBefore) \in Nat
    BY CompletedBeforeAssumption, FS_CardinalityType
  <2>2. PICK preloaded \in {0, Cardinality(CompletedBefore)} : BarsInit(preloaded)
    OBVIOUS
  <2>3. QED
    BY <2>1, <2>2 DEF BarsTypeOK
<1>7. QueueInv
  BY <1>1 DEF QueueInv, PageDue, ChannelOnce, CurrentOnce, StartedDue
<1>8. SlotInv /\ BarIsMine
  BY DEF SlotInv, SlotExclusive, SlotConserved, HoldsSlot, BarIsMine
<1>9. QED
  BY <1>2, <1>3, <1>4, <1>5, <1>6, <1>7, <1>8, TypeParts DEF IInv

LEMMA NextIInv == IInv /\ [Next]_vars => IInv'
<1> SUFFICES ASSUME IInv, [Next]_vars PROVE IInv'
  OBVIOUS
<1> USE DEF IInv
<1>1. SlotInv' /\ BarIsMine'
  BY SlotsPreserved, BarsPreserved
<1>2. CASE ListerStep
  BY <1>1, <1>2, ListerType, QueueLister
<1>3. CASE RunStep
  BY <1>1, <1>3, RunType, QueueRun
<1>4. ASSUME NEW k \in Keys, GoroutineStep(k) PROVE IInv'
  BY <1>1, <1>4, GoroutineType, QueueGoroutine
<1>5. CASE MainStep \/ Signal \/ ForceExit
  <2>1. UNCHANGED <<jobs, completed, listerVars, rpc, rjob, gpc>>
    BY <1>5 DEF MainStep, GroupWait, Sweep, EndFailedBars, EndOverallBar, Return, Signal,
                ForceExit
  <2>2. QED
    BY <1>1, <1>5, <2>1, MainType, QueueUnchanged
<1>6. CASE UNCHANGED vars
  <2>1. ChannelTypeOK'
    BY <1>6, TypeParts DEF vars, ChannelTypeOK
  <2>2. TypeOK' /\ OnPage'
    BY <1>6, <2>1, TypeParts, TypeUnchanged DEF vars
  <2>3. QED
    BY <1>1, <1>6, <2>2, QueueUnchanged DEF vars
<1>7. QED
  BY <1>2, <1>3, <1>4, <1>5, <1>6 DEF Next, Work, Terminated

LEMMA Invariance == Spec => []IInv
BY InitIInv, NextIInv, PTL DEF Spec

-----------------------------------------------------------------------------
(* Every variable of a run keeps its type: in particular the channel never *)
(* holds more than its capacity, and skipped never exceeds the total.      *)
THEOREM TypeCorrect == Spec => []TypeOK
<1>1. IInv => TypeOK
  BY DEF IInv
<1>2. QED
  BY <1>1, Invariance, PTL

(* A slot ID is in the semaphore or held by one goroutine: the arrays      *)
(* indexed by it without a lock are never shared (progress.go:36-37).      *)
THEOREM SlotsAreExclusive == Spec => []SlotExclusive
<1>1. IInv => SlotExclusive
  BY DEF IInv, SlotInv
<1>2. QED
  BY <1>1, Invariance, PTL

(* No slot ID is lost, whatever fails and whenever the run is cut short    *)
(* (pool.go:69-72).                                                        *)
THEOREM SlotsAreConserved == Spec => []SlotConserved
<1>1. IInv => SlotConserved
  BY DEF IInv, SlotInv
<1>2. QED
  BY <1>1, Invariance, PTL

(* Until Complete begins, a transfer finds its own bar in its slot         *)
(* (progress.go:295, 301, 338).                                            *)
THEOREM BarsStayApart == Spec => []BarIsMine
<1>1. IInv => BarIsMine
  BY DEF IInv
<1>2. QED
  BY <1>1, Invariance, PTL

(* An object recorded by an earlier run, or an empty one, is never         *)
(* transferred (README.md:5, lister.go:67-75).                             *)
THEOREM NoSecondTransfer == Spec => []NothingTransferredTwice
<1>1. IInv => NothingTransferredTwice
  <2> SUFFICES ASSUME IInv, NEW k \in CompletedBefore \cup ZeroSize
               PROVE  gpc[k] = "none"
    BY DEF NothingTransferredTwice
  <2>1. k \in Keys /\ k \notin HandedOver
    BY CompletedBeforeAssumption, ListerAssumption DEF HandedOver, DueKeys
  <2>2. QED
    BY <2>1 DEF IInv, QueueInv, StartedDue
<1>2. QED
  BY <1>1, Invariance, PTL

(* The error the user is shown has a cause: "context canceled" a signal or *)
(* a fatal error, a fatal error a transfer that met one (pool.go:60-77,    *)
(* main.go:551-565).                                                       *)
THEOREM ErrorsHaveCauses == Spec => []ErrorHasCause
<1>1. Init => CauseInv
  BY DEF Init, ListerInit, PoolInit, CauseInv, ErrorHasCause, RootDone
<1>2. IInv /\ CauseInv /\ [Next]_vars => CauseInv'
  BY CausePreserved DEF IInv
<1>3. CauseInv => ErrorHasCause
  BY DEF CauseInv
<1>4. QED
  BY <1>1, <1>2, <1>3, Invariance, PTL DEF Spec
=============================================================================
