------------------------- MODULE MigrationAccounting -------------------------
(***************************************************************************)
(* Proofs about what Migration counts and what becomes of every object of  *)
(* the listing, for any listing, any number of workers, any set of         *)
(* failures and any keys completed before.                                 *)
(***************************************************************************)
EXTENDS MigrationProofs

(* The variables a step leaves alone are given as tuples.                  *)
USE DEF chanVars, listerVars, poolVars, barVars, counters, mainVars

-----------------------------------------------------------------------------
(* The invariants.                                                         *)

(* A transfer that has returned nil has recorded its object, and no other  *)
(* has: what this run completed, it has started.                           *)
Recorded(k) ==
    \/ gpc[k] = "report" /\ outcome[k] = "ok"
    \/ gpc[k] \in {"release", "exit", "gone"}

OutcomeInv ==
    /\ IsFiniteSet(completed)
    /\ \A k \in completed \ CompletedBefore : Recorded(k)
    /\ \A k \in Keys : gpc[k] = "report" /\ outcome[k] = "ok" => k \in completed

(* The totals are those of the pages read so far: the non-empty objects on *)
(* them, and those of them that an earlier run has completed.              *)
KeysOn(p) == {Pages[p][i] : i \in Objects(p)}
Seen == UNION {KeysOn(p) : p \in 1 .. page}

TotalsInv ==
    /\ IsFiniteSet(Seen)
    /\ total = Cardinality(Seen)
    /\ skipped = Cardinality(Seen \cap CompletedBefore)

(* What the lister has done when it stops.                                 *)
ListerInv ==
    /\ lpc = "page" => pageJobs = {}
    /\ lpc \in {"page", "totals", "send"} => lerr = "nil" /\ manifest = NoManifest
    /\ lpc \in {"close", "return", "returned"} /\ lerr = "nil" =>
          page = Len(Pages) /\ pageJobs = {}
    /\ manifest # NoManifest => manifest = total /\ lerr = "nil"
    /\ closed => lpc \in {"return", "returned"}
    /\ lpc = "returned" /\ lerr # "nil" => outerErr # "nil"

(* What Run has done when it stops by itself.                              *)
RunInv ==
    /\ rpc \notin {"return", "returned"} => rerr = "nil"
    /\ rpc \in {"wait", "return", "returned"} /\ rerr # "ctx" => jobs = <<>> /\ closed
    /\ rpc \in {"return", "returned"} /\ rerr # "ctx" =>
          rerr = groupErr /\ \A k \in Keys : gpc[k] \in {"none", "gone"}
    /\ rpc = "returned" /\ rerr # "nil" => outerErr # "nil"

(* No object is lost on the way from the listing to its goroutine, unless  *)
(* Run was cut short.                                                      *)
Accounted(k) ==
    \/ k \in completed
    \/ gpc[k] # "none"
    \/ rjob = k
    \/ \E i \in 1 .. Len(jobs) : jobs[i] = k
    \/ rerr = "ctx"

ExitInv ==
    /\ mpc \notin {"group", "exited"} => lpc = "returned" /\ rpc = "returned"
    /\ exit = "ok" => lpc = "returned" /\ rpc = "returned"
    /\ exit = "ok" => outerErr = "nil" /\ mpc = "exited"

AccountInv ==
    /\ ListerInv
    /\ RunInv
    /\ \A k \in HandedOver : Accounted(k)
    /\ ExitInv

(* The two counters.  While UpdateScanTotals is between its read and its   *)
(* store, current is what it has read.                                     *)
CountersInv ==
    /\ OverallIsHonest
    /\ overall <= Cardinality(Reported) + completedBytes
    /\ lpc = "totals" => current <= completedBytes /\ overall <= Cardinality(Reported) + current

-----------------------------------------------------------------------------
(* Outcomes.                                                               *)
LEMMA OutcomePreserved ==
    ASSUME IInv, OutcomeInv, [Next]_vars
    PROVE  OutcomeInv'
<1>1. /\ gpc \in [Keys -> GoroutinePCs]
      /\ outcome \in [Keys -> {"none", "ok", "failed", "fatal", "ctx"}]
      /\ completed \subseteq Keys
  BY DEF IInv, TypeOK, PoolTypeOK
<1>2. CASE UNCHANGED <<completed, gpc, outcome>>
  BY <1>2 DEF OutcomeInv, Recorded
<1>3. CASE Acquire
  <2>1. /\ UNCHANGED <<completed, outcome>>
        /\ gpc' = gpc \/ gpc' = [gpc EXCEPT ![rjob] = "start"]
    BY <1>3 DEF Acquire
  <2>2. rjob \in Keys /\ gpc[rjob] = "none"
    BY <1>3 DEF Acquire, IInv, QueueInv, CurrentOnce, TypeOK, PoolTypeOK
  <2>3. QED
    BY <1>1, <2>1, <2>2 DEF OutcomeInv, Recorded
<1>4. ASSUME NEW k \in Keys, Goroutine(k) PROVE OutcomeInv'
  <2>1. k \in Keys /\ k \notin CompletedBefore
    BY <1>4 DEF Goroutine, Start, Transfer, Report, Release, Exit, Step,
                IInv, QueueInv, StartedDue, HandedOver, DueKeys
  <2>2. CASE Start(k)
    BY <1>1, <2>2 DEF Start, Step, OutcomeInv, Recorded
  <2>3. CASE Transfer(k)
    <3>1. /\ gpc[k] = "transfer" /\ gpc' = [gpc EXCEPT ![k] = "report"]
          /\ \/ outcome' = [outcome EXCEPT ![k] = "ok"] /\ completed' = completed \cup {k}
             \/ /\ completed' = completed
                /\ \E o \in {"failed", "fatal", "ctx"} : outcome' = [outcome EXCEPT ![k] = o]
      BY <2>3, FailuresAssumption DEF Transfer, Step
    <3>2. k \notin completed
      BY <2>1, <3>1 DEF OutcomeInv, Recorded
    <3>3. IsFiniteSet(completed')
      BY <3>1, FS_AddElement DEF OutcomeInv
    <3>4. ASSUME NEW j \in completed' \ CompletedBefore PROVE Recorded(j)'
      <4>1. CASE j = k
        BY <1>1, <2>1, <3>1, <3>2, <4>1 DEF Recorded
      <4>2. CASE j # k
        BY <1>1, <2>1, <3>1, <3>4, <4>2 DEF OutcomeInv, Recorded
      <4>3. QED
        BY <4>1, <4>2
    <3>5. ASSUME NEW j \in Keys, gpc'[j] = "report", outcome'[j] = "ok" PROVE j \in completed'
      BY <1>1, <2>1, <3>1, <3>5 DEF OutcomeInv
    <3>6. QED
      BY <3>3, <3>4, <3>5 DEF OutcomeInv
  <2>4. CASE Report(k)
    BY <1>1, <2>4 DEF Report, Step, OutcomeInv, Recorded
  <2>5. CASE Release(k)
    <3>1. /\ gpc[k] = "release" /\ completed' = completed
          /\ \E to \in {"exit", "gone"} : gpc' = [gpc EXCEPT ![k] = to]
          /\ \A j \in Keys \ {k} : outcome'[j] = outcome[j]
      BY <1>1, <2>5 DEF Release, Forget
    <3>2. QED
      BY <1>1, <3>1 DEF OutcomeInv, Recorded
  <2>6. CASE Exit(k)
    <3>1. /\ gpc[k] = "exit" /\ completed' = completed
          /\ gpc' = [gpc EXCEPT ![k] = "gone"]
          /\ \A j \in Keys \ {k} : outcome'[j] = outcome[j]
      BY <1>1, <2>6 DEF Exit, Step, Forget
    <3>2. QED
      BY <1>1, <3>1 DEF OutcomeInv, Recorded
  <2>7. QED
    BY <1>4, <2>2, <2>3, <2>4, <2>5, <2>6 DEF Goroutine
<1>5. CASE ListerStep
  BY <1>2, <1>5 DEF ListerStep, NextPage, SendJob, EndOfListing, CloseJobs, UpdateTotals,
                    ListerReturn
<1>6. CASE RunStep
  BY <1>2, <1>3, <1>6 DEF RunStep, Run, Receive, WaitWorkers, RunReturn
<1>7. CASE MainStep \/ Signal \/ ForceExit
  BY <1>2, <1>7 DEF MainStep, GroupWait, Sweep, EndFailedBars, EndOverallBar, Return, Signal,
                    ForceExit
<1>8. CASE UNCHANGED vars
  BY <1>2, <1>8 DEF vars
<1>9. QED
  BY <1>4, <1>5, <1>6, <1>7, <1>8 DEF Next, Work, Terminated, GoroutineStep

-----------------------------------------------------------------------------
(* Totals.  The listing names a key once, so positions may be counted for  *)
(* keys.                                                                   *)
LEMMA PositionsAreKeys ==
    ASSUME NEW p \in 1 .. Len(Pages), NEW S \in SUBSET Objects(p)
    PROVE  /\ IsFiniteSet({Pages[p][i] : i \in S})
           /\ Cardinality({Pages[p][i] : i \in S}) = Cardinality(S)
<1> DEFINE T == {Pages[p][i] : i \in S}
           f == [i \in S |-> Pages[p][i]]
<1>1. Pages[p] \in Seq(Keys) /\ Len(Pages[p]) \in Nat /\ S \subseteq 1 .. Len(Pages[p])
  <2>1. Pages[p] \in Seq(Keys)
    BY PageCounts
  <2>2. QED
    BY <2>1 DEF Objects
<1>2. IsFiniteSet(S)
  <2>1. IsFiniteSet(1 .. Len(Pages[p]))
    BY <1>1, FS_Interval
  <2>2. QED
    BY <1>1, <2>1, FS_Subset
<1>3. \A i, j \in S : Pages[p][i] = Pages[p][j] => i = j
  <2>1. p \in DOMAIN Pages /\ S \subseteq DOMAIN Pages[p]
    BY <1>1, LengthsAreNat
  <2>2. QED
    BY <2>1, ListerAssumption
<1>4. f \in Bijection(S, T)
  BY <1>3 DEF Bijection, Injection, IsInjective, Surjection
<1>5. ExistsBijection(S, T)
  BY <1>4 DEF ExistsBijection
<1>6. QED
  BY <1>2, <1>5, FS_Bijection

LEMMA DisjointUnionCount ==
    ASSUME NEW S, NEW T, IsFiniteSet(S), IsFiniteSet(T), S \cap T = {}
    PROVE  /\ IsFiniteSet(S \cup T)
           /\ Cardinality(S) \in Nat /\ Cardinality(T) \in Nat
           /\ Cardinality(S \cup T) = Cardinality(S) + Cardinality(T)
<1>1. Cardinality(S \cap T) = 0
  BY FS_EmptySet
<1>2. /\ Cardinality(S) \in Nat /\ Cardinality(T) \in Nat
      /\ IsFiniteSet(S \cup T)
      /\ Cardinality(S \cup T) = Cardinality(S) + Cardinality(T) - Cardinality(S \cap T)
  BY FS_Union, FS_CardinalityType
<1>3. QED
  BY <1>1, <1>2

LEMMA SeenGrows ==
    ASSUME IInv, OutcomeInv, page < Len(Pages), page' = page + 1
    PROVE  /\ page + 1 \in 1 .. Len(Pages)
           /\ Seen' = Seen \cup KeysOn(page + 1)
           /\ Seen \cap KeysOn(page + 1) = {}
           /\ KeysOn(page + 1) \cap completed = KeysOn(page + 1) \cap CompletedBefore
<1>1. page \in 0 .. Len(Pages) /\ Len(Pages) \in Nat
  BY LengthsAreNat DEF IInv, TypeOK, ListerTypeOK
<1>2. page + 1 \in 1 .. Len(Pages) /\ 1 .. page' = (1 .. page) \cup {page + 1}
  BY <1>1
<1>3. Seen' = Seen \cup KeysOn(page + 1)
  BY <1>2 DEF Seen, KeysOn
<1>4. \A p \in 1 .. page : p \in 1 .. Len(Pages) /\ p # page + 1
  BY <1>1
<1>5. \A p \in 1 .. Len(Pages) : p \in DOMAIN Pages /\ Objects(p) \subseteq DOMAIN Pages[p]
  BY LengthsAreNat DEF Objects
<1>6. ASSUME NEW p \in 1 .. page, NEW i \in Objects(p), NEW j \in Objects(page + 1)
      PROVE  Pages[p][i] # Pages[page + 1][j]
  BY <1>2, <1>4, <1>5, ListerAssumption
<1>7. Seen \cap KeysOn(page + 1) = {}
  BY <1>6 DEF Seen, KeysOn
<1>8. ASSUME NEW k \in KeysOn(page + 1), k \in completed PROVE k \in CompletedBefore
  <2>1. SUFFICES ASSUME k \notin CompletedBefore PROVE FALSE
    OBVIOUS
  <2>2. k \in HandedOver
    BY <1>8, <2>1 DEF OutcomeInv, Recorded, IInv, TypeOK, QueueInv, StartedDue
  <2>3. PICK p \in 1 .. page : \E i \in 1 .. Len(Pages[p]) : Pages[p][i] = k /\ k \in DueKeys
    BY <2>2 DEF HandedOver
  <2>4. PICK i \in 1 .. Len(Pages[p]) : Pages[p][i] = k /\ k \in DueKeys
    BY <2>3
  <2>5. i \in Objects(p)
    BY <1>4, <2>4, LengthsAreNat DEF Objects, DueKeys
  <2>6. QED
    BY <1>6, <1>8, <2>4, <2>5 DEF KeysOn
<1>9. CompletedBefore \subseteq completed
  BY DEF IInv, QueueInv
<1>10. QED
  BY <1>2, <1>3, <1>7, <1>8, <1>9

LEMMA TotalsPreserved ==
    ASSUME IInv, OutcomeInv, TotalsInv, [Next]_vars
    PROVE  TotalsInv'
<1>1. CASE UNCHANGED <<page, total, skipped>>
  BY <1>1 DEF TotalsInv, Seen
<1>2. CASE /\ page < Len(Pages) /\ page' = page + 1
           /\ total' = total + Cardinality(Objects(page + 1))
           /\ skipped' = skipped + Cardinality(Objects(page + 1) \ ToSend(page + 1))
  <2> DEFINE p == page + 1
             K == KeysOn(p)
             Old == Objects(p) \ ToSend(p)
  <2>1. /\ p \in 1 .. Len(Pages) /\ Seen' = Seen \cup K /\ Seen \cap K = {}
        /\ K \cap completed = K \cap CompletedBefore
    BY <1>2, SeenGrows
  <2>2. IsFiniteSet(K) /\ Cardinality(K) = Cardinality(Objects(p))
    BY <2>1, PositionsAreKeys DEF KeysOn
  <2>3. /\ IsFiniteSet(K \cap CompletedBefore)
        /\ Cardinality(K \cap CompletedBefore) = Cardinality(Old)
    <3>1. K \cap completed = {Pages[p][i] : i \in Old}
      BY DEF KeysOn, ToSend
    <3>2. Old \in SUBSET Objects(p)
      OBVIOUS
    <3>3. /\ IsFiniteSet({Pages[p][i] : i \in Old})
          /\ Cardinality({Pages[p][i] : i \in Old}) = Cardinality(Old)
      BY <2>1, <3>2, PositionsAreKeys
    <3>4. K \cap CompletedBefore = {Pages[p][i] : i \in Old}
      BY <2>1, <3>1
    <3> HIDE DEF K, Old
    <3>5. QED
      BY <3>3, <3>4
  <2>4. IsFiniteSet(Seen') /\ Cardinality(Seen') = Cardinality(Seen) + Cardinality(K)
    BY <2>1, <2>2, DisjointUnionCount DEF TotalsInv
  <2>5. Cardinality(Seen' \cap CompletedBefore)
            = Cardinality(Seen \cap CompletedBefore) + Cardinality(K \cap CompletedBefore)
    <3>1. IsFiniteSet(Seen \cap CompletedBefore)
      BY FS_Subset DEF TotalsInv
    <3>2. Seen' \cap CompletedBefore = (Seen \cap CompletedBefore) \cup (K \cap CompletedBefore)
      BY <2>1
    <3>3. (Seen \cap CompletedBefore) \cap (K \cap CompletedBefore) = {}
      BY <2>1
    <3> HIDE DEF K
    <3>4. QED
      BY <2>3, <3>1, <3>2, <3>3, DisjointUnionCount
  <2>6. QED
    BY <1>2, <2>2, <2>3, <2>4, <2>5 DEF TotalsInv
<1>3. CASE ListerStep
  BY <1>1, <1>2, <1>3 DEF ListerStep, NextPage, SendJob, EndOfListing, CloseJobs, UpdateTotals,
                          ListerReturn
<1>4. CASE RunStep
  BY <1>1, <1>4 DEF RunStep, Run, Receive, Acquire, WaitWorkers, RunReturn
<1>5. ASSUME NEW k \in Keys, GoroutineStep(k) PROVE TotalsInv'
  BY <1>1, <1>5 DEF GoroutineStep
<1>6. CASE MainStep \/ Signal \/ ForceExit
  BY <1>1, <1>6 DEF MainStep, GroupWait, Sweep, EndFailedBars, EndOverallBar, Return, Signal,
                    ForceExit
<1>7. CASE UNCHANGED vars
  BY <1>1, <1>7 DEF vars
<1>8. QED
  BY <1>3, <1>4, <1>5, <1>6, <1>7 DEF Next, Work, Terminated

-----------------------------------------------------------------------------
(* The counters.  Only the report of a completed transfer changes which    *)
(* transfers were reported.                                                *)
LEMMA ReportedType ==
    ASSUME IsFiniteSet(completed)
    PROVE  IsFiniteSet(Reported) /\ Cardinality(Reported) \in Nat
<1>1. Reported \in SUBSET completed
  BY DEF Reported
<1>2. QED
  BY <1>1, FS_Subset, FS_CardinalityType

LEMMA ReportedUnchanged ==
    ASSUME UNCHANGED completed, \A k \in completed : gpc'[k] = "report" <=> gpc[k] = "report"
    PROVE  Reported' = Reported
BY DEF Reported

LEMMA SkippedIsBounded ==
    ASSUME TotalsInv
    PROVE  /\ skipped \in Nat /\ Cardinality(CompletedBefore) \in Nat
           /\ skipped <= Cardinality(CompletedBefore)
<1>1. Seen \cap CompletedBefore \in SUBSET CompletedBefore
  OBVIOUS
<1>2. QED
  BY <1>1, CompletedBeforeAssumption, FS_Subset, FS_CardinalityType DEF TotalsInv

LEMMA CountersUnchanged ==
    ASSUME CountersInv, UNCHANGED <<overall, completedBytes>>, Reported' = Reported,
           UNCHANGED <<lpc, current>> \/ lpc' # "totals"
    PROVE  CountersInv'
BY DEF CountersInv, OverallIsHonest

LEMMA CountersLister ==
    ASSUME IInv, OutcomeInv, TotalsInv, CountersInv, ListerStep
    PROVE  CountersInv'
<1>1. UNCHANGED <<completed, gpc>>
  BY DEF ListerStep, NextPage, SendJob, EndOfListing, CloseJobs, UpdateTotals, ListerReturn
<1>2. Reported' = Reported
  BY <1>1, ReportedUnchanged
<1> DEFINE R == Cardinality(Reported)
           C == Cardinality(CompletedBefore)
<1>3. /\ R \in Nat /\ C \in Nat /\ skipped \in Nat /\ skipped <= C
      /\ overall \in Nat /\ completedBytes \in Nat /\ current \in Nat
  BY ReportedType, SkippedIsBounded DEF OutcomeInv, IInv, TypeOK, BarsTypeOK, ListerTypeOK
<1>4. CASE UpdateTotals
  <2>1. /\ lpc = "totals" /\ lpc' # "totals"
        /\ IF skipped > current
           THEN overall' = overall + (skipped - current) /\ completedBytes' = skipped
           ELSE UNCHANGED <<overall, completedBytes>>
    BY <1>4 DEF UpdateTotals, UpdateScanTotals
  <2>2. /\ R <= overall /\ overall <= R + C /\ completedBytes <= overall
        /\ overall <= R + completedBytes
        /\ current <= completedBytes /\ overall <= R + current
    BY <2>1 DEF CountersInv, OverallIsHonest
  <2>3. /\ R <= overall' /\ overall' <= R + C /\ completedBytes' <= overall'
        /\ overall' <= R + completedBytes'
    <3> HIDE DEF R, C
    <3>1. QED
      BY <1>3, <2>1, <2>2
  <2>4. QED
    BY <1>2, <2>1, <2>3 DEF CountersInv, OverallIsHonest
<1>5. CASE NextPage(OuterDone) /\ UNCHANGED <<poolVars, barVars, mainVars>>
  <2>1. UNCHANGED <<overall, completedBytes>> /\ (lpc' # "totals" \/ current' = completedBytes)
    BY <1>5 DEF NextPage, ListerReturns
  <2>2. QED
    BY <1>2, <1>3, <2>1 DEF CountersInv, OverallIsHonest
<1>6. CASE UNCHANGED <<overall, completedBytes>> /\ lpc' # "totals"
  BY <1>2, <1>6, CountersUnchanged
<1>7. QED
  BY <1>4, <1>5, <1>6 DEF ListerStep, SendJob, Send, EndOfListing, CloseJobs, ListerReturns,
                          ListerReturn

LEMMA CountersGoroutine ==
    ASSUME IInv, OutcomeInv, TotalsInv, CountersInv, NEW k \in Keys, GoroutineStep(k)
    PROVE  CountersInv'
<1>1. /\ gpc \in [Keys -> GoroutinePCs] /\ completed \subseteq Keys
      /\ UNCHANGED <<lpc, current>>
  BY DEF IInv, TypeOK, PoolTypeOK, GoroutineStep
<1>2. CASE Start(k) \/ Release(k) \/ Exit(k)
  <2>1. /\ UNCHANGED <<completed, overall, completedBytes>>
        /\ \A j \in Keys : gpc'[j] = "report" <=> gpc[j] = "report"
    BY <1>1, <1>2 DEF Start, StartTransfer, Release, Exit, Step
  <2>2. QED
    BY <1>1, <2>1, ReportedUnchanged, CountersUnchanged
<1>3. CASE Transfer(k)
  <2>1. /\ UNCHANGED <<overall, completedBytes>>
        /\ completed' = completed \/ completed' = completed \cup {k}
        /\ gpc[k] = "transfer" /\ gpc' = [gpc EXCEPT ![k] = "report"]
    BY <1>3 DEF Transfer, Step
  <2>2. k \notin completed \ CompletedBefore
    BY <2>1 DEF OutcomeInv, Recorded
  <2>3. Reported' = Reported
    BY <1>1, <2>1, <2>2 DEF Reported
  <2>4. QED
    BY <1>1, <2>1, <2>3, CountersUnchanged
<1>4. CASE Report(k)
  <2>1. /\ gpc[k] = "report" /\ gpc' = [gpc EXCEPT ![k] = "release"] /\ completed' = completed
        /\ IF outcome[k] = "ok"
           THEN overall' = overall + 1 /\ completedBytes' = completedBytes + 1
           ELSE UNCHANGED <<overall, completedBytes>>
    BY <1>4 DEF Report, Step, CompleteTransfer, FailTransfer
  <2>2. CASE outcome[k] = "ok"
    <3>1. k \in completed \ CompletedBefore
      BY <2>1, <2>2 DEF OutcomeInv, IInv, QueueInv, StartedDue, HandedOver, DueKeys
    <3>2. Reported' = Reported \cup {k} /\ k \notin Reported
      BY <1>1, <2>1, <3>1 DEF Reported
    <3> DEFINE R == Cardinality(Reported)
               C == Cardinality(CompletedBefore)
    <3>3. Cardinality(Reported') = R + 1 /\ R \in Nat /\ C \in Nat
      BY <3>2, ReportedType, FS_AddElement, SkippedIsBounded DEF OutcomeInv
    <3>4. overall \in Nat /\ completedBytes \in Nat /\ current \in Nat
      BY DEF IInv, TypeOK, BarsTypeOK, ListerTypeOK
    <3> HIDE DEF R, C
    <3>5. /\ R <= overall /\ overall <= R + C /\ completedBytes <= overall
          /\ overall <= R + completedBytes
          /\ lpc = "totals" => current <= completedBytes /\ overall <= R + current
      BY DEF CountersInv, OverallIsHonest, R, C
    <3>6. /\ R + 1 <= overall' /\ overall' <= R + 1 + C /\ completedBytes' <= overall'
          /\ overall' <= R + 1 + completedBytes'
          /\ lpc = "totals" => current <= completedBytes' /\ overall' <= R + 1 + current
      BY <2>1, <2>2, <3>3, <3>4, <3>5
    <3>7. QED
      BY <1>1, <3>3, <3>6 DEF CountersInv, OverallIsHonest, C
  <2>3. CASE outcome[k] # "ok"
    <3>1. k \notin completed \ CompletedBefore
      BY <2>1, <2>3 DEF OutcomeInv, Recorded
    <3>2. Reported' = Reported
      BY <1>1, <2>1, <3>1 DEF Reported
    <3>3. QED
      BY <1>1, <2>1, <2>3, <3>2, CountersUnchanged
  <2>4. QED
    BY <2>2, <2>3
<1>5. QED
  BY <1>2, <1>3, <1>4 DEF GoroutineStep, Goroutine

LEMMA CountersPreserved ==
    ASSUME IInv, OutcomeInv, TotalsInv, CountersInv, [Next]_vars
    PROVE  CountersInv'
<1>1. CASE RunStep
  <2>1. UNCHANGED <<completed, overall, completedBytes, lpc, current>>
    BY <1>1 DEF RunStep, Run, Receive, Acquire, WaitWorkers, RunReturn
  <2>2. gpc' = gpc \/ (rpc = "acquire" /\ gpc' = [gpc EXCEPT ![rjob] = "start"])
    BY <1>1 DEF RunStep, Run, Receive, Acquire, WaitWorkers, RunReturn
  <2>3. rpc = "acquire" => rjob \in Keys /\ gpc[rjob] = "none"
    BY DEF IInv, QueueInv, CurrentOnce, TypeOK, PoolTypeOK
  <2>4. \A k \in completed : gpc'[k] = "report" <=> gpc[k] = "report"
    BY <2>2, <2>3 DEF IInv, TypeOK, PoolTypeOK
  <2>5. QED
    BY <2>1, <2>4, ReportedUnchanged, CountersUnchanged
<1>2. CASE MainStep \/ Signal \/ ForceExit
  <2>1. UNCHANGED <<completed, gpc, overall, completedBytes, lpc, current>>
    BY <1>2 DEF MainStep, GroupWait, Sweep, AbortSlot, EndFailedBars, CompleteFailed,
                EndOverallBar, CompleteOverall, Return, Signal, ForceExit
  <2>2. QED
    BY <2>1, ReportedUnchanged, CountersUnchanged
<1>3. CASE UNCHANGED vars
  BY <1>3, ReportedUnchanged, CountersUnchanged DEF vars
<1>4. QED
  BY <1>1, <1>2, <1>3, CountersLister, CountersGoroutine DEF Next, Work, Terminated

-----------------------------------------------------------------------------
(* What becomes of every object.                                           *)
LEMMA ListerInvPreserved ==
    ASSUME IInv, ListerInv, [Next]_vars
    PROVE  ListerInv'
<1>1. CASE UNCHANGED <<listerVars, closed>> /\ (outerErr # "nil" => outerErr' # "nil")
  BY <1>1 DEF ListerInv
<1>2. CASE ListerStep
  <2>1. CASE NextPage(OuterDone) /\ UNCHANGED <<poolVars, barVars, mainVars>>
    BY <2>1 DEF NextPage, ListerReturns, ListerInv, NoManifest
  <2>2. CASE SendJob(OuterDone) /\ UNCHANGED <<poolVars, barVars, mainVars>>
    <3>1. /\ lpc = "send" /\ UNCHANGED <<page, total, manifest, closed, outerErr>>
          /\ \/ /\ UNCHANGED lerr
                /\ lpc' = IF pageJobs' = {} THEN "page" ELSE "send"
             \/ lpc' = "close" /\ lerr' = "ctx"
      BY <2>2 DEF SendJob, Send, ListerReturns
    <3>2. QED
      BY <3>1 DEF ListerInv
  <2>3. CASE UpdateTotals /\ UNCHANGED <<poolVars, mainVars>>
    BY <2>3 DEF UpdateTotals, ListerInv
  <2>4. CASE EndOfListing /\ UNCHANGED <<poolVars, barVars, mainVars>>
    BY <2>4 DEF EndOfListing, ListerReturns, ListerInv
  <2>5. CASE CloseJobs /\ UNCHANGED <<poolVars, barVars, mainVars>>
    BY <2>5 DEF CloseJobs, ListerInv
  <2>6. CASE ListerReturn
    BY <2>6 DEF ListerReturn, GroupGets, ListerInv
  <2>7. QED
    BY <1>2, <2>1, <2>2, <2>3, <2>4, <2>5, <2>6 DEF ListerStep
<1>3. CASE RunStep
  BY <1>1, <1>3 DEF RunStep, Run, Receive, Acquire, WaitWorkers, RunReturn, GroupGets
<1>4. ASSUME NEW k \in Keys, GoroutineStep(k) PROVE ListerInv'
  BY <1>1, <1>4 DEF GoroutineStep, Goroutine, Start, Transfer, Report, Release, Exit
<1>5. CASE MainStep \/ Signal \/ ForceExit
  BY <1>1, <1>5 DEF MainStep, GroupWait, Sweep, EndFailedBars, EndOverallBar, Return, Signal,
                    ForceExit
<1>6. CASE UNCHANGED vars
  BY <1>1, <1>6 DEF vars
<1>7. QED
  BY <1>2, <1>3, <1>4, <1>5, <1>6 DEF Next, Work, Terminated

LEMMA RunInvPreserved ==
    ASSUME IInv, ListerInv, RunInv, [Next]_vars
    PROVE  RunInv'
<1>1. CASE UNCHANGED <<poolVars, chanVars>> /\ (outerErr # "nil" => outerErr' # "nil")
  BY <1>1 DEF RunInv
<1>2. CASE ListerStep
  <2>1. CASE SendJob(OuterDone)
    <3>1. closed = FALSE /\ closed' = closed
      BY <2>1 DEF SendJob, ListerInv, IInv, TypeOK
    <3>2. UNCHANGED <<poolVars, outerErr>>
      BY <1>2, <2>1 DEF ListerStep, SendJob, UpdateTotals, ListerReturn
    <3>3. QED
      BY <3>1, <3>2 DEF RunInv
  <2>2. CASE CloseJobs
    BY <1>2, <2>2 DEF ListerStep, CloseJobs, UpdateTotals, ListerReturn, RunInv
  <2>3. CASE NextPage(OuterDone) \/ EndOfListing \/ UpdateTotals
    BY <1>1, <1>2, <2>3 DEF ListerStep, NextPage, EndOfListing, UpdateTotals, CloseJobs, SendJob,
                            ListerReturn
  <2>4. CASE ListerReturn
    BY <1>1, <2>4 DEF ListerReturn, GroupGets
  <2>5. QED
    BY <1>2, <2>1, <2>2, <2>3, <2>4 DEF ListerStep
<1>3. CASE RunStep
  <2>1. CASE Receive /\ UNCHANGED <<listerVars, mainVars>>
    BY <2>1 DEF Receive, RunInv
  <2>2. CASE Acquire /\ UNCHANGED <<listerVars, mainVars>>
    BY <2>2 DEF Acquire, RunInv
  <2>3. CASE WaitWorkers /\ UNCHANGED <<listerVars, mainVars>>
    <3>1. groupErr # "ctx"
      BY DEF IInv, TypeOK, PoolTypeOK
    <3>2. QED
      BY <2>3, <3>1 DEF WaitWorkers, RunInv
  <2>4. CASE RunReturn
    BY <2>4 DEF RunReturn, GroupGets, RunInv
  <2>5. QED
    BY <1>3, <2>1, <2>2, <2>3, <2>4 DEF RunStep, Run
<1>4. ASSUME NEW k \in Keys, GoroutineStep(k) PROVE RunInv'
  <2>1. /\ UNCHANGED <<rpc, rerr, jobs, closed, outerErr>>
        /\ gpc[k] \notin {"none", "gone"}
    BY <1>4 DEF GoroutineStep, Goroutine, Start, Transfer, Report, Release, Exit, Step
  <2>2. QED
    BY <2>1 DEF RunInv
<1>5. CASE MainStep \/ Signal \/ ForceExit
  BY <1>1, <1>5 DEF MainStep, GroupWait, Sweep, EndFailedBars, EndOverallBar, Return, Signal,
                    ForceExit
<1>6. CASE UNCHANGED vars
  BY <1>1, <1>6 DEF vars
<1>7. QED
  BY <1>2, <1>3, <1>4, <1>5, <1>6 DEF Next, Work, Terminated

(* What is handed over anew by a step is in the channel, or was completed  *)
(* before its page came in.                                                *)
LEMMA HandedAnew ==
    ASSUME IInv, ListerInv, [Next]_vars, NEW k \in HandedOver', k \notin HandedOver
    PROVE  \/ k \in completed /\ completed' = completed
           \/ \E i \in 1 .. Len(jobs') : jobs'[i] = k
<1>1. PICK p \in 1 .. page' : \E i \in 1 .. Len(Pages[p]) :
                 Pages[p][i] = k /\ ~(p = page' /\ i \in pageJobs')
  BY DEF HandedOver
<1>2. PICK i \in 1 .. Len(Pages[p]) : Pages[p][i] = k /\ ~(p = page' /\ i \in pageJobs')
  BY <1>1
<1>3. k \in DueKeys
  BY DEF HandedOver
<1>4. ListerStep
  <2>1. CASE UNCHANGED <<page, pageJobs>>
    BY <2>1 DEF HandedOver
  <2>2. QED
    BY <2>1 DEF Next, Work, RunStep, Run, RunReturn, GoroutineStep, MainStep, GroupWait, Sweep,
                EndFailedBars, EndOverallBar, Return, Signal, ForceExit, Terminated, vars
<1>5. CASE NextPage(OuterDone)
  <2>1. CASE UNCHANGED <<page, pageJobs>>
    BY <2>1 DEF HandedOver
  <2>2. CASE page < Len(Pages) /\ page' = page + 1 /\ pageJobs' = ToSend(page + 1)
    <3>1. page \in Nat
      BY LengthsAreNat DEF IInv, TypeOK, ListerTypeOK
    <3>2. p = page'
      <4>1. SUFFICES ASSUME p # page' PROVE FALSE
        OBVIOUS
      <4>2. p \in 1 .. page
        BY <1>1, <2>2, <3>1, <4>1
      <4>3. pageJobs = {}
        BY <1>5 DEF NextPage, ListerInv
      <4>4. QED
        BY <1>2, <1>3, <4>2, <4>3 DEF HandedOver
    <3>3. p \in 1 .. Len(Pages) /\ i \in DOMAIN Pages[p]
      BY <1>2, <2>2, <3>1, <3>2, LengthsAreNat
    <3>4. k \in completed
      BY <1>2, <1>3, <2>2, <3>2, <3>3 DEF ToSend, Objects, DueKeys
    <3>5. QED
      BY <1>5, <3>4 DEF NextPage
  <2>3. QED
    BY <1>5, <2>1, <2>2 DEF NextPage
<1>6. CASE SendJob(OuterDone)
  <2>1. CASE UNCHANGED <<page, pageJobs>>
    BY <2>1 DEF HandedOver
  <2>2. CASE Send /\ page' = page
    <3>1. PICK j \in pageJobs :
              jobs' = Append(jobs, Pages[page][j]) /\ pageJobs' = pageJobs \ {j}
      BY <2>2 DEF Send
    <3>2. p = page /\ i = j
      <4>1. SUFFICES ASSUME ~(p = page /\ i = j) PROVE FALSE
        OBVIOUS
      <4>2. ~(p = page /\ i \in pageJobs)
        BY <1>2, <2>2, <3>1, <4>1
      <4>3. QED
        BY <1>2, <1>3, <2>2, <4>2 DEF HandedOver
    <3>3. Len(jobs) + 1 \in 1 .. Len(jobs') /\ jobs'[Len(jobs) + 1] = k
      <4>1. Pages[page][j] \in Keys
        BY <3>1, SentKey DEF IInv, TypeOK
      <4>2. jobs \in Seq(Keys) /\ Pages[page][j] = k
        BY <1>2, <3>2 DEF IInv, TypeOK
      <4>3. QED
        BY <3>1, <4>1, <4>2
    <3>4. QED
      BY <3>3
  <2>3. QED
    BY <1>6, <2>1, <2>2 DEF SendJob
<1>7. CASE EndOfListing \/ CloseJobs \/ UpdateTotals \/ ListerReturn
  <2>1. UNCHANGED <<page, pageJobs>>
    BY <1>7 DEF EndOfListing, CloseJobs, UpdateTotals, ListerReturn
  <2>2. QED
    BY <2>1 DEF HandedOver
<1>8. QED
  BY <1>4, <1>5, <1>6, <1>7 DEF ListerStep

(* What is accounted for stays so.                                         *)
LEMMA AccountedStays ==
    ASSUME IInv, RunInv, [Next]_vars, NEW k \in Keys, Accounted(k)
    PROVE  Accounted(k)'
<1>1. CASE UNCHANGED <<poolVars, jobs>> /\ completed \subseteq completed'
  BY <1>1 DEF Accounted
<1>2. CASE ListerStep
  <2>1. CASE SendJob(OuterDone) /\ UNCHANGED <<poolVars, barVars, mainVars>>
    <3>1. CASE jobs' = jobs
      BY <1>1, <2>1, <3>1 DEF SendJob
    <3>2. CASE Send
      <4>1. PICK j \in pageJobs : jobs' = Append(jobs, Pages[page][j])
        BY <3>2 DEF Send
      <4>2. Pages[page][j] \in Keys /\ jobs \in Seq(Keys)
        BY <4>1, SentKey DEF IInv, TypeOK
      <4>3. \A i \in 1 .. Len(jobs) : i \in 1 .. Len(jobs') /\ jobs'[i] = jobs[i]
        BY <4>1, <4>2
      <4>4. QED
        BY <2>1, <4>3 DEF SendJob, Accounted
    <3>3. QED
      BY <2>1, <3>1, <3>2 DEF SendJob
  <2>2. CASE UNCHANGED <<poolVars, jobs, completed>>
    BY <1>1, <2>2
  <2>3. QED
    BY <1>2, <2>1, <2>2 DEF ListerStep, NextPage, EndOfListing, CloseJobs, UpdateTotals,
                            ListerReturn
<1>3. CASE RunStep
  <2>1. CASE Receive /\ UNCHANGED <<listerVars, mainVars>>
    <3>1. UNCHANGED <<gpc, rerr, completed>>
      BY <2>1 DEF Receive
    <3>2. rjob # k
      BY <2>1, NoKeyAssumption DEF Receive, IInv, QueueInv, CurrentOnce
    <3>3. CASE jobs # <<>> /\ rjob' = Head(jobs) /\ jobs' = Tail(jobs)
      <4>1. ASSUME NEW i \in 1 .. Len(jobs), jobs[i] = k
            PROVE  rjob' = k \/ \E j \in 1 .. Len(jobs') : jobs'[j] = k
        <5>1. CASE i = 1
          BY <3>3, <4>1, <5>1 DEF IInv, TypeOK
        <5>2. CASE i # 1
          <6>1. i - 1 \in 1 .. Len(jobs') /\ jobs'[i - 1] = jobs[i]
            BY <3>3, <4>1, <5>2 DEF IInv, TypeOK
          <6>2. QED
            BY <4>1, <6>1
        <5>3. QED
          BY <5>1, <5>2
      <4>2. QED
        BY <3>1, <3>2, <4>1 DEF Accounted
    <3>4. CASE UNCHANGED <<rjob, jobs>>
      BY <3>1, <3>4 DEF Accounted
    <3>5. QED
      BY <2>1, <3>3, <3>4 DEF Receive
  <2>2. CASE Acquire /\ UNCHANGED <<listerVars, mainVars>>
    <3>1. gpc \in [Keys -> GoroutinePCs]
      BY DEF IInv, TypeOK, PoolTypeOK
    <3>2. /\ UNCHANGED <<jobs, completed>>
          /\ \/ rerr' = "ctx"
             \/ gpc' = [gpc EXCEPT ![rjob] = "start"] /\ rerr' = rerr
      BY <2>2 DEF Acquire
    <3>3. QED
      BY <3>1, <3>2 DEF Accounted
  <2>3. CASE WaitWorkers /\ UNCHANGED <<listerVars, mainVars>>
    BY <2>3 DEF WaitWorkers, RunInv, Accounted
  <2>4. CASE RunReturn
    BY <2>4 DEF RunReturn, Accounted
  <2>5. QED
    BY <1>3, <2>1, <2>2, <2>3, <2>4 DEF RunStep, Run
<1>4. ASSUME NEW j \in Keys, GoroutineStep(j) PROVE Accounted(k)'
  <2>1. /\ UNCHANGED <<rerr, rjob, jobs>> /\ completed \subseteq completed'
        /\ \E to \in GoroutinePCs \ {"none"} : gpc' = [gpc EXCEPT ![j] = to]
    BY <1>4 DEF GoroutineStep, Goroutine, Start, Transfer, Report, Release, Exit, Step, GoroutinePCs
  <2>2. gpc \in [Keys -> GoroutinePCs]
    BY DEF IInv, TypeOK, PoolTypeOK
  <2>3. QED
    BY <2>1, <2>2 DEF Accounted
<1>5. CASE MainStep \/ Signal \/ ForceExit
  BY <1>1, <1>5 DEF MainStep, GroupWait, Sweep, EndFailedBars, EndOverallBar, Return, Signal,
                    ForceExit
<1>6. CASE UNCHANGED vars
  BY <1>1, <1>6 DEF vars
<1>7. QED
  BY <1>2, <1>3, <1>4, <1>5, <1>6 DEF Next, Work, Terminated

LEMMA ExitInvPreserved ==
    ASSUME ExitInv, [Next]_vars
    PROVE  ExitInv'
<1>1. CASE UNCHANGED mainVars /\ UNCHANGED <<lpc, rpc>>
  BY <1>1 DEF ExitInv
<1>2. CASE ListerStep
  <2>1. UNCHANGED <<mpc, exit, rpc>> /\ mpc # "exited" /\ lpc # "returned"
    BY <1>2 DEF ListerStep, NextPage, SendJob, EndOfListing, CloseJobs, UpdateTotals,
                ListerReturn, Running
  <2>2. QED
    BY <2>1 DEF ExitInv
<1>3. CASE RunStep
  <2>1. UNCHANGED <<mpc, exit, lpc>> /\ mpc # "exited" /\ rpc # "returned"
    BY <1>3 DEF RunStep, Run, Receive, Acquire, WaitWorkers, RunReturn, Running
  <2>2. QED
    BY <2>1 DEF ExitInv
<1>4. ASSUME NEW k \in Keys, GoroutineStep(k) PROVE ExitInv'
  BY <1>1, <1>4 DEF GoroutineStep, Goroutine, Start, Transfer, Report, Release, Exit
<1>5. CASE MainStep
  BY <1>5 DEF MainStep, GroupWait, Sweep, EndFailedBars, EndOverallBar, Return, MainGoto, ExitInv
<1>6. CASE Signal \/ ForceExit
  BY <1>6 DEF Signal, ForceExit, ExitInv
<1>7. CASE UNCHANGED vars
  BY <1>1, <1>7 DEF vars
<1>8. QED
  BY <1>2, <1>3, <1>4, <1>5, <1>6, <1>7 DEF Next, Work, Terminated

-----------------------------------------------------------------------------
(* The inductive invariant, relative to that of MigrationProofs.           *)
AInv == OutcomeInv /\ TotalsInv /\ CountersInv /\ AccountInv

LEMMA InitAInv == Init => AInv
<1> SUFFICES ASSUME Init PROVE AInv
  OBVIOUS
<1> USE DEF Init, ListerInit, PoolInit, BarsInit
<1>1. OutcomeInv
  BY CompletedBeforeAssumption DEF OutcomeInv
<1>2. Seen = {} /\ Reported = {} /\ HandedOver = {}
  <2>1. page = 0 /\ 1 .. 0 = {}
    OBVIOUS
  <2>2. Seen = {} /\ HandedOver = {}
    BY <2>1 DEF Seen, HandedOver
  <2>3. Reported = {}
    BY DEF Reported
  <2>4. QED
    BY <2>2, <2>3
<1>3. TotalsInv
  <2>1. Seen \cap CompletedBefore = {}
    BY <1>2
  <2>2. QED
    BY <1>2, <2>1, FS_EmptySet DEF TotalsInv
<1>4. CountersInv
  <2>1. Cardinality(CompletedBefore) \in Nat /\ Cardinality(Reported) = 0
    BY <1>2, CompletedBeforeAssumption, FS_CardinalityType, FS_EmptySet
  <2>2. overall \in {0, Cardinality(CompletedBefore)} /\ completedBytes = overall /\ lpc = "page"
    OBVIOUS
  <2>3. QED
    BY <2>1, <2>2 DEF CountersInv, OverallIsHonest
<1>5. AccountInv
  BY <1>2 DEF AccountInv, ListerInv, RunInv, ExitInv
<1>6. QED
  BY <1>1, <1>3, <1>4, <1>5 DEF AInv

LEMMA NextAInv == IInv /\ AInv /\ [Next]_vars => AInv'
<1> SUFFICES ASSUME IInv, AInv, [Next]_vars PROVE AInv'
  OBVIOUS
<1>1. OutcomeInv' /\ TotalsInv' /\ CountersInv'
  BY OutcomePreserved, TotalsPreserved, CountersPreserved DEF AInv
<1>2. ListerInv' /\ RunInv' /\ ExitInv'
  BY ListerInvPreserved, RunInvPreserved, ExitInvPreserved DEF AInv, AccountInv
<1>3. ASSUME NEW k \in HandedOver' PROVE Accounted(k)'
  <2>1. k \in Keys
    BY DEF HandedOver, DueKeys
  <2>2. CASE k \in HandedOver
    BY <2>1, <2>2, AccountedStays DEF AInv, AccountInv
  <2>3. CASE k \notin HandedOver
    BY <2>3, HandedAnew DEF Accounted, AInv, AccountInv
  <2>4. QED
    BY <2>2, <2>3
<1>4. QED
  BY <1>1, <1>2, <1>3 DEF AInv, AccountInv

LEMMA Accounting == Spec => [](IInv /\ AInv)
BY InitAInv, NextAInv, Invariance, PTL DEF Spec

-----------------------------------------------------------------------------
(* Exit code 0 means that every non-empty object of the listing was dealt  *)
(* with, and that no transfer met a fatal error: none is lost on its way   *)
(* from a page through the channel and the semaphore to its goroutine, and *)
(* a run that was cut short anywhere returns an error (main.go:551-584).   *)
THEOREM NothingIsLost == Spec => []SuccessAccountsForAll
<1>1. IInv /\ AInv => SuccessAccountsForAll
  <2> SUFFICES ASSUME IInv, AInv, exit = "ok"
               PROVE  /\ \A k \in Listed \ ZeroSize : k \in completed \/ gpc[k] = "gone"
                      /\ groupErr = "nil"
    BY DEF SuccessAccountsForAll
  <2>1. /\ lpc = "returned" /\ rpc = "returned" /\ outerErr = "nil"
        /\ lerr = "nil" /\ rerr = "nil"
    BY DEF AInv, AccountInv, ExitInv, ListerInv, RunInv
  <2>2. /\ groupErr = "nil" /\ jobs = <<>> /\ rjob = NoKey
        /\ \A k \in Keys : gpc[k] \in {"none", "gone"}
        /\ page = Len(Pages) /\ pageJobs = {}
    BY <2>1 DEF AInv, AccountInv, RunInv, ListerInv, IInv, QueueInv, CurrentOnce
  <2>3. ASSUME NEW k \in Listed \ ZeroSize, k \notin completed PROVE gpc[k] = "gone"
    <3>1. PICK p \in 1 .. Len(Pages) : \E i \in 1 .. Len(Pages[p]) : Pages[p][i] = k
      BY DEF Listed
    <3>2. k \in Keys
      BY <3>1, LengthsAreNat
    <3>3. k \in HandedOver
      BY <2>2, <2>3, <3>1, <3>2 DEF HandedOver, DueKeys, IInv, QueueInv
    <3>4. Accounted(k)
      BY <3>3 DEF AInv, AccountInv
    <3>5. k # rjob /\ 1 .. Len(jobs) = {}
      BY <2>2, <3>2, NoKeyAssumption
    <3>6. QED
      BY <2>1, <2>2, <2>3, <3>2, <3>4, <3>5 DEF Accounted
  <2>4. QED
    BY <2>2, <2>3
<1>2. QED
  BY <1>1, Accounting, PTL

(* A manifest is saved only for a listing read to its end, and its total   *)
(* is the number of all its non-empty objects (lister.go:102-113).         *)
THEOREM ManifestsAreWhole == Spec => []ManifestIsWholeListing
<1>1. IInv /\ AInv => ManifestIsWholeListing
  <2> SUFFICES ASSUME IInv, AInv, manifest # NoManifest
               PROVE  manifest = Cardinality(Listed \ ZeroSize) /\ pageJobs = {}
    BY DEF ManifestIsWholeListing
  <2>1. page = Len(Pages) /\ pageJobs = {} /\ manifest = total
    BY DEF AInv, AccountInv, ListerInv, IInv, TypeOK, ListerTypeOK
  <2>2. Seen = Listed \ ZeroSize
    <3>1. \A p \in 1 .. Len(Pages) : DOMAIN Pages[p] = 1 .. Len(Pages[p])
      BY LengthsAreNat
    <3>2. Seen \subseteq Listed \ ZeroSize
      BY <2>1, <3>1 DEF Seen, KeysOn, Listed, Objects
    <3>3. Listed \ ZeroSize \subseteq Seen
      BY <2>1, <3>1 DEF Seen, KeysOn, Listed, Objects
    <3>4. QED
      BY <3>2, <3>3
  <2>3. QED
    BY <2>1, <2>2 DEF AInv, TotalsInv
<1>2. QED
  BY <1>1, Accounting, PTL

(* The overall bar counts every transfer that was reported once, and no    *)
(* byte of an earlier run twice, however the lister's read and store of    *)
(* completedBytes interleave with the additions of the workers             *)
(* (progress.go:168-177, 328-329).                                         *)
THEOREM OverallBarIsHonest == Spec => []OverallIsHonest
<1>1. AInv => OverallIsHonest
  BY DEF AInv, CountersInv
<1>2. QED
  BY <1>1, Accounting, PTL
=============================================================================
