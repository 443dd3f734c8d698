----------------------------- MODULE Speedtest ------------------------------
(***************************************************************************)
(* The scaling sweep of --speedtest and the number of workers it           *)
(* recommends (speedtest.go).  A throughput is a natural number, zero when *)
(* nothing was measured; the two thresholds are compared exactly, where    *)
(* the code divides floats.  The warm-up, the baseline and the report are  *)
(* left out; the deadline of ten minutes is one of the errors of a trial.  *)
(***************************************************************************)
EXTENDS Integers, Sequences

CONSTANTS
    Speeds,        \* what a trial may measure
    scalingLevels  \* the numbers of workers, <<1, 2, 4, ..., 128>> in the code

(* A test object and a test upload are never empty.                        *)
SpeedsArePositive == Speeds \subseteq Nat \ {0}

speedtestTrialsPerLevel == 2
stallCountForStop == 2

VARIABLES
    hasWasabi, hasGCS,   \* the legs that have not failed
    trial,               \* trials made at the current level
    wasabiBPS, gcsBPS,   \* the best of them
    WasabiScaling, GCSScaling,  \* the results of the levels done
    stallCount,
    stopped              \* the sweep has ended

vars == <<hasWasabi, hasGCS, trial, wasabiBPS, gcsBPS, WasabiScaling,
          GCSScaling, stallCount, stopped>>

(* runSpeedtest: without a test object there is no download leg.           *)
Init ==
    /\ hasWasabi \in BOOLEAN /\ hasGCS = TRUE
    /\ trial = 0 /\ wasabiBPS = 0 /\ gcsBPS = 0
    /\ WasabiScaling = <<>> /\ GCSScaling = <<>>
    /\ stallCount = 0
    /\ stopped = FALSE

(* The better of two results.                                              *)
Better(a, b) == IF a < b THEN b ELSE a

(* One trial of each leg that is left; an error, written zero, ends a leg  *)
(* for the rest of the sweep.                                              *)
Trial ==
    /\ ~stopped /\ trial < speedtestTrialsPerLevel
    /\ trial' = trial + 1
    /\ \E bps \in Speeds \cup {0} :
          /\ wasabiBPS' = IF hasWasabi THEN Better(wasabiBPS, bps) ELSE wasabiBPS
          /\ hasWasabi' = (hasWasabi /\ bps # 0)
    /\ \E bps \in Speeds \cup {0} :
          /\ gcsBPS' = IF hasGCS THEN Better(gcsBPS, bps) ELSE gcsBPS
          /\ hasGCS' = (hasGCS /\ bps # 0)
    /\ UNCHANGED <<WasabiScaling, GCSScaling, stallCount, stopped>>

minPositive(a, b) ==
    IF a > 0 /\ b > 0 THEN (IF a < b THEN a ELSE b)
    ELSE IF a > 0 THEN a ELSE b

(* What both legs together reach at the i-th level.                        *)
Effective(i) == minPositive(WasabiScaling[i], GCSScaling[i])

(* Less than 5 % more than before.                                         *)
Stalls(curr, prev) == 20 * (curr - prev) < prev

(* Mutant: a level that gains does not reset the count.                    *)
StallsAfterKept(n, curr) ==
    IF n = 0 \/ Effective(n) = 0 THEN stallCount
    ELSE IF Stalls(curr, Effective(n)) THEN stallCount + 1 ELSE stallCount

(* The count of stalled levels after a level that reaches curr, the one    *)
(* after the n-th.                                                         *)
StallsAfter(n, curr) ==
    IF n = 0 \/ Effective(n) = 0 THEN stallCount
    ELSE IF Stalls(curr, Effective(n)) THEN stallCount + 1 ELSE 0

(* Mutant: the sweep goes on without a leg.                                *)
SweepEndsLate(n, stalls) ==
    stalls >= stallCountForStop \/ n = Len(scalingLevels)

(* The sweep ends after two stalls, when both legs have failed, or with    *)
(* the last level.                                                         *)
SweepEnds(n, stalls) ==
    stalls >= stallCountForStop \/ (~hasWasabi /\ ~hasGCS)
    \/ n = Len(scalingLevels)

EndLevel ==
    LET n == Len(WasabiScaling)
    IN  /\ ~stopped /\ trial = speedtestTrialsPerLevel
        /\ WasabiScaling' = Append(WasabiScaling, wasabiBPS)
        /\ GCSScaling' = Append(GCSScaling, gcsBPS)
        /\ stallCount' = StallsAfter(n, minPositive(wasabiBPS, gcsBPS))
        /\ stopped' = SweepEnds(n + 1, stallCount')
        /\ trial' = 0 /\ wasabiBPS' = 0 /\ gcsBPS' = 0
        /\ UNCHANGED <<hasWasabi, hasGCS>>

Next == Trial \/ EndLevel

Spec == Init /\ [][Next]_vars

-----------------------------------------------------------------------------
(* Mutant: any gain counts.                                                *)
GainsAtAll(curr, prev) == prev > 0 /\ curr > prev

(* At least 10 % more than before.                                         *)
Gains(curr, prev) == prev > 0 /\ 10 * (curr - prev) >= prev

(* findOptimalWorkers: the last level that gains over the one before it,   *)
(* or the first level.  effective gives the throughput of levels 1 .. n.   *)
Candidates(effective, n) ==
    {1} \cup {i \in 2 .. n : Gains(effective[i], effective[i - 1])}

Knee(effective, n) ==
    CHOOSE i \in Candidates(effective, n) :
        \A j \in Candidates(effective, n) : j <= i

RecommendedLevel ==
    Knee([i \in 1 .. Len(WasabiScaling) |-> Effective(i)], Len(WasabiScaling))

findOptimalWorkers ==
    IF Len(WasabiScaling) = 0 THEN 10 ELSE scalingLevels[RecommendedLevel]

(* scaledPerWorker: the bytes that each worker moves at a level.           *)
scaledPerWorker(base, minTotal, maxPerWorker, workers) ==
    LET floor  == minTotal \div workers
        wanted == IF floor > base THEN floor ELSE base
    IN  IF maxPerWorker > 0 /\ wanted > maxPerWorker
        THEN maxPerWorker ELSE wanted

-----------------------------------------------------------------------------
TypeOK ==
    /\ hasWasabi \in BOOLEAN /\ hasGCS \in BOOLEAN
    /\ trial \in 0 .. speedtestTrialsPerLevel
    /\ wasabiBPS \in Nat /\ gcsBPS \in Nat
    /\ WasabiScaling \in Seq(Nat) /\ GCSScaling \in Seq(Nat)
    /\ stallCount \in 0 .. stallCountForStop
    /\ stopped \in BOOLEAN

(* Both lists have one entry for each level done, so that neither the rows *)
(* of the table nor findOptimalWorkers pair results of two levels          *)
(* (speedtest.go:255-256, 490-493), and the table never runs out of        *)
(* levels.                                                                 *)
ListsPaired ==
    /\ Len(GCSScaling) = Len(WasabiScaling)
    /\ Len(WasabiScaling) <= Len(scalingLevels)
    /\ ~stopped => Len(WasabiScaling) < Len(scalingLevels)

(* The sweep goes on only from a level with a result: the tests of         *)
(* prevEffective (speedtest.go:267, 297) never hide a level from the count *)
(* of stalls.                                                              *)
LevelsMeasured ==
    \A i \in 1 .. Len(WasabiScaling) :
        i < Len(WasabiScaling) \/ ~stopped => Effective(i) > 0

(* "Early stop: 2 consecutive levels with < 5% improvement"                *)
(* (speedtest.go:292): stallCount counts the last levels in a row that     *)
(* stalled.                                                                *)
StallsAreConsecutive ==
    \A i \in 1 .. Len(WasabiScaling) :
        i > Len(WasabiScaling) - stallCount =>
            i > 1 /\ Stalls(Effective(i), Effective(i - 1))

(* A sweep that ends has a result at its first level, and ends at the last *)
(* level, after two stalls, or without a leg.                              *)
StopHasCause ==
    stopped => /\ Len(WasabiScaling) >= 1
               /\ \/ Len(WasabiScaling) = Len(scalingLevels)
                  \/ stallCount = stallCountForStop
                  \/ ~hasWasabi /\ ~hasGCS

(* The recommendation is a level that was run; the default of ten for a    *)
(* sweep without data (speedtest.go:494-496) is never used.                *)
RecommendationTested ==
    stopped => /\ RecommendedLevel \in 1 .. Len(WasabiScaling)
               /\ findOptimalWorkers = scalingLevels[RecommendedLevel]

(* The two levels on account of which a sweep stopped early are never      *)
(* recommended (speedtest.go:307, 517-525).                                *)
PlateauNotRecommended ==
    stopped /\ stallCount = stallCountForStop =>
        RecommendedLevel <= Len(WasabiScaling) - stallCountForStop
=============================================================================
