-------------------------- MODULE SpeedtestProofs ---------------------------
(***************************************************************************)
(* The invariants of the scaling sweep and what they say of its            *)
(* recommendation, for every set of positive speeds and every table of up  *)
(* to eight levels.                                                        *)
(***************************************************************************)
EXTENDS Speedtest, SequenceTheorems, TLAPS

LevelsGiven == scalingLevels \in Seq(Nat) /\ Len(scalingLevels) \in 1 .. 8

(* A leg that has not failed has a result from the first trial of a level  *)
(* on, and the sweep goes on only with a leg and fewer than two stalls.    *)
LegsMeasure ==
    /\ trial > 0 /\ hasWasabi => wasabiBPS > 0
    /\ trial > 0 /\ hasGCS => gcsBPS > 0
    /\ ~stopped /\ trial = 0 => hasWasabi \/ hasGCS
    /\ ~stopped => stallCount < stallCountForStop
    /\ Len(WasabiScaling) = 0 => stallCount = 0

IInv == /\ TypeOK /\ ListsPaired /\ LevelsMeasured /\ StallsAreConsecutive
        /\ StopHasCause /\ LegsMeasure

-----------------------------------------------------------------------------
LEMMA EffectiveIsNat ==
    ASSUME TypeOK, ListsPaired, NEW i \in 1 .. Len(WasabiScaling)
    PROVE  WasabiScaling[i] \in Nat /\ GCSScaling[i] \in Nat /\ Effective(i) \in Nat
BY DEF TypeOK, ListsPaired, Effective, minPositive

(* A sweep that has ended did between one and eight levels.                *)
LEMMA LevelsDone ==
    ASSUME LevelsGiven, IInv, stopped PROVE Len(WasabiScaling) \in 1 .. 8
<1>1. PICK n \in Nat : n = Len(WasabiScaling)
  BY LenProperties DEF IInv, TypeOK
<1>2. PICK l \in 1 .. 8 : l = Len(scalingLevels)
  BY DEF LevelsGiven
<1>3. n >= 1 /\ n <= l
  BY <1>1, <1>2 DEF IInv, ListsPaired, StopHasCause
<1>4. n \in 1 .. 8
  BY <1>2, <1>3
<1> QED BY <1>1, <1>4

LEMMA InitEstablishes == LevelsGiven /\ Init => IInv
<1> SUFFICES ASSUME LevelsGiven, Init PROVE IInv
  OBVIOUS
<1>1. Len(WasabiScaling) = 0 /\ Len(GCSScaling) = 0
  BY EmptySeq DEF Init
<1>2. TypeOK
  <2>1. WasabiScaling \in Seq(Nat) /\ GCSScaling \in Seq(Nat)
    BY EmptySeq DEF Init
  <2>2. hasWasabi \in BOOLEAN /\ hasGCS \in BOOLEAN /\ stopped \in BOOLEAN
    BY DEF Init
  <2>3. /\ trial \in 0 .. speedtestTrialsPerLevel /\ wasabiBPS \in Nat
        /\ gcsBPS \in Nat /\ stallCount \in 0 .. stallCountForStop
    BY DEF Init, stallCountForStop, speedtestTrialsPerLevel
  <2> QED BY <2>1, <2>2, <2>3 DEF TypeOK
<1>3. /\ trial = 0 /\ stallCount = 0 /\ ~stopped /\ hasGCS
      /\ Len(scalingLevels) \in 1 .. 8
  BY DEF Init, LevelsGiven
<1>4. ListsPaired
  <2>1. \A l \in 1 .. 8 : 0 <= l /\ 0 < l
    OBVIOUS
  <2> QED BY <1>1, <1>3, <2>1 DEF ListsPaired
<1>5. LevelsMeasured /\ StallsAreConsecutive
  BY <1>1 DEF LevelsMeasured, StallsAreConsecutive
<1>6. StopHasCause /\ LegsMeasure
  BY <1>3 DEF StopHasCause, LegsMeasure, stallCountForStop
<1> QED
  BY <1>2, <1>4, <1>5, <1>6 DEF IInv

(* A trial changes no list.                                                *)
LEMMA TrialPreserves == SpeedsArePositive /\ IInv /\ Trial => IInv'
<1> SUFFICES ASSUME SpeedsArePositive, IInv, Trial PROVE IInv'
  OBVIOUS
<1>1. PICK w \in Speeds \cup {0} :
         /\ wasabiBPS' = IF hasWasabi THEN Better(wasabiBPS, w) ELSE wasabiBPS
         /\ hasWasabi' = (hasWasabi /\ w # 0)
  BY DEF Trial
<1>2. PICK g \in Speeds \cup {0} :
         /\ gcsBPS' = IF hasGCS THEN Better(gcsBPS, g) ELSE gcsBPS
         /\ hasGCS' = (hasGCS /\ g # 0)
  BY DEF Trial
<1>3. w \in Nat /\ g \in Nat
  BY DEF SpeedsArePositive
<1>4. /\ trial \in 0 .. 1 /\ trial' = trial + 1 /\ ~stopped
      /\ UNCHANGED <<WasabiScaling, GCSScaling, stallCount, stopped>>
  BY DEF Trial, IInv, TypeOK, speedtestTrialsPerLevel
<1>5. TypeOK'
  BY <1>1, <1>2, <1>3, <1>4
     DEF IInv, TypeOK, Better, speedtestTrialsPerLevel
<1>6. ListsPaired' /\ LevelsMeasured' /\ StallsAreConsecutive' /\ StopHasCause'
  BY <1>4 DEF IInv, ListsPaired, LevelsMeasured, StallsAreConsecutive,
     StopHasCause, Effective
<1>7. LegsMeasure'
  <2>0. wasabiBPS \in Nat /\ gcsBPS \in Nat
    BY DEF IInv, TypeOK
  <2>1. ASSUME hasWasabi' PROVE wasabiBPS' > 0
    <3>1. hasWasabi /\ w # 0
      BY <1>1, <2>1
    <3>2. wasabiBPS' = Better(wasabiBPS, w)
      BY <1>1, <3>1
    <3> QED BY <1>3, <2>0, <3>1, <3>2 DEF Better
  <2>2. ASSUME hasGCS' PROVE gcsBPS' > 0
    <3>1. hasGCS /\ g # 0
      BY <1>2, <2>2
    <3>2. gcsBPS' = Better(gcsBPS, g)
      BY <1>2, <3>1
    <3> QED BY <1>3, <2>0, <3>1, <3>2 DEF Better
  <2> QED BY <1>4, <2>1, <2>2 DEF IInv, LegsMeasure
<1> QED BY <1>5, <1>6, <1>7 DEF IInv

(* The results of a level are appended; those of earlier ones stay.        *)
LEMMA EndLevelPreserves == LevelsGiven /\ IInv /\ EndLevel => IInv'
<1> SUFFICES ASSUME LevelsGiven, IInv, EndLevel PROVE IInv'
  OBVIOUS
<1> DEFINE curr == minPositive(wasabiBPS, gcsBPS)
<1>0. PICK n \in Nat : n = Len(WasabiScaling)
  BY LenProperties DEF IInv, TypeOK
<1>1. /\ ~stopped /\ trial = 2 /\ trial' = 0
      /\ WasabiScaling' = Append(WasabiScaling, wasabiBPS)
      /\ GCSScaling' = Append(GCSScaling, gcsBPS)
      /\ stallCount' = StallsAfter(n, curr)
      /\ stopped' = SweepEnds(n + 1, stallCount')
      /\ wasabiBPS' = 0 /\ gcsBPS' = 0
      /\ UNCHANGED <<hasWasabi, hasGCS>>
  BY <1>0 DEF EndLevel, speedtestTrialsPerLevel
<1>2. /\ WasabiScaling \in Seq(Nat) /\ GCSScaling \in Seq(Nat)
      /\ wasabiBPS \in Nat /\ gcsBPS \in Nat /\ stallCount \in 0 .. 2
      /\ Len(GCSScaling) = n /\ n < Len(scalingLevels)
      /\ stallCount < 2
  BY <1>0, <1>1
     DEF IInv, TypeOK, ListsPaired, LegsMeasure, stallCountForStop
<1>3. /\ WasabiScaling' \in Seq(Nat) /\ GCSScaling' \in Seq(Nat)
      /\ Len(WasabiScaling') = n + 1 /\ Len(GCSScaling') = n + 1
      /\ \A i \in 1 .. n : /\ WasabiScaling'[i] = WasabiScaling[i]
                           /\ GCSScaling'[i] = GCSScaling[i]
      /\ WasabiScaling'[n + 1] = wasabiBPS /\ GCSScaling'[n + 1] = gcsBPS
  BY <1>0, <1>1, <1>2, AppendProperties
<1> HIDE DEF curr
<1>4. /\ \A i \in 1 .. n : Effective(i)' = Effective(i) /\ Effective(i) \in Nat
      /\ Effective(n + 1)' = curr
  <2>1. \A i \in 1 .. n : Effective(i) \in Nat
    BY <1>0, EffectiveIsNat DEF IInv
  <2>2. \A i \in 1 .. n : Effective(i)' = Effective(i)
    BY <1>3 DEF Effective
  <2>3. Effective(n + 1)' = minPositive(wasabiBPS, gcsBPS)
    BY <1>3 DEF Effective
  <2> QED BY <2>1, <2>2, <2>3 DEF curr
<1>5. curr \in Nat /\ (hasWasabi \/ hasGCS => curr > 0)
  BY <1>1, <1>2 DEF IInv, LegsMeasure, minPositive, curr
<1>6. \A i \in 1 .. n : Effective(i) > 0
  BY <1>0, <1>1 DEF IInv, LevelsMeasured
<1>7. /\ n = 0 => stallCount' = 0
      /\ n > 0 /\ Stalls(curr, Effective(n)) => stallCount' = stallCount + 1
      /\ n > 0 /\ ~Stalls(curr, Effective(n)) => stallCount' = 0
  <2>1. n > 0 => Effective(n) > 0 /\ Effective(n) \in Nat
    BY <1>2, <1>4, <1>6
  <2>2. n = 0 => stallCount = 0
    BY <1>0 DEF IInv, LegsMeasure
  <2> QED BY <1>1, <1>2, <2>1, <2>2 DEF StallsAfter
<1>8. stallCount' \in 0 .. 2
  BY <1>2, <1>7
<1>9. stopped' <=> \/ stallCount' >= 2
                   \/ ~hasWasabi /\ ~hasGCS
                   \/ n + 1 = Len(scalingLevels)
  <2>1. stopped' <=> SweepEnds(n + 1, stallCount')
    BY <1>1
  <2> QED BY <2>1 DEF SweepEnds, stallCountForStop
<1>10. TypeOK'
  <2>1. hasWasabi' \in BOOLEAN /\ hasGCS' \in BOOLEAN
    BY <1>1 DEF IInv, TypeOK
  <2>2. stopped' \in BOOLEAN
    BY <1>1 DEF SweepEnds
  <2>3. /\ trial' \in 0 .. speedtestTrialsPerLevel
        /\ wasabiBPS' \in Nat /\ gcsBPS' \in Nat
    BY <1>1 DEF speedtestTrialsPerLevel
  <2> QED BY <1>3, <1>8, <2>1, <2>2, <2>3 DEF TypeOK, stallCountForStop
<1>11. ListsPaired'
  BY <1>2, <1>3, <1>9 DEF ListsPaired, LevelsGiven
<1>12. LevelsMeasured'
  <2> SUFFICES ASSUME NEW i \in 1 .. n + 1, i < n + 1 \/ ~stopped'
               PROVE  Effective(i)' > 0
    BY <1>3 DEF LevelsMeasured
  <2>1. CASE i \in 1 .. n
    BY <2>1, <1>4, <1>6
  <2>2. CASE i = n + 1
    BY <2>2, <1>2, <1>4, <1>5, <1>9
  <2> QED BY <2>1, <2>2, <1>2
<1>13. StallsAreConsecutive'
  <2> SUFFICES ASSUME NEW i, i \in 1 .. Len(WasabiScaling'),
                      i > Len(WasabiScaling') - stallCount'
               PROVE  i > 1 /\ Stalls(Effective(i)', Effective(i - 1)')
    BY DEF StallsAreConsecutive
  <2>0. i \in 1 .. n + 1 /\ i > (n + 1) - stallCount'
    <3>1. Len(WasabiScaling') = n + 1
      BY <1>3
    <3>2. i \in 1 .. n + 1
      BY <3>1
    <3>3. i > (n + 1) - stallCount'
      <4>1. PICK s \in Int : s = stallCount'
        BY <1>8
      <4>2. PICK l \in Int : l = Len(WasabiScaling')
        BY <3>1
      <4>3. i > l - s
        BY <4>1, <4>2
      <4>4. i > (n + 1) - s
        BY <3>1, <4>2, <4>3
      <4> QED BY <4>1, <4>4
    <3> QED BY <3>2, <3>3
  <2>1. n > 0 /\ Stalls(curr, Effective(n)) /\ stallCount' = stallCount + 1
    BY <2>0, <1>2, <1>7
  <2>2. CASE i = n + 1
    <3>1. Effective(i)' = curr /\ Effective(i - 1)' = Effective(n)
      BY <2>1, <2>2, <1>2, <1>4
    <3> QED BY <2>1, <2>2, <3>1 DEF Stalls
  <2>3. CASE i \in 1 .. n
    <3>1. i > n - stallCount
      BY <2>0, <2>1, <2>3, <1>2
    <3>2. i > 1 /\ Stalls(Effective(i), Effective(i - 1))
      BY <1>0, <2>3, <3>1 DEF IInv, StallsAreConsecutive
    <3>3. Effective(i)' = Effective(i) /\ Effective(i - 1)' = Effective(i - 1)
      BY <2>3, <3>2, <1>2, <1>4
    <3> QED BY <3>2, <3>3 DEF Stalls
  <2> QED BY <2>0, <2>2, <2>3, <1>2
<1>14. StopHasCause'
  BY <1>1, <1>2, <1>3, <1>8, <1>9 DEF StopHasCause, stallCountForStop
<1>15. LegsMeasure'
  BY <1>1, <1>2, <1>3, <1>8, <1>9 DEF LegsMeasure, stallCountForStop
<1> QED BY <1>10, <1>11, <1>12, <1>13, <1>14, <1>15 DEF IInv

LEMMA StepPreserves ==
    SpeedsArePositive /\ LevelsGiven /\ IInv /\ [Next]_vars => IInv'
<1> SUFFICES ASSUME SpeedsArePositive, LevelsGiven, IInv, [Next]_vars
             PROVE  IInv'
  OBVIOUS
<1>1. CASE Trial
  BY <1>1, TrialPreserves
<1>2. CASE EndLevel
  BY <1>2, EndLevelPreserves
<1>3. CASE UNCHANGED vars
  BY <1>3 DEF vars, IInv, TypeOK, ListsPaired, LevelsMeasured, StopHasCause,
     StallsAreConsecutive, LegsMeasure, Effective
<1> QED BY <1>1, <1>2, <1>3 DEF Next

LEMMA Inductive ==
    ASSUME SpeedsArePositive, LevelsGiven PROVE Spec => []IInv
<1>1. Init => IInv
  BY InitEstablishes
<1>2. IInv /\ [Next]_vars => IInv'
  BY StepPreserves
<1> QED BY <1>1, <1>2, PTL DEF Spec

-----------------------------------------------------------------------------
(* findOptimalWorkers.                                                     *)
LEMMA LargestExists ==
    ASSUME NEW S, S \subseteq 1 .. 8, S # {}
    PROVE  \E i \in S : \A j \in S : j <= i
<1>1. CASE 8 \in S BY <1>1
<1>2. CASE 8 \notin S /\ 7 \in S BY <1>2
<1>3. CASE 8 \notin S /\ 7 \notin S /\ 6 \in S BY <1>3
<1>4. CASE 8 \notin S /\ 7 \notin S /\ 6 \notin S /\ 5 \in S BY <1>4
<1>5. CASE {5, 6, 7, 8} \cap S = {} /\ 4 \in S BY <1>5
<1>6. CASE {4, 5, 6, 7, 8} \cap S = {} /\ 3 \in S BY <1>6
<1>7. CASE {3, 4, 5, 6, 7, 8} \cap S = {} /\ 2 \in S BY <1>7
<1>8. CASE {2, 3, 4, 5, 6, 7, 8} \cap S = {}
  <2>1. \A j \in 2 .. 8 : j \notin S
    BY <1>8
  <2>2. \A j \in 1 .. 8 : j = 1 \/ j \in 2 .. 8
    OBVIOUS
  <2>3. \A j \in S : j = 1
    BY <2>1, <2>2
  <2>4. 1 \in S
    BY <2>3
  <2> QED BY <2>3, <2>4
<1>9. \A j \in 1 .. 8 : j \in {1, 2, 3, 4, 5, 6, 7, 8}
  OBVIOUS
<1> QED BY <1>1, <1>2, <1>3, <1>4, <1>5, <1>6, <1>7, <1>8, <1>9

(* The knee is one of the levels, the last that gains.                     *)
LEMMA KneeIsLastGain ==
    ASSUME NEW n \in 1 .. 8, NEW effective
    PROVE  /\ Knee(effective, n) \in Candidates(effective, n)
           /\ Knee(effective, n) \in 1 .. n
           /\ \A i \in Candidates(effective, n) : i <= Knee(effective, n)
<1> DEFINE S == Candidates(effective, n)
<1>1. S \subseteq 1 .. n /\ 1 \in S
  BY DEF Candidates
<1>2. \E i \in S : \A j \in S : j <= i
  <2>1. S \subseteq 1 .. 8 /\ S # {}
    BY <1>1
  <2> QED BY <2>1, LargestExists
<1> HIDE DEF S
<1>3. /\ Knee(effective, n) \in S
      /\ \A j \in S : j <= Knee(effective, n)
  BY <1>2 DEF Knee, S
<1> QED BY <1>1, <1>3 DEF S

(* The recommendation is a level that was run; the default of ten for a    *)
(* sweep without data (speedtest.go:494-496) is never used.                *)
THEOREM RecommendsTestedLevel ==
    ASSUME SpeedsArePositive, LevelsGiven PROVE Spec => []RecommendationTested
<1>1. IInv => RecommendationTested
  <2> SUFFICES ASSUME IInv, stopped
               PROVE  /\ RecommendedLevel \in 1 .. Len(WasabiScaling)
                      /\ Len(WasabiScaling) # 0
    BY DEF RecommendationTested, findOptimalWorkers
  <2>1. PICK n \in 1 .. 8 : n = Len(WasabiScaling)
    BY LevelsDone
  <2>2. Knee([i \in 1 .. n |-> Effective(i)], n) \in 1 .. n
    BY KneeIsLastGain
  <2> QED BY <2>1, <2>2 DEF RecommendedLevel
<1> QED BY <1>1, Inductive, PTL

(* The sweep goes on only from a level with a result, and stops early      *)
(* after two stalled levels in a row and no others (speedtest.go:292-316). *)
THEOREM SweepStopsSoundly ==
    ASSUME SpeedsArePositive, LevelsGiven
    PROVE  Spec => [](LevelsMeasured /\ StallsAreConsecutive /\ StopHasCause)
<1>1. IInv => LevelsMeasured /\ StallsAreConsecutive /\ StopHasCause
  BY DEF IInv
<1> QED BY <1>1, Inductive, PTL

(* The two levels on account of which a sweep stopped are never            *)
(* recommended: a level that stalls gains less than 5 %, one that is       *)
(* recommended at least 10 % (speedtest.go:31-33, 307, 517-525).           *)
THEOREM PlateauIsNotRecommended ==
    ASSUME SpeedsArePositive, LevelsGiven PROVE Spec => []PlateauNotRecommended
<1>1. IInv => PlateauNotRecommended
  <2> DEFINE n == Len(WasabiScaling)
             e == [i \in 1 .. n |-> Effective(i)]
             r == RecommendedLevel
  <2> SUFFICES ASSUME IInv, stopped, stallCount = 2 PROVE r <= n - 2
    BY DEF PlateauNotRecommended, stallCountForStop
  <2>1. n \in 1 .. 8
    BY LevelsDone
  <2>2. \A i \in 1 .. n : e[i] = Effective(i) /\ Effective(i) \in Nat
    BY EffectiveIsNat DEF IInv
  <2>3. r \in Candidates(e, n) /\ r \in 1 .. n
    BY <2>1, KneeIsLastGain DEF RecommendedLevel
  <2>4. SUFFICES ASSUME r > n - 2 PROVE FALSE
    BY <2>1, <2>3
  <2>5. r > 1 /\ Stalls(Effective(r), Effective(r - 1))
    BY <2>1, <2>3, <2>4 DEF IInv, StallsAreConsecutive
  <2> HIDE DEF n, e, r
  <2>6. Gains(e[r], e[r - 1])
    BY <2>3, <2>5 DEF Candidates
  <2>7. /\ e[r] = Effective(r) /\ e[r - 1] = Effective(r - 1)
        /\ Effective(r) \in Nat /\ Effective(r - 1) \in Nat
    BY <2>1, <2>2, <2>3, <2>5
  <2> QED BY <2>5, <2>6, <2>7 DEF Gains, Stalls
<1> QED BY <1>1, Inductive, PTL

(* The recommendation need not be the best level that was run: it is the   *)
(* last level that gains over the one before it, also when that one had    *)
(* fallen back (speedtest.go:517-525; main.go:251 calls it "optimal").     *)
THEOREM MayRecommendSlowerLevel ==
    Knee(<<100, 50, 60>>, 3) = 3
<1> DEFINE e == <<100, 50, 60>>
<1>1. 3 \in Candidates(e, 3)
  BY DEF Candidates, Gains
<1>2. Knee(e, 3) \in 1 .. 3 /\ \A i \in Candidates(e, 3) : i <= Knee(e, 3)
  BY KneeIsLastGain
<1> QED BY <1>1, <1>2

-----------------------------------------------------------------------------
(* Every worker of a level has at least one byte to move and never more    *)
(* than the cap, so that the range of a download test is not empty and     *)
(* lies in the test object (speedtest.go:168-180, 223-228, 327), and a     *)
(* level that is not capped moves the least volume asked for, but for the  *)
(* remainder of the division.                                              *)
THEOREM ShareInRange ==
    ASSUME NEW base \in Nat \ {0}, NEW minTotal \in Nat,
           NEW maxPerWorker \in Nat, NEW workers \in Nat \ {0}
    PROVE  LET share == scaledPerWorker(base, minTotal, maxPerWorker, workers)
           IN  /\ share \in Nat \ {0}
               /\ maxPerWorker > 0 => share <= maxPerWorker
               /\ maxPerWorker = 0 \/ share < maxPerWorker
                     => workers * (share + 1) > minTotal
<1> DEFINE floor == minTotal \div workers
           share == scaledPerWorker(base, minTotal, maxPerWorker, workers)
<1>1. floor \in Nat /\ workers * (floor + 1) > minTotal
  OBVIOUS
<1> HIDE DEF floor
<1>2. /\ share \in Nat \ {0}
      /\ maxPerWorker > 0 => share <= maxPerWorker
      /\ maxPerWorker = 0 \/ share < maxPerWorker => share >= floor
  BY <1>1 DEF scaledPerWorker, floor
<1>3. \A s \in Nat : s >= floor => workers * (s + 1) >= workers * (floor + 1)
  BY <1>1
<1> HIDE DEF share
<1>4. maxPerWorker = 0 \/ share < maxPerWorker
         => workers * (share + 1) > minTotal
  BY <1>1, <1>2, <1>3
<1> QED BY <1>2, <1>4 DEF share
=============================================================================
