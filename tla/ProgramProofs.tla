---------------------------- MODULE ProgramProofs ----------------------------
(***************************************************************************)
(* What is proved of the sweep of Speedtest and of the log of StateLog     *)
(* holds of an invocation, which Program composes of the two.              *)
(***************************************************************************)
EXTENDS Program, StateLogProofs

SweepProofs == INSTANCE SpeedtestProofs

(* A trial measures something, and the table has up to eight levels.       *)
SweepGiven == SweepProofs!SpeedsArePositive /\ SweepProofs!LevelsGiven

-----------------------------------------------------------------------------
(* By the way Program composes the two modes, the steps of each are        *)
(* stutters of the other's module; the lemmas only carry its theorems over.*)
LEMMA ProgramKeepsLog == ProgramSpec => Spec
<1>1. ProgramInit => Init
  BY DEF ProgramInit
<1>2. [SpeedtestStep \/ MigrationStep]_programVars => [Next]_vars
  BY DEF SpeedtestStep, MigrationStep, programVars
<1> QED BY <1>1, <1>2, PTL DEF ProgramSpec, Spec

LEMMA ProgramKeepsSweep == ProgramSpec => SweepProofs!Spec
<1>1. ProgramInit => SweepProofs!Init
  BY DEF ProgramInit, Sweep!Init, SweepProofs!Init
<1>2. Sweep!Trial => SweepProofs!Trial
  BY DEF Sweep!Trial, SweepProofs!Trial, Sweep!Better, SweepProofs!Better,
         Sweep!speedtestTrialsPerLevel, SweepProofs!speedtestTrialsPerLevel
<1>3. Sweep!EndLevel => SweepProofs!EndLevel
  BY DEF Sweep!EndLevel, SweepProofs!EndLevel,
         Sweep!speedtestTrialsPerLevel, SweepProofs!speedtestTrialsPerLevel,
         Sweep!StallsAfter, SweepProofs!StallsAfter,
         Sweep!SweepEnds, SweepProofs!SweepEnds,
         Sweep!stallCountForStop, SweepProofs!stallCountForStop,
         Sweep!Stalls, SweepProofs!Stalls,
         Sweep!Effective, SweepProofs!Effective,
         Sweep!minPositive, SweepProofs!minPositive
<1>4. [SpeedtestStep \/ MigrationStep]_programVars
          => [SweepProofs!Next]_(SweepProofs!vars)
  BY <1>2, <1>3 DEF SpeedtestStep, MigrationStep, programVars, sweepVars,
                    Sweep!Next, SweepProofs!Next, SweepProofs!vars
<1> QED BY <1>1, <1>4, PTL DEF ProgramSpec, SweepProofs!Spec

-----------------------------------------------------------------------------
(* Of every invocation: what a restart takes for completed was completed   *)
(* once (state.go:182-210), a process that is killed loses no record       *)
(* (state.go:54-64), and a tear costs no record but those next to it       *)
(* (state.go:166, 200-203).                                                *)
THEOREM ProgramLogIsSound ==
    ProgramSpec => [](LoadedWasMarked /\ KillLosesNothing /\ TearsStayLocal)
BY ProgramKeepsLog, LoadedKeysWereMarked, NothingIsLostByKill, LossesStayLocal, PTL

(* Of every speed test: the sweep goes on only from a level with a result  *)
(* (speedtest.go:313).                                                     *)
THEOREM SweepGoesOnFromResult ==
    ASSUME SweepGiven PROVE ProgramSpec => []LevelsMeasured
<1>1. SweepProofs!Spec => [](SweepProofs!LevelsMeasured
                             /\ SweepProofs!StallsAreConsecutive
                             /\ SweepProofs!StopHasCause)
  BY SweepProofs!SweepStopsSoundly DEF SweepGiven
<1>2. SweepProofs!LevelsMeasured => LevelsMeasured
  BY DEF LevelsMeasured, Sweep!LevelsMeasured, SweepProofs!LevelsMeasured,
         Sweep!Effective, SweepProofs!Effective,
         Sweep!minPositive, SweepProofs!minPositive
<1> QED BY <1>1, <1>2, ProgramKeepsSweep, PTL

(* It stops early after two stalled levels in a row, and after no others   *)
(* (speedtest.go:292-311).                                                 *)
THEOREM SweepCountsConsecutiveStalls ==
    ASSUME SweepGiven PROVE ProgramSpec => []StallsAreConsecutive
<1>1. SweepProofs!Spec => [](SweepProofs!LevelsMeasured
                             /\ SweepProofs!StallsAreConsecutive
                             /\ SweepProofs!StopHasCause)
  BY SweepProofs!SweepStopsSoundly DEF SweepGiven
<1>2. SweepProofs!StallsAreConsecutive => StallsAreConsecutive
  BY DEF StallsAreConsecutive, Sweep!StallsAreConsecutive,
         SweepProofs!StallsAreConsecutive, Sweep!Stalls, SweepProofs!Stalls,
         Sweep!Effective, SweepProofs!Effective,
         Sweep!minPositive, SweepProofs!minPositive
<1> QED BY <1>1, <1>2, ProgramKeepsSweep, PTL

(* The levels on account of which it stopped are not recommended           *)
(* (speedtest.go:517-525).                                                 *)
THEOREM ProgramRecommendsNoPlateau ==
    ASSUME SweepGiven PROVE ProgramSpec => []PlateauNotRecommended
<1>1. SweepProofs!Spec => []SweepProofs!PlateauNotRecommended
  BY SweepProofs!PlateauIsNotRecommended DEF SweepGiven
<1>2. SweepProofs!RecommendedLevel = Sweep!RecommendedLevel
  BY DEF Sweep!RecommendedLevel, SweepProofs!RecommendedLevel,
         Sweep!Knee, SweepProofs!Knee,
         Sweep!Candidates, SweepProofs!Candidates,
         Sweep!Gains, SweepProofs!Gains,
         Sweep!Effective, SweepProofs!Effective,
         Sweep!minPositive, SweepProofs!minPositive
<1>3. SweepProofs!PlateauNotRecommended => PlateauNotRecommended
  BY <1>2 DEF PlateauNotRecommended, Sweep!PlateauNotRecommended,
              SweepProofs!PlateauNotRecommended,
              Sweep!stallCountForStop, SweepProofs!stallCountForStop
<1> QED BY <1>1, <1>3, ProgramKeepsSweep, PTL
=============================================================================
