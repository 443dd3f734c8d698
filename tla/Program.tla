------------------------------ MODULE Program -------------------------------
(***************************************************************************)
(* main.go, RunE: an invocation is a speed test or a migration, of which   *)
(* this module looks at what each does by itself, the sweep of Speedtest   *)
(* and the log of StateLog.  RunE dispatches once (main.go:207-215), so    *)
(* that a behaviour stays in one mode.  That the two have no state in      *)
(* common is an abstraction, read from the code and not shown here: the    *)
(* state directory is opened by runMigration only, and runSpeedtest calls  *)
(* nothing of state.go.                                                    *)
(***************************************************************************)
EXTENDS StateLog

CONSTANTS Speeds, scalingLevels

VARIABLES mode,
          hasWasabi, hasGCS, trial, wasabiBPS, gcsBPS, WasabiScaling,
          GCSScaling, stallCount, stopped

Sweep == INSTANCE Speedtest

sweepVars == <<hasWasabi, hasGCS, trial, wasabiBPS, gcsBPS, WasabiScaling,
               GCSScaling, stallCount, stopped>>
programVars == <<vars, mode, sweepVars>>

ProgramInit ==
    /\ Init /\ Sweep!Init
    /\ mode \in {"speedtest", "migration"}
    /\ mode = "migration" => hasWasabi

(* runSpeedtest.  Its transfers are left out, and with them all it does to *)
(* files and buckets: UNCHANGED says that the log is none of them.         *)
SpeedtestStep ==
    /\ mode = "speedtest"
    /\ \/ Sweep!Next
       \/ stopped /\ UNCHANGED sweepVars
    /\ UNCHANGED <<vars, mode>>

MigrationStep ==
    /\ mode = "migration"
    /\ Next
    /\ UNCHANGED <<mode, sweepVars>>

ProgramSpec == ProgramInit /\ [][SpeedtestStep \/ MigrationStep]_programVars

-----------------------------------------------------------------------------
(* The invariants of the sweep; Speedtest.tla states each of them.  The    *)
(* sweep goes on only from a level with a result (speedtest.go:313).       *)
LevelsMeasured == Sweep!LevelsMeasured

(* The sweep stops early after two stalled levels in a row, and after no   *)
(* others (speedtest.go:292-311).                                          *)
StallsAreConsecutive == Sweep!StallsAreConsecutive

(* The levels on account of which it stopped are not recommended           *)
(* (speedtest.go:517-525).                                                 *)
PlateauNotRecommended == Sweep!PlateauNotRecommended
=============================================================================
