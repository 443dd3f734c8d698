---------------------------- MODULE ResumeProofs ----------------------------
(***************************************************************************)
(* Proofs about Resume, for any keys and command lines and any number of   *)
(* runs, crashes, lost machines, failed transfers and synchronisations.    *)
(***************************************************************************)
EXTENDS Resume, FiniteSetTheorems, TLAPS

(* The variables a step leaves alone are given as tuples.                  *)
USE DEF buckets, localFiles, remoteFiles, setting, memory, uploader

(* The steps of --check-destination, and an upload that fails, are parts   *)
(* of the actions the leaves unfold.                                       *)
USE DEF ListDestination, MarkMatching, AllMarked, UploadFails

-----------------------------------------------------------------------------
(* Type correctness.  The lister has counted at most the keys that it has  *)
(* passed, and no upload is under way before a run has made its decision.  *)
Passed == {k \in Keys : k < next}

CountInv == total \in Nat /\ total <= Cardinality(Passed)

Early == {"off", "download", "download2", "load", "decide"}
UploaderInv == pc \in Early => upc = "none"

LEMMA KeysAreFinite ==
    /\ Keys \subseteq Nat
    /\ Cardinality(Keys) \in Nat
    /\ \A S \in SUBSET Keys : /\ IsFiniteSet(S) /\ Cardinality(S) \in Nat
                              /\ Cardinality(S) <= Cardinality(Keys)
<1>1. IsFiniteSet(Keys) /\ Keys \subseteq Nat
  BY ResumeAssumption
<1>2. ASSUME NEW S \in SUBSET Keys
      PROVE  /\ IsFiniteSet(S) /\ Cardinality(S) \in Nat
             /\ Cardinality(S) <= Cardinality(Keys)
  BY <1>1, FS_Subset, FS_CardinalityType
<1> QED
  BY <1>1, <1>2, FS_CardinalityType

LEMMA CountUnchanged ==
    ASSUME CountInv, UNCHANGED <<next, total>> PROVE CountInv'
BY DEF CountInv, Passed

LEMMA CountStarts ==
    ASSUME next' = 0, total' = 0 PROVE CountInv'
BY KeysAreFinite DEF CountInv, Passed

LEMMA CountListKey ==
    ASSUME TypeOK, CountInv, ListKey
    PROVE  CountInv'
<1>1. PICK k \in Unlisted : next' = k + 1 /\ total' = total + 1
  BY DEF ListKey
<1>2. k \in Keys /\ k \in Nat /\ k >= next /\ next \in Nat
  BY <1>1, KeysAreFinite DEF Unlisted, TypeOK
<1>3. Passed \in SUBSET Keys /\ Passed' \in SUBSET Keys /\ k \notin Passed
  BY <1>2 DEF Passed
<1>4. Passed \cup {k} \subseteq Passed'
  <2>1. SUFFICES ASSUME NEW j \in Passed \cup {k} PROVE j \in Passed'
    OBVIOUS
  <2>2. j \in Keys /\ j \in Nat /\ j < k + 1
    BY <1>2, <2>1, KeysAreFinite DEF Passed
  <2> QED BY <1>1, <2>2 DEF Passed
<1>5. PICK S \in SUBSET Keys, T \in SUBSET Keys : S = Passed /\ T = Passed'
  BY <1>3
<1>6. IsFiniteSet(S) /\ IsFiniteSet(T) /\ Cardinality(S) \in Nat /\ Cardinality(T) \in Nat
  BY KeysAreFinite
<1>7. Cardinality(S \cup {k}) = Cardinality(S) + 1
  BY <1>3, <1>5, <1>6, FS_AddElement
<1>8. Cardinality(S \cup {k}) <= Cardinality(T)
  BY <1>4, <1>5, <1>6, FS_Subset
<1>9. total' \in Nat /\ total' <= Cardinality(T)
  BY <1>1, <1>5, <1>6, <1>7, <1>8 DEF CountInv
<1> QED
  BY <1>5, <1>9 DEF CountInv

LEMMA CountPreserved ==
    ASSUME TypeOK, CountInv, [Next]_vars
    PROVE  CountInv'
<1>1. CASE ListKey
  BY <1>1, CountListKey
<1>2. CASE \/ Start \/ CheckDestination \/ EndScan \/ Tick \/ PeriodicUpload
           \/ StopSync
  BY <1>2, CountUnchanged
     DEF Start, CheckDestination, EndScan, Tick, UploadReads, PeriodicUpload, StopSync
<1>3. ASSUME NEW k \in Keys, Transfer(k) \/ MarkCompleted(k) \/ ChangeSource(k)
      PROVE  CountInv'
  BY <1>3, CountUnchanged DEF Transfer, MarkCompleted, ChangeSource
<1>4. CASE \/ DownloadLog \/ DownloadManifest \/ Load \/ Decide \/ RunReturns
           \/ FinalUpload \/ Crash \/ LoseMachine
  BY <1>4, CountUnchanged, CountStarts
     DEF DownloadLog, DownloadManifest, Load, Decide, Begin, RunReturns, FinalUpload,
         Crash, LoseMachine, Off
<1>5. CASE UNCHANGED vars
  BY <1>5, CountUnchanged DEF vars
<1> QED
  BY <1>1, <1>2, <1>3, <1>4, <1>5 DEF Next, Terminated

-----------------------------------------------------------------------------
DataTypeOK ==
    /\ source \subseteq Keys /\ dest \in [Keys -> {"absent", "good", "bad"}]
    /\ log \subseteq Keys /\ (rlog = NoFile \/ rlog \subseteq Keys)
    /\ vouched \subseteq Keys /\ forgotten \subseteq Keys /\ late \subseteq Keys
    /\ completed \subseteq Keys /\ pending \subseteq Keys /\ stored \subseteq Keys

ManifestTypeOK ==
    /\ man \in ManifestFiles /\ rman \in ManifestFiles
    /\ manifest \in Manifests \cup {NoFile}
    /\ upc \in {"none", "idle", "log", "manifest"}
    /\ IF upc = "log" THEN snap \subseteq Keys ELSE snap \in ManifestFiles
    /\ flags \in CommandLines

ControlTypeOK ==
    /\ pc \in PCs
    /\ result \in {"none", "complete", "synced", "unsynced", "crash", "local"}
    /\ stateGCS \in BOOLEAN /\ rescanned \in BOOLEAN /\ scanned \in BOOLEAN

NumberTypeOK ==
    /\ next \in Nat
    /\ runs \in 0 .. MaxRuns /\ changes \in 0 .. MaxChanges /\ faults \in 0 .. MaxFaults

LEMMA TypeParts ==
    /\ TypeOK => DataTypeOK /\ ManifestTypeOK /\ ControlTypeOK /\ NumberTypeOK
    /\ DataTypeOK' /\ ManifestTypeOK' /\ ControlTypeOK' /\ NumberTypeOK' /\ CountInv' => TypeOK'
<1>1. TypeOK => DataTypeOK /\ ManifestTypeOK /\ ControlTypeOK /\ NumberTypeOK
  BY DEF TypeOK, DataTypeOK, ManifestTypeOK, ControlTypeOK, NumberTypeOK
<1>2. ASSUME DataTypeOK', ManifestTypeOK', ControlTypeOK', NumberTypeOK', CountInv' PROVE TypeOK'
  <2>1. PICK S \in SUBSET Keys, t \in Nat : S = Passed' /\ t = total'
    BY <1>2 DEF CountInv, Passed
  <2>2. /\ Cardinality(S) \in Nat /\ Cardinality(S) <= Cardinality(Keys)
        /\ Cardinality(Keys) \in Nat
    BY KeysAreFinite
  <2>3. t \in 0 .. Cardinality(Keys)
    BY <1>2, <2>1, <2>2 DEF CountInv
  <2> QED
    BY <1>2, <2>1, <2>3 DEF TypeOK, DataTypeOK, ManifestTypeOK, ControlTypeOK, NumberTypeOK
<1> QED
  BY <1>1, <1>2

LEMMA DataType ==
    ASSUME TypeOK, [Next]_vars
    PROVE  DataTypeOK'
<1> USE TypeParts DEF DataTypeOK
<1>1. CASE Start \/ Load \/ EndScan \/ RunReturns \/ Crash \/ LoseMachine \/ DownloadManifest
  BY <1>1 DEF Start, Load, EndScan, RunReturns, Crash, LoseMachine, DownloadManifest, Off
<1>2. CASE DownloadLog
  BY <1>2 DEF DownloadLog, Off
<1>3. CASE Decide
  BY <1>3 DEF Decide, Begin, Reset, RemoteLog, Off
<1>4. CASE CheckDestination
  <2>1. DestinationObjects \subseteq Keys
    BY DEF DestinationObjects, ListObjects, DestSizes
  <2> QED
    BY <1>4, <2>1 DEF CheckDestination
<1>5. CASE ListKey
  BY <1>5 DEF ListKey, Unlisted
<1>6. ASSUME NEW k \in Keys, Transfer(k) PROVE DataTypeOK'
  BY <1>6 DEF Transfer
<1>7. ASSUME NEW k \in Keys, MarkCompleted(k) PROVE DataTypeOK'
  BY <1>7 DEF MarkCompleted
<1>8. ASSUME NEW k \in Keys, ChangeSource(k) PROVE DataTypeOK'
  BY <1>8 DEF ChangeSource
<1>9. CASE Tick \/ StopSync
  BY <1>9 DEF Tick, UploadReads, StopSync
<1>10. CASE PeriodicUpload \/ FinalUpload
  BY <1>10 DEF PeriodicUpload, FinalUpload, CommitLog, CommitManifest, Off, ManifestTypeOK
<1>11. CASE UNCHANGED vars
  BY <1>11 DEF vars
<1> QED
  BY <1>1, <1>2, <1>3, <1>4, <1>5, <1>6, <1>7, <1>8, <1>9, <1>10, <1>11
     DEF Next, Terminated

LEMMA ManifestType ==
    ASSUME TypeOK, UploaderInv, [Next]_vars
    PROVE  ManifestTypeOK'
<1> USE TypeParts DEF ManifestTypeOK
<1>1. CASE Start
  <2>1. flags' \in CommandLines
    BY <1>1, ResumeAssumption DEF Start, Flags
  <2> QED
    BY <1>1, <2>1 DEF Start
<1>2. CASE DownloadLog \/ Crash \/ LoseMachine \/ RunReturns
  BY <1>2 DEF DownloadLog, Crash, LoseMachine, RunReturns, Off, ManifestFiles
<1>3. CASE DownloadManifest
  BY <1>3 DEF DownloadManifest, Off, ManifestFiles
<1>4. CASE Load
  BY <1>4 DEF Load, LoadedManifest, Off, ManifestFiles
<1>5. CASE Decide
  <2>1. upc = "none"
    BY <1>5 DEF Decide, UploaderInv, Early
  <2> QED
    BY <1>5, <2>1 DEF Decide, Begin, Off, ManifestFiles
<1>6. CASE EndScan
  <2>1. [total |-> total, prefix |-> flags.prefix] \in Manifests
    BY DEF TypeOK, CommandLines, Manifests
  <2> QED
    BY <1>6, <2>1 DEF EndScan, ManifestFiles
<1>7. CASE CheckDestination \/ ListKey
  BY <1>7 DEF CheckDestination, ListKey
<1>8. ASSUME NEW k \in Keys, Transfer(k) \/ MarkCompleted(k) \/ ChangeSource(k)
      PROVE  ManifestTypeOK'
  BY <1>8 DEF Transfer, MarkCompleted, ChangeSource
<1>9. CASE Tick \/ StopSync
  BY <1>9 DEF Tick, UploadReads, StopSync, DataTypeOK
<1>10. CASE PeriodicUpload \/ FinalUpload
  BY <1>10 DEF PeriodicUpload, FinalUpload, CommitLog, CommitManifest, Off, ManifestFiles
<1>11. CASE UNCHANGED vars
  BY <1>11 DEF vars
<1> QED
  BY <1>1, <1>2, <1>3, <1>4, <1>5, <1>6, <1>7, <1>8, <1>9, <1>10, <1>11
     DEF Next, Terminated

LEMMA ControlType ==
    ASSUME TypeOK, [Next]_vars
    PROVE  ControlTypeOK'
<1>0. ControlTypeOK
  BY TypeParts
<1> USE <1>0 DEF ControlTypeOK, PCs
<1>1. CASE Start
  <2>1. rescanned' \in BOOLEAN
    BY <1>1 DEF Start
  <2> QED
    BY <1>1, <2>1 DEF Start, Goto
<1>2. CASE DownloadLog \/ DownloadManifest
  BY <1>2 DEF DownloadLog, DownloadManifest, Off, Goto
<1>3. CASE Load \/ Decide
  BY <1>3 DEF Load, Decide, Begin, Off
<1>4. CASE CheckDestination \/ EndScan \/ ListKey \/ RunReturns \/ Crash \/ LoseMachine
  BY <1>4 DEF CheckDestination, EndScan, ListKey, RunReturns, Crash, LoseMachine, Off, Goto
<1>5. ASSUME NEW k \in Keys, Transfer(k) \/ MarkCompleted(k) \/ ChangeSource(k)
      PROVE  ControlTypeOK'
  BY <1>5 DEF Transfer, MarkCompleted, ChangeSource
<1>6. CASE Tick \/ StopSync
  BY <1>6 DEF Tick, UploadReads, StopSync, Goto
<1>7. CASE PeriodicUpload \/ FinalUpload
  BY <1>7 DEF PeriodicUpload, FinalUpload, CommitLog, CommitManifest, Off
<1>8. CASE UNCHANGED vars
  BY <1>8 DEF vars
<1> QED
  BY <1>1, <1>2, <1>3, <1>4, <1>5, <1>6, <1>7, <1>8 DEF Next, Terminated

LEMMA NumberType ==
    ASSUME TypeOK, [Next]_vars
    PROVE  NumberTypeOK'
<1>0. NumberTypeOK /\ MaxRuns \in Nat /\ MaxChanges \in Nat /\ MaxFaults \in Nat
  BY TypeParts, ResumeAssumption
<1>1. next' \in Nat
  <2>1. CASE ListKey
    <3>1. PICK k \in Unlisted : next' = k + 1
      BY <2>1 DEF ListKey
    <3>2. Keys \subseteq Nat
      BY KeysAreFinite
    <3>3. k \in Nat
      BY <3>1, <3>2, TypeParts DEF Unlisted, DataTypeOK
    <3> QED
      BY <3>1, <3>3
  <2>2. CASE ~ListKey
    <3>1. next' = next \/ next' = 0
      BY <2>2 DEF Next, Start, DownloadLog, DownloadManifest, Load, Decide, Begin,
             CheckDestination, EndScan, Transfer, MarkCompleted, ChangeSource, Tick,
             UploadReads, PeriodicUpload, RunReturns, StopSync, FinalUpload, CommitLog,
             CommitManifest, Crash, LoseMachine, Off, Terminated, vars
    <3> QED
      BY <1>0, <3>1 DEF NumberTypeOK
  <2> QED
    BY <2>1, <2>2
<1>2. runs' = runs \/ (runs < MaxRuns /\ runs' = runs + 1)
  BY DEF Next, Start, DownloadLog, DownloadManifest, Load, Decide, CheckDestination,
         ListKey, EndScan, Transfer, MarkCompleted, ChangeSource, Tick, UploadReads,
         PeriodicUpload, RunReturns, StopSync, FinalUpload, Crash, LoseMachine, Terminated, vars
<1>3. changes' = changes \/ (changes < MaxChanges /\ changes' = changes + 1)
  BY DEF Next, Start, DownloadLog, DownloadManifest, Load, Decide, CheckDestination,
         ListKey, EndScan, Transfer, MarkCompleted, ChangeSource, Tick, UploadReads,
         PeriodicUpload, RunReturns, StopSync, FinalUpload, Crash, LoseMachine, Terminated, vars
<1>4. faults' = faults \/ (faults < MaxFaults /\ faults' = faults + 1)
  BY DEF Next, Start, DownloadLog, DownloadManifest, Load, Decide, CheckDestination,
         ListKey, EndScan, Transfer, MarkCompleted, ChangeSource, Tick, UploadReads,
         PeriodicUpload, RunReturns, StopSync, FinalUpload, CommitLog, CommitManifest,
         Crash, LoseMachine, Fault, Terminated, vars
<1> QED
  BY <1>0, <1>1, <1>2, <1>3, <1>4 DEF NumberTypeOK

LEMMA UploaderPreserved ==
    ASSUME TypeOK, UploaderInv, [Next]_vars
    PROVE  UploaderInv'
<1> USE DEF UploaderInv, Early
<1>1. CASE Start \/ DownloadLog \/ DownloadManifest \/ Load
  BY <1>1 DEF Start, DownloadLog, DownloadManifest, Load, Off, Goto
<1>2. CASE Decide
  BY <1>2 DEF Decide, Begin, Off
<1>3. CASE CheckDestination \/ EndScan \/ ListKey \/ RunReturns \/ Crash \/ LoseMachine
  BY <1>3 DEF CheckDestination, EndScan, ListKey, RunReturns, Crash, LoseMachine, Off, Goto
<1>4. ASSUME NEW k \in Keys, Transfer(k) \/ MarkCompleted(k) \/ ChangeSource(k)
      PROVE  UploaderInv'
  BY <1>4 DEF Transfer, MarkCompleted, ChangeSource
<1>5. CASE Tick \/ StopSync
  BY <1>5 DEF Tick, UploadReads, StopSync, Goto
<1>6. CASE PeriodicUpload \/ FinalUpload
  BY <1>6 DEF PeriodicUpload, FinalUpload, CommitLog, CommitManifest, Off
<1>7. CASE UNCHANGED vars
  BY <1>7 DEF vars
<1> QED
  BY <1>1, <1>2, <1>3, <1>4, <1>5, <1>6, <1>7 DEF Next, Terminated

LEMMA TypeInit == Init => TypeOK /\ CountInv /\ UploaderInv
<1>1. SUFFICES ASSUME Init PROVE TypeOK /\ CountInv /\ UploaderInv
  OBVIOUS
<1>2. Cardinality(Keys) \in Nat /\ flags \in CommandLines
  BY <1>1, KeysAreFinite, ResumeAssumption DEF Init, Flags
<1>3. CountInv
  <2>1. PICK S \in SUBSET Keys : S = Passed
    BY DEF Passed
  <2>2. Cardinality(S) \in Nat
    BY KeysAreFinite
  <2> QED
    BY <1>1, <2>1, <2>2 DEF CountInv, Init
<1>4. UploaderInv
  BY <1>1 DEF Init, UploaderInv
<1>5. total \in 0 .. Cardinality(Keys)
  BY <1>1, <1>2 DEF Init
<1>6. /\ runs \in 0 .. MaxRuns /\ changes \in 0 .. MaxChanges /\ faults \in 0 .. MaxFaults
      /\ next \in Nat
  BY <1>1, ResumeAssumption DEF Init
<1>7. DataTypeOK
  BY <1>1 DEF Init, DataTypeOK
<1>8. ManifestTypeOK /\ ControlTypeOK
  BY <1>1, <1>2 DEF Init, ManifestTypeOK, ControlTypeOK, PCs, ManifestFiles
<1> QED
  BY <1>3, <1>4, <1>5, <1>6, <1>7, <1>8 DEF TypeOK, DataTypeOK, ManifestTypeOK, ControlTypeOK

(* Every variable keeps its type, and the lister never counts more objects *)
(* than there are keys.                                                    *)
THEOREM TypeCorrect == Spec => []TypeOK
<1>1. Init => TypeOK /\ CountInv /\ UploaderInv
  BY TypeInit
<1>2. TypeOK /\ CountInv /\ UploaderInv /\ [Next]_vars => (TypeOK /\ CountInv /\ UploaderInv)'
  BY CountPreserved, UploaderPreserved, DataType, ManifestType, ControlType, NumberType,
     TypeParts
<1> QED
  BY <1>1, <1>2, PTL DEF Spec

-----------------------------------------------------------------------------
(* What is recorded is in the destination.  The strengthening says what    *)
(* each stage of a run knows of the state files (a run without --state-gcs *)
(* has no remote ones), where a key may be on its way from the listing to  *)
(* the log, and that what an upload is about to make the remote log holds  *)
(* every key whose --force reset it would undo.                            *)
LocalInv ==
    ~stateGCS => /\ rlog = NoFile /\ forgotten = {} /\ upc = "none"
                 /\ pc \notin {"download", "download2", "stop", "final"}

MemoryInv ==
    /\ pc \in Early \cup {"check", "mark"} => pending = {} /\ stored = {}
    /\ completed = IF pc \in {"off", "download", "download2", "load"} THEN {} ELSE log

QueueInv ==
    /\ \A k \in pending \cup stored : k < next
    /\ pending \cap stored = {}
    /\ (pending \cup stored) \cap completed = {}

StoredInv == \A k \in stored : dest[k] = "good"

RemoteInv == pc \notin {"off", "download"} => RemoteLog \subseteq log \cup forgotten

SnapInv ==
    upc = "log" => snap \subseteq log /\ (log \cap forgotten) \ vouched \subseteq snap

FilesInv == LocalInv /\ MemoryInv /\ RemoteInv /\ SnapInv /\ UploaderInv

LEMMA LocalPreserved ==
    ASSUME TypeOK, LocalInv, UploaderInv, [Next]_vars
    PROVE  LocalInv'
<1> USE DEF LocalInv
<1>1. CASE Start \/ DownloadLog \/ DownloadManifest \/ Load
  BY <1>1 DEF Start, DownloadLog, DownloadManifest, Load, Off, Goto
<1>2. CASE Decide
  BY <1>2 DEF Decide, Begin, Reset, RemoteLog, Off
<1>3. CASE CheckDestination \/ EndScan \/ ListKey \/ RunReturns \/ Crash \/ LoseMachine
  BY <1>3 DEF CheckDestination, EndScan, ListKey, RunReturns, Crash, LoseMachine, Off, Goto
<1>4. ASSUME NEW k \in Keys, Transfer(k) \/ MarkCompleted(k) \/ ChangeSource(k)
      PROVE  LocalInv'
  BY <1>4 DEF Transfer, MarkCompleted, ChangeSource
<1>5. CASE Tick \/ StopSync
  BY <1>5 DEF Tick, UploadReads, StopSync, Goto
<1>6. CASE PeriodicUpload \/ FinalUpload
  BY <1>6 DEF PeriodicUpload, FinalUpload, CommitLog, CommitManifest, Off
<1>7. CASE UNCHANGED vars
  BY <1>7 DEF vars
<1> QED
  BY <1>1, <1>2, <1>3, <1>4, <1>5, <1>6, <1>7 DEF Next, Terminated

LEMMA MemoryPreserved ==
    ASSUME TypeOK, LocalInv, MemoryInv, [Next]_vars
    PROVE  MemoryInv'
<1> USE DEF MemoryInv, Early
<1>1. CASE Start
  BY <1>1 DEF Start, Goto
<1>2. CASE DownloadLog \/ DownloadManifest
  BY <1>2 DEF DownloadLog, DownloadManifest, Off, Goto
<1>3. CASE Load
  BY <1>3 DEF Load, Off
<1>4. CASE Decide
  BY <1>4 DEF Decide, Begin, Reset, Off
<1>5. CASE CheckDestination
  BY <1>5 DEF CheckDestination, Goto
<1>6. CASE ListKey \/ EndScan
  BY <1>6 DEF ListKey, EndScan
<1>7. CASE RunReturns \/ Crash \/ LoseMachine
  BY <1>7 DEF RunReturns, Crash, LoseMachine, Off
<1>8. ASSUME NEW k \in Keys, Transfer(k) PROVE MemoryInv'
  BY <1>8 DEF Transfer, Transferring
<1>9. ASSUME NEW k \in Keys, MarkCompleted(k) PROVE MemoryInv'
  BY <1>9 DEF MarkCompleted, Transferring
<1>10. ASSUME NEW k \in Keys, ChangeSource(k) PROVE MemoryInv'
  BY <1>10 DEF ChangeSource
<1>11. CASE Tick \/ StopSync
  BY <1>11 DEF Tick, UploadReads, StopSync, Goto
<1>12. CASE PeriodicUpload \/ FinalUpload
  BY <1>12 DEF PeriodicUpload, FinalUpload, CommitLog, CommitManifest, Off
<1>13. CASE UNCHANGED vars
  BY <1>13 DEF vars
<1> QED
  BY <1>1, <1>2, <1>3, <1>4, <1>5, <1>6, <1>7, <1>8, <1>9, <1>10, <1>11, <1>12, <1>13
     DEF Next, Terminated

LEMMA QueuePreserved ==
    ASSUME TypeOK, LocalInv, MemoryInv, QueueInv, [Next]_vars
    PROVE  QueueInv'
<1>0. Keys \subseteq Nat /\ DataTypeOK /\ NumberTypeOK
  BY KeysAreFinite, TypeParts
<1> USE DEF QueueInv
<1>1. CASE Start \/ EndScan \/ Tick \/ PeriodicUpload \/ StopSync
  BY <1>1 DEF Start, EndScan, Tick, UploadReads, PeriodicUpload, StopSync
<1>2. CASE DownloadLog \/ DownloadManifest \/ FinalUpload
  BY <1>2 DEF DownloadLog, DownloadManifest, FinalUpload, Off
<1>3. CASE Crash \/ LoseMachine
  BY <1>3 DEF Crash, LoseMachine, Off
<1>4. CASE Load \/ Decide \/ CheckDestination
  <2>1. pending = {} /\ stored = {}
    BY <1>4 DEF MemoryInv, Early, Load, Decide, CheckDestination, Goto
  <2>2. pending' = {} /\ stored' = {}
    BY <1>4, <2>1 DEF Load, Decide, CheckDestination, Begin, Off
  <2> QED
    BY <2>2
<1>5. CASE RunReturns
  <2>1. CASE stateGCS
    BY <1>5, <2>1 DEF RunReturns
  <2>2. CASE ~stateGCS
    BY <1>5, <2>2 DEF RunReturns, Off
  <2> QED
    BY <2>1, <2>2
<1>6. CASE ListKey
  <2>1. PICK k \in Unlisted :
            /\ next' = k + 1
            /\ pending' = IF k \in completed THEN pending ELSE pending \cup {k}
    BY <1>6 DEF ListKey
  <2>2. stored' = stored /\ completed' = completed
    BY <1>6 DEF ListKey
  <2>3. k \in Nat /\ next \in Nat /\ k >= next
    BY <1>0, <2>1 DEF Unlisted, DataTypeOK, NumberTypeOK
  <2>4. k \notin pending \cup stored
    BY <1>0, <2>3 DEF DataTypeOK
  <2>5. pending' \cap stored' = {} /\ (pending' \cup stored') \cap completed' = {}
    BY <2>1, <2>2, <2>4
  <2>6. ASSUME NEW j \in pending' \cup stored' PROVE j < next'
    <3>1. j = k \/ (j \in pending \cup stored /\ j \in Nat /\ j < next)
      BY <1>0, <2>1, <2>2, <2>6 DEF DataTypeOK
    <3> QED
      BY <2>1, <2>3, <3>1
  <2> QED
    BY <2>5, <2>6
<1>7. ASSUME NEW k \in Keys, Transfer(k) PROVE QueueInv'
  BY <1>7 DEF Transfer
<1>8. ASSUME NEW k \in Keys, MarkCompleted(k) PROVE QueueInv'
  BY <1>8 DEF MarkCompleted
<1>9. ASSUME NEW k \in Keys, ChangeSource(k) PROVE QueueInv'
  BY <1>9 DEF ChangeSource
<1>10. CASE UNCHANGED vars
  BY <1>10 DEF vars
<1> QED
  BY <1>1, <1>2, <1>3, <1>4, <1>5, <1>6, <1>7, <1>8, <1>9, <1>10 DEF Next, Terminated

LEMMA StoredPreserved ==
    ASSUME TypeOK, QueueInv, StoredInv, [Next]_vars
    PROVE  StoredInv'
<1> USE DEF StoredInv
<1>1. CASE Start \/ EndScan \/ Tick \/ PeriodicUpload \/ StopSync \/ CheckDestination \/ ListKey
  BY <1>1 DEF Start, EndScan, Tick, UploadReads, PeriodicUpload, StopSync, CheckDestination,
              ListKey
<1>2. CASE DownloadLog \/ DownloadManifest \/ FinalUpload \/ Load \/ Decide
  BY <1>2 DEF DownloadLog, DownloadManifest, FinalUpload, Load, Decide, Begin, Off
<1>3. CASE Crash \/ LoseMachine \/ RunReturns
  BY <1>3 DEF Crash, LoseMachine, RunReturns, Off
<1>4. ASSUME NEW k \in Keys, Transfer(k) PROVE StoredInv'
  <2>1. dest \in [Keys -> {"absent", "good", "bad"}] /\ stored \subseteq Keys
        /\ k \in pending /\ k \notin stored
    BY <1>4, TypeParts DEF Transfer, DataTypeOK, QueueInv
  <2> QED
    BY <1>4, <2>1 DEF Transfer
<1>5. ASSUME NEW k \in Keys, MarkCompleted(k) \/ ChangeSource(k) PROVE StoredInv'
  BY <1>5 DEF MarkCompleted, ChangeSource
<1>6. CASE UNCHANGED vars
  BY <1>6 DEF vars
<1> QED
  BY <1>1, <1>2, <1>3, <1>4, <1>5, <1>6 DEF Next, Terminated

LEMMA RemotePreserved ==
    ASSUME TypeOK, LocalInv, MemoryInv, UploaderInv, SnapInv, RemoteInv, [Next]_vars
    PROVE  RemoteInv'
<1> USE DEF RemoteInv, RemoteLog
<1>1. CASE Start
  BY <1>1 DEF Start, Goto, LocalInv
<1>2. CASE DownloadLog
  BY <1>2 DEF DownloadLog, Off, Goto
<1>3. CASE DownloadManifest \/ Load
  BY <1>3 DEF DownloadManifest, Load, Off, Goto
<1>4. CASE Decide
  BY <1>4 DEF Decide, Begin, Reset, Off
<1>5. CASE CheckDestination \/ ListKey \/ EndScan
  BY <1>5 DEF CheckDestination, ListKey, EndScan, Goto
<1>6. CASE RunReturns \/ Crash \/ LoseMachine
  BY <1>6 DEF RunReturns, Crash, LoseMachine, Off
<1>7. ASSUME NEW k \in Keys, Transfer(k) \/ ChangeSource(k) PROVE RemoteInv'
  BY <1>7 DEF Transfer, ChangeSource
<1>8. ASSUME NEW k \in Keys, MarkCompleted(k) PROVE RemoteInv'
  BY <1>8 DEF MarkCompleted, Transferring
<1>9. CASE Tick \/ StopSync
  BY <1>9 DEF Tick, UploadReads, StopSync, Goto
<1>10. CASE PeriodicUpload
  <2>1. log' = log /\ pc' = pc /\ pc \in {"check", "mark", "scan", "stop"}
    BY <1>10 DEF PeriodicUpload
  <2>2. CASE CommitLog
    BY <2>1, <2>2 DEF CommitLog, SnapInv
  <2>3. CASE UNCHANGED <<rlog, forgotten>>
    BY <2>1, <2>3
  <2>4. CASE UploadFails
    BY <2>1, <2>4 DEF SnapInv
  <2> QED
    BY <1>10, <2>2, <2>3, <2>4 DEF PeriodicUpload, CommitManifest
<1>11. CASE FinalUpload
  <2>1. CASE CommitLog
    BY <1>11, <2>1 DEF FinalUpload, CommitLog, SnapInv
  <2>2. CASE ~CommitLog
    BY <1>11, <2>2 DEF FinalUpload, Off
  <2> QED
    BY <2>1, <2>2
<1>12. CASE UNCHANGED vars
  BY <1>12 DEF vars
<1> QED
  BY <1>1, <1>2, <1>3, <1>4, <1>5, <1>6, <1>7, <1>8, <1>9, <1>10, <1>11, <1>12
     DEF Next, Terminated

LEMMA SnapPreserved ==
    ASSUME TypeOK, UploaderInv, SnapInv, [Next]_vars
    PROVE  SnapInv'
<1> USE DEF SnapInv
<1>1. CASE Start \/ DownloadLog \/ DownloadManifest \/ Load \/ Decide
  <2>1. upc' # "log"
    BY <1>1 DEF Start, DownloadLog, DownloadManifest, Load, Decide, Begin, Off, Goto,
                UploaderInv, Early
  <2> QED
    BY <2>1
<1>2. CASE CheckDestination
  BY <1>2 DEF CheckDestination
<1>3. CASE ListKey \/ EndScan
  BY <1>3 DEF ListKey, EndScan
<1>4. CASE RunReturns \/ Crash \/ LoseMachine
  BY <1>4 DEF RunReturns, Crash, LoseMachine, Off
<1>5. ASSUME NEW k \in Keys, Transfer(k) \/ ChangeSource(k) PROVE SnapInv'
  BY <1>5 DEF Transfer, ChangeSource
<1>6. ASSUME NEW k \in Keys, MarkCompleted(k) PROVE SnapInv'
  BY <1>6 DEF MarkCompleted
<1>7. CASE Tick \/ StopSync
  BY <1>7 DEF Tick, UploadReads, StopSync
<1>8. CASE PeriodicUpload \/ FinalUpload
  <2>1. upc' # "log"
    BY <1>8 DEF PeriodicUpload, FinalUpload, CommitLog, CommitManifest, Off
  <2> QED
    BY <2>1
<1>9. CASE UNCHANGED vars
  BY <1>9 DEF vars
<1> QED
  BY <1>1, <1>2, <1>3, <1>4, <1>5, <1>6, <1>7, <1>8, <1>9 DEF Next, Terminated

Base == TypeOK /\ CountInv /\ FilesInv /\ QueueInv /\ StoredInv

(* A key that waits for its transfer is in no record that counts.          *)
LEMMA PendingUnrecorded ==
    ASSUME Base, NEW k \in Keys, Transfer(k)
    PROVE  k \notin Recorded \ forgotten
<1>1. pc \in {"scan", "stop", "final"} /\ k \in pending
  BY DEF Transfer, Transferring
<1>2. k \notin completed /\ completed = log
  BY <1>1 DEF Base, FilesInv, QueueInv, MemoryInv
<1>3. RemoteLog \subseteq log \cup forgotten
  BY <1>1 DEF Base, FilesInv, RemoteInv
<1> QED
  BY <1>2, <1>3 DEF Recorded

LEMMA BaseInit == Init => Base
<1>1. SUFFICES ASSUME Init PROVE Base
  OBVIOUS
<1>2. TypeOK /\ CountInv /\ UploaderInv
  BY <1>1, TypeInit
<1>3. LocalInv /\ MemoryInv /\ RemoteInv /\ SnapInv
  BY <1>1 DEF Init, LocalInv, MemoryInv, RemoteInv, SnapInv
<1>4. QueueInv /\ StoredInv
  BY <1>1 DEF Init, QueueInv, StoredInv
<1> QED
  BY <1>2, <1>3, <1>4 DEF Base, FilesInv

LEMMA BasePreserved == Base /\ [Next]_vars => Base'
BY CountPreserved, UploaderPreserved, DataType, ManifestType, ControlType, NumberType,
   TypeParts, LocalPreserved, MemoryPreserved, QueuePreserved, StoredPreserved,
   RemotePreserved, SnapPreserved
   DEF Base, FilesInv

(* Committing the log is the only step that makes keys count again which a *)
(* --force reset had dropped: those the upload does not hold.              *)
LEMMA CommitSound ==
    ASSUME LedgerSound, CommitLog, SnapInv, log' = log, completed = log,
           completed' \subseteq completed, UNCHANGED <<dest, vouched>>
    PROVE  LedgerSound'
<1>1. RemoteLog' \subseteq snap
  BY DEF CommitLog, RemoteLog
<1>2. snap \subseteq log /\ (log \cap forgotten) \ vouched \subseteq snap
  BY DEF CommitLog, SnapInv
<1>3. ASSUME NEW k \in (Recorded \ (vouched \cup forgotten))' PROVE dest'[k] = "good"
  <2>1. k \in log /\ k \notin vouched
    BY <1>1, <1>2, <1>3 DEF Recorded
  <2>2. k \notin forgotten
    BY <1>2, <1>3, <2>1 DEF CommitLog
  <2> QED
    BY <2>1, <2>2 DEF LedgerSound, Recorded
<1> QED
  BY <1>3 DEF LedgerSound

(* After an upload that failed the remote log is as it was, or a part of   *)
(* the local one.                                                          *)
LEMMA FailedUploadRecords ==
    ASSUME UploadFails, SnapInv, log' = log, completed' \subseteq completed
    PROVE  Recorded' \subseteq Recorded /\ forgotten' = forgotten
<1>1. RemoteLog' = RemoteLog \/ RemoteLog' \subseteq log
  BY DEF RemoteLog, SnapInv
<1> QED
  BY <1>1 DEF Recorded

LEMMA LedgerPreserved ==
    ASSUME Base, LedgerSound, [Next]_vars
    PROVE  LedgerSound'
<1> USE DEF LedgerSound, Recorded, RemoteLog
<1>0. DataTypeOK
  BY TypeParts DEF Base
<1>1. CASE Start \/ ListKey \/ EndScan \/ Tick \/ StopSync
  BY <1>1 DEF Start, ListKey, EndScan, Tick, UploadReads, StopSync
<1>2. CASE DownloadLog
  BY <1>2 DEF DownloadLog, Off
<1>3. CASE DownloadManifest \/ Load
  BY <1>3 DEF DownloadManifest, Load, Off
<1>4. CASE Decide
  BY <1>4 DEF Decide, Begin, Reset, Off
<1>5. CASE CheckDestination
  BY <1>5 DEF CheckDestination
<1>6. CASE RunReturns \/ Crash \/ LoseMachine
  BY <1>6 DEF RunReturns, Crash, LoseMachine, Off
<1>7. ASSUME NEW k \in Keys, Transfer(k) PROVE LedgerSound'
  <2>1. k \notin Recorded \ forgotten
    BY <1>7, PendingUnrecorded
  <2>2. Recorded' = Recorded /\ UNCHANGED <<vouched, forgotten>>
    BY <1>7 DEF Transfer
  <2>3. \A j \in Keys \ {k} : dest'[j] = dest[j]
    BY <1>0, <1>7 DEF Transfer, DataTypeOK
  <2>4. Recorded \subseteq Keys
    BY <1>0 DEF DataTypeOK
  <2> QED
    BY <2>1, <2>2, <2>3, <2>4
<1>8. ASSUME NEW k \in Keys, MarkCompleted(k) PROVE LedgerSound'
  <2>1. dest[k] = "good"
    BY <1>8 DEF MarkCompleted, Base, StoredInv
  <2> QED
    BY <1>8, <2>1 DEF MarkCompleted
<1>9. ASSUME NEW k \in Keys, ChangeSource(k) PROVE LedgerSound'
  BY <1>9 DEF ChangeSource
<1>10. CASE PeriodicUpload
  <2>1. completed = log /\ SnapInv
    BY <1>10 DEF PeriodicUpload, Base, FilesInv, MemoryInv
  <2>2. UNCHANGED <<log, completed, dest, vouched>>
    BY <1>10 DEF PeriodicUpload
  <2>3. CASE CommitLog
    BY <2>1, <2>2, <2>3, CommitSound
  <2>4. CASE UNCHANGED <<rlog, forgotten>>
    BY <2>2, <2>4
  <2>5. CASE UploadFails
    BY <2>1, <2>2, <2>5, FailedUploadRecords
  <2> QED
    BY <1>10, <2>3, <2>4, <2>5 DEF PeriodicUpload, CommitManifest
<1>11. CASE FinalUpload
  <2>1. completed = log /\ SnapInv
    BY <1>11 DEF FinalUpload, Base, FilesInv, MemoryInv
  <2>2. UNCHANGED <<log, dest, vouched>> /\ completed' \subseteq completed
    BY <1>11 DEF FinalUpload, Off
  <2>3. CASE CommitLog
    BY <2>1, <2>2, <2>3, CommitSound
  <2>4. CASE UNCHANGED <<rlog, forgotten>>
    BY <2>2, <2>4
  <2>5. CASE UploadFails
    BY <2>1, <2>2, <2>5, FailedUploadRecords
  <2> QED
    BY <1>11, <2>3, <2>4, <2>5 DEF FinalUpload
<1>12. CASE UNCHANGED vars
  BY <1>12 DEF vars
<1> QED
  BY <1>1, <1>2, <1>3, <1>4, <1>5, <1>6, <1>7, <1>8, <1>9, <1>10, <1>11, <1>12
     DEF Next, Terminated

(* Whatever the crashes, lost machines, interrupted synchronisations and   *)
(* --force resets, a recorded key has a verified object in the destination *)
(* unless --check-destination vouched for it, or --force dropped it and no *)
(* later upload replaced the remote log (state_gcs.go:84-146).             *)
THEOREM RecordedIsStored == Spec => []LedgerSound
<1>1. Init => Base /\ LedgerSound
  BY BaseInit DEF Init, LedgerSound, Recorded, RemoteLog
<1>2. Base /\ LedgerSound /\ [Next]_vars => (Base /\ LedgerSound)'
  BY BasePreserved, LedgerPreserved
<1> QED
  BY <1>1, <1>2, PTL DEF Spec

(* No step of any run touches the destination object of a key while it is  *)
(* recorded somewhere and --force has not dropped it; nothing is said of   *)
(* keys that a download has dropped from the log.                          *)
THEOREM NothingIsTransferredAgain == Spec => RecordedUntouched
<1>1. Base /\ [Next]_vars => [\A k \in Recorded \ forgotten : dest'[k] = dest[k]]_vars
  <2>1. SUFFICES ASSUME Base, Next PROVE \A k \in Recorded \ forgotten : dest'[k] = dest[k]
    OBVIOUS
  <2>2. DataTypeOK
    BY <2>1, TypeParts DEF Base
  <2>3. ASSUME NEW k \in Keys, Transfer(k)
        PROVE  \A j \in Recorded \ forgotten : dest'[j] = dest[j]
    <3>1. k \notin Recorded \ forgotten
      BY <2>1, <2>3, PendingUnrecorded
    <3>2. \A j \in Keys \ {k} : dest'[j] = dest[j]
      BY <2>2, <2>3 DEF Transfer, DataTypeOK
    <3>3. Recorded \subseteq Keys
      BY <2>2 DEF DataTypeOK, Recorded, RemoteLog
    <3> QED
      BY <3>1, <3>2, <3>3
  <2>4. CASE \A k \in Keys : ~Transfer(k)
    <3>1. dest' = dest
      BY <2>1, <2>4
         DEF Next, Start, DownloadLog, DownloadManifest, Load, Decide, CheckDestination,
             ListKey, EndScan, MarkCompleted, ChangeSource, Tick, UploadReads,
             PeriodicUpload, RunReturns, StopSync, FinalUpload, Crash, LoseMachine,
             Terminated, vars
    <3> QED
      BY <3>1
  <2> QED
    BY <2>3, <2>4
<1> QED
  BY <1>1, BaseInit, BasePreserved, PTL DEF Spec, RecordedUntouched

-----------------------------------------------------------------------------
(* The final upload is the last one.  While it runs the files it has read  *)
(* stay as they are, but for the keys that transfers left running record.  *)
FinalInv ==
    /\ pc = "final" /\ upc = "log" => snap \subseteq log /\ log \ snap \subseteq late
    /\ pc = "final" /\ upc = "manifest" =>
           rlog \subseteq log /\ log \ rlog \subseteq late /\ snap = man
    /\ result = "synced" => pc = "off" /\ FinalSyncIsLast

LEMMA FinalPreserved ==
    ASSUME FinalInv, [Next]_vars
    PROVE  FinalInv'
<1> USE DEF FinalInv, FinalSyncIsLast
<1>1. CASE Start \/ DownloadLog \/ DownloadManifest \/ Load
  BY <1>1 DEF Start, DownloadLog, DownloadManifest, Load, Off, Goto
<1>2. CASE Decide
  BY <1>2 DEF Decide, Begin, Off
<1>3. CASE CheckDestination \/ EndScan \/ ListKey
  BY <1>3 DEF CheckDestination, EndScan, ListKey, Goto
<1>4. CASE RunReturns \/ Crash \/ LoseMachine
  BY <1>4 DEF RunReturns, Crash, LoseMachine, Off
<1>5. ASSUME NEW k \in Keys, Transfer(k) \/ ChangeSource(k) PROVE FinalInv'
  BY <1>5 DEF Transfer, ChangeSource, Transferring
<1>6. ASSUME NEW k \in Keys, MarkCompleted(k) PROVE FinalInv'
  BY <1>6 DEF MarkCompleted, Transferring
<1>7. CASE Tick \/ PeriodicUpload
  BY <1>7 DEF Tick, UploadReads, PeriodicUpload
<1>8. CASE StopSync
  BY <1>8 DEF StopSync, Goto
<1>9. CASE FinalUpload
  BY <1>9 DEF FinalUpload, CommitLog, Off
<1>10. CASE UNCHANGED vars
  BY <1>10 DEF vars
<1> QED
  BY <1>1, <1>2, <1>3, <1>4, <1>5, <1>6, <1>7, <1>8, <1>9, <1>10 DEF Next, Terminated

(* After a run whose final upload succeeded, the remote files are the      *)
(* local ones, but for the keys recorded during that upload                *)
(* (README.md:262): no upload of the periodic goroutine lands after it.    *)
THEOREM FinalUploadWins == Spec => []FinalSyncIsLast
<1>1. Init => FinalInv
  BY DEF Init, FinalInv
<1>2. FinalInv /\ [Next]_vars => FinalInv'
  BY FinalPreserved
<1>3. FinalInv => FinalSyncIsLast
  BY DEF FinalInv, FinalSyncIsLast
<1> QED
  BY <1>1, <1>2, <1>3, PTL DEF Spec

-----------------------------------------------------------------------------
(* "Already complete" is true.  As long as the source has not changed and  *)
(* what --check-destination took over belongs to it, only keys of the      *)
(* source are recorded, and the manifests count at least what the source   *)
(* holds under their prefix: when the counts agree, the sets do.           *)
Untouched == changes = 0 /\ vouched \subseteq source

SourceInv ==
    Untouched =>
        /\ log \cup completed \cup RemoteLog \cup pending \cup stored \subseteq source
        /\ upc = "log" => snap \subseteq source

Accurate(m, objects) == m \in Manifests => Cardinality(objects \cap m.prefix) <= m.total
Listed == {k \in source \cap flags.prefix : k < next}

ManifestInv ==
    Untouched =>
        /\ Accurate(man, source) /\ Accurate(rman, source) /\ Accurate(manifest, source)
        /\ upc = "manifest" => Accurate(snap, source)

ListedInv == Untouched => Cardinality(Listed) <= total

CompleteInv ==
    /\ pc = "off" => next = 0
    /\ pc = "decide" /\ manifest # NoFile => manifest.prefix = flags.prefix
    /\ result = "complete" => pc = "off" /\ (Untouched => source \cap flags.prefix \subseteq log)

LEMMA UntouchedBefore ==
    ASSUME TypeOK, [Next]_vars, Untouched'
    PROVE  Untouched /\ source' = source
<1>1. changes \in Nat
  BY TypeParts, ResumeAssumption DEF NumberTypeOK
<1> USE DEF Untouched
<1>2. ASSUME NEW k \in Keys, ChangeSource(k) PROVE FALSE
  BY <1>1, <1>2 DEF ChangeSource
<1>3. CASE CheckDestination
  BY <1>3 DEF CheckDestination
<1>4. CASE ~CheckDestination /\ \A k \in Keys : ~ChangeSource(k)
  BY <1>4 DEF Next, Start, DownloadLog, DownloadManifest, Load, Decide, ListKey, EndScan,
         Transfer, MarkCompleted, Tick, UploadReads, PeriodicUpload, RunReturns, StopSync,
         FinalUpload, Crash, LoseMachine, Terminated, vars
<1> QED
  BY <1>2, <1>3, <1>4

LEMMA SourcePreserved ==
    ASSUME TypeOK, SourceInv, UploaderInv, [Next]_vars
    PROVE  SourceInv'
<1>0. SUFFICES ASSUME Untouched'
               PROVE  /\ log' \cup completed' \cup RemoteLog' \cup pending' \cup stored' \subseteq source'
                      /\ upc' = "log" => snap' \subseteq source'
  BY DEF SourceInv
<1>a. Untouched /\ source' = source /\ SourceInv
  BY <1>0, UntouchedBefore
<1> USE <1>a DEF SourceInv, RemoteLog
<1>1. CASE Start \/ DownloadManifest \/ Load
  BY <1>1 DEF Start, DownloadManifest, Load, Off, Goto
<1>2. CASE DownloadLog
  BY <1>2 DEF DownloadLog, Off, Goto
<1>3. CASE Decide
  BY <1>3 DEF Decide, Begin, Reset, Off, UploaderInv, Early
<1>4. CASE CheckDestination
  <2>1. CASE MarkMatching
    <3>1. PICK k : /\ completed' = completed \cup {k} /\ log' = log \cup {k}
                   /\ vouched' = vouched \cup {k}
      BY <2>1
    <3>2. k \in source
      BY <1>0, <3>1 DEF Untouched
    <3> QED
      BY <2>1, <3>1, <3>2
  <2>2. CASE ListDestination \/ AllMarked
    BY <2>2 DEF Goto
  <2> QED
    BY <1>4, <2>1, <2>2 DEF CheckDestination
<1>5. CASE ListKey \/ EndScan
  BY <1>5 DEF ListKey, EndScan, Unlisted
<1>6. CASE RunReturns \/ Crash \/ LoseMachine
  BY <1>6 DEF RunReturns, Crash, LoseMachine, Off
<1>7. ASSUME NEW k \in Keys, Transfer(k) \/ ChangeSource(k)
      PROVE  /\ log' \cup completed' \cup RemoteLog' \cup pending' \cup stored' \subseteq source'
             /\ upc' = "log" => snap' \subseteq source'
  BY <1>7 DEF Transfer, ChangeSource
<1>8. ASSUME NEW k \in Keys, MarkCompleted(k)
      PROVE  /\ log' \cup completed' \cup RemoteLog' \cup pending' \cup stored' \subseteq source'
             /\ upc' = "log" => snap' \subseteq source'
  BY <1>8 DEF MarkCompleted
<1>9. CASE Tick \/ StopSync
  BY <1>9 DEF Tick, UploadReads, StopSync
<1>10. CASE PeriodicUpload \/ FinalUpload
  BY <1>10 DEF PeriodicUpload, FinalUpload, CommitLog, CommitManifest, Off
<1>11. CASE UNCHANGED vars
  BY <1>11 DEF vars
<1> QED
  BY <1>1, <1>2, <1>3, <1>4, <1>5, <1>6, <1>7, <1>8, <1>9, <1>10, <1>11
     DEF Next, Terminated

LEMMA ListedPreserved ==
    ASSUME TypeOK, ListedInv, CompleteInv, [Next]_vars
    PROVE  ListedInv'
<1>0. SUFFICES ASSUME Untouched' PROVE Cardinality(Listed') <= total'
  BY DEF ListedInv
<1>a. source' = source /\ Cardinality(Listed) <= total
  BY <1>0, UntouchedBefore DEF ListedInv
<1>b. /\ Keys \subseteq Nat /\ source \in SUBSET Keys /\ next \in Nat /\ total \in Nat
  BY KeysAreFinite, TypeParts DEF TypeOK, DataTypeOK, NumberTypeOK
<1>c. ASSUME next' = 0, total' \in Nat PROVE Cardinality(Listed') <= total'
  <2>1. ASSUME NEW k \in Listed' PROVE FALSE
    <3>1. k \in source /\ k < 0
      BY <1>a, <1>c, <2>1 DEF Listed
    <3>2. k \in Nat
      BY <1>b, <3>1
    <3> QED
      BY <3>1, <3>2
  <2>2. Listed' = {}
    BY <2>1
  <2> QED
    BY <1>c, <2>2, FS_EmptySet
<1>d. ASSUME UNCHANGED <<next, total, flags>> PROVE Cardinality(Listed') <= total'
  BY <1>a, <1>d DEF Listed
<1>1. CASE ListKey
  <2>1. PICK k \in Unlisted : /\ \A j \in Unlisted : k <= j
                              /\ next' = k + 1 /\ total' = total + 1
    BY <1>1 DEF ListKey
  <2>2. flags' = flags /\ k \in Nat /\ k >= next /\ k \in source \cap flags.prefix
    BY <1>1, <1>b, <2>1 DEF ListKey, Unlisted
  <2>3. ASSUME NEW j \in source \cap flags.prefix, j < k + 1 PROVE j \in Listed \cup {k}
    <3>1. j \in Nat
      BY <1>b, <2>3
    <3>2. CASE j < next
      BY <2>3, <3>2 DEF Listed
    <3>3. CASE j >= next
      <4>1. j \in Unlisted
        BY <2>3, <3>3 DEF Unlisted
      <4> QED
        BY <2>1, <2>2, <2>3, <3>1, <4>1
    <3> QED
      BY <1>b, <3>1, <3>2, <3>3
  <2>4. Listed' \subseteq Listed \cup {k}
    BY <1>a, <2>1, <2>2, <2>3 DEF Listed
  <2>5. PICK S \in SUBSET Keys, T \in SUBSET Keys : S = Listed /\ T = Listed'
    BY <1>a, <1>b DEF Listed
  <2>6. IsFiniteSet(S) /\ Cardinality(S) \in Nat /\ Cardinality(T) \in Nat
    BY KeysAreFinite
  <2>7. /\ IsFiniteSet(S \cup {k})
        /\ Cardinality(S \cup {k}) = Cardinality(S) \/ Cardinality(S \cup {k}) = Cardinality(S) + 1
    <3>1. CASE k \in S
      <4>1. S \cup {k} = S
        BY <3>1
      <4> QED
        BY <2>6, <4>1
    <3>2. CASE k \notin S
      BY <2>6, <3>2, FS_AddElement
    <3> QED
      BY <3>1, <3>2
  <2>8. Cardinality(T) <= Cardinality(S \cup {k})
    BY <2>4, <2>5, <2>7, FS_Subset
  <2>9. Cardinality(S) <= total
    BY <1>a, <2>5
  <2>10. Cardinality(T) <= total'
    BY <1>b, <2>1, <2>6, <2>7, <2>8, <2>9
  <2> QED
    BY <2>5, <2>10
<1>2. CASE Start
  BY <1>2, <1>b, <1>c DEF Start, Goto, CompleteInv
<1>3. CASE \/ CheckDestination \/ EndScan \/ Tick \/ PeriodicUpload \/ StopSync
  BY <1>3, <1>d
     DEF CheckDestination, EndScan, Tick, UploadReads, PeriodicUpload, StopSync
<1>4. ASSUME NEW k \in Keys, Transfer(k) \/ MarkCompleted(k) \/ ChangeSource(k)
      PROVE  Cardinality(Listed') <= total'
  BY <1>4, <1>d DEF Transfer, MarkCompleted, ChangeSource
<1>5. CASE \/ DownloadLog \/ DownloadManifest \/ Load \/ Decide \/ RunReturns
           \/ FinalUpload \/ Crash \/ LoseMachine
  BY <1>5, <1>c, <1>d
     DEF DownloadLog, DownloadManifest, Load, Decide, Begin, RunReturns, FinalUpload,
         Crash, LoseMachine, Off
<1>6. CASE UNCHANGED vars
  BY <1>6, <1>d DEF vars
<1> QED
  BY <1>1, <1>2, <1>3, <1>4, <1>5, <1>6 DEF Next, Terminated

LEMMA ManifestPreserved ==
    ASSUME TypeOK, ManifestInv, ListedInv, [Next]_vars
    PROVE  ManifestInv'
<1>0. SUFFICES ASSUME Untouched'
               PROVE  /\ Accurate(man', source) /\ Accurate(rman', source)
                      /\ Accurate(manifest', source)
                      /\ upc' = "manifest" => Accurate(snap', source)
  BY UntouchedBefore DEF ManifestInv, Accurate
<1>a. Untouched /\ source' = source
  BY <1>0, UntouchedBefore
<1>b. Accurate(NoFile, source) /\ Accurate(Corrupt, source)
  BY NoFileAssumption DEF Accurate
<1> USE <1>a, <1>b DEF ManifestInv
<1> DEFINE Goal == /\ Accurate(man', source) /\ Accurate(rman', source)
                   /\ Accurate(manifest', source)
                   /\ upc' = "manifest" => Accurate(snap', source)
<1>1. CASE Start \/ DownloadLog \/ Crash \/ LoseMachine \/ RunReturns
  BY <1>1 DEF Start, DownloadLog, Crash, LoseMachine, RunReturns, Off
<1>2. CASE DownloadManifest
  BY <1>2 DEF DownloadManifest, Off
<1>3. CASE Load
  BY <1>3 DEF Load, LoadedManifest, Off
<1>4. CASE Decide
  BY <1>4 DEF Decide, Begin, Off
<1>5. CASE EndScan
  <2>1. CASE man' = man
    BY <1>5, <2>1 DEF EndScan
  <2>2. CASE man' = [total |-> total, prefix |-> flags.prefix]
    <3>1. Keys \subseteq Nat /\ source \subseteq Keys /\ next \in Nat
      BY KeysAreFinite, TypeParts DEF DataTypeOK, NumberTypeOK
    <3>2. ASSUME NEW k \in source \cap flags.prefix PROVE k \in Listed
      <4>1. k \notin Unlisted
        BY <1>5 DEF EndScan
      <4>2. k \in Nat /\ ~(k >= next)
        BY <3>1, <3>2, <4>1 DEF Unlisted
      <4> QED
        BY <3>1, <3>2, <4>2 DEF Listed
    <3>3. source \cap flags.prefix = Listed
      BY <3>2 DEF Listed
    <3>4. Cardinality(source \cap flags.prefix) <= total
      BY <3>3 DEF ListedInv
    <3>5. Accurate(man', source)
      BY <2>2, <3>4 DEF Accurate
    <3> QED
      BY <1>5, <3>5 DEF EndScan
  <2> QED
    BY <1>5, <2>1, <2>2 DEF EndScan
<1>6. CASE CheckDestination \/ ListKey
  BY <1>6 DEF CheckDestination, ListKey
<1>7. ASSUME NEW k \in Keys, Transfer(k) \/ MarkCompleted(k) \/ ChangeSource(k)
      PROVE  Goal
  BY <1>7 DEF Transfer, MarkCompleted, ChangeSource
<1>8. CASE Tick \/ StopSync
  BY <1>8 DEF Tick, UploadReads, StopSync
<1>9. CASE PeriodicUpload \/ FinalUpload
  BY <1>9 DEF PeriodicUpload, FinalUpload, CommitLog, CommitManifest, Off
<1>10. CASE UNCHANGED vars
  BY <1>10 DEF vars
<1> QED
  BY <1>1, <1>2, <1>3, <1>4, <1>5, <1>6, <1>7, <1>8, <1>9, <1>10 DEF Next, Terminated

LEMMA EnoughAreAll ==
    ASSUME NEW S \in SUBSET Keys, NEW T, T \subseteq S, Cardinality(S) <= Cardinality(T)
    PROVE  T = S
<1>1. IsFiniteSet(S) /\ Cardinality(S) \in Nat /\ T \in SUBSET Keys
  BY KeysAreFinite
<1>2. Cardinality(T) \in Nat /\ Cardinality(T) <= Cardinality(S)
  BY <1>1, KeysAreFinite, FS_Subset
<1> QED
  BY <1>1, <1>2, FS_Subset

(* The decision compares two counts; the sets they count are the same.     *)
LEMMA CountsDecide ==
    ASSUME TypeOK, SourceInv, ManifestInv, CompleteInv, MemoryInv, Untouched,
           pc = "decide", AlreadyComplete
    PROVE  source \cap flags.prefix \subseteq log
<1>1. manifest \in Manifests /\ manifest.prefix = flags.prefix
  BY TypeParts DEF AlreadyComplete, CompleteInv, ManifestTypeOK
<1>2. PICK S \in SUBSET Keys : S = source \cap flags.prefix
  BY TypeParts DEF DataTypeOK
<1>3. PICK T \in SUBSET Keys : T = completed \cap flags.prefix
  BY TypeParts DEF DataTypeOK
<1>4. T \subseteq S
  BY <1>2, <1>3 DEF SourceInv
<1>5. Cardinality(S) <= manifest.total /\ manifest.total <= Cardinality(T)
  BY <1>1, <1>2, <1>3 DEF ManifestInv, Accurate, AlreadyComplete, CompletedCountForPrefix
<1>6. manifest.total \in Nat /\ Cardinality(S) \in Nat /\ Cardinality(T) \in Nat
  BY <1>1, KeysAreFinite DEF Manifests
<1>7. T = S
  BY <1>4, <1>5, <1>6, EnoughAreAll
<1>8. completed = log
  BY DEF MemoryInv, Early
<1> QED
  BY <1>2, <1>3, <1>7, <1>8

LEMMA CompletePreserved ==
    ASSUME TypeOK, SourceInv, ManifestInv, MemoryInv, CompleteInv, [Next]_vars
    PROVE  CompleteInv'
<1>0. Untouched' => Untouched /\ source' = source
  BY UntouchedBefore
<1> USE DEF CompleteInv
<1>1. CASE Start
  BY <1>1 DEF Start, Goto
<1>2. CASE DownloadLog \/ DownloadManifest
  BY <1>2 DEF DownloadLog, DownloadManifest, Off, Goto
<1>3. CASE Load
  BY <1>3 DEF Load, LoadedManifest, Off
<1>4. CASE Decide
  <2>1. CASE AlreadyComplete /\ ~flags.force
    <3>1. /\ pc' = "off" /\ next' = 0 /\ result' = "complete"
          /\ UNCHANGED <<log, flags, changes, vouched>> /\ pc = "decide"
      BY <1>4, <2>1 DEF Decide, Off
    <3>2. Untouched' => source' \cap flags'.prefix \subseteq log'
      BY <1>0, <2>1, <3>1, CountsDecide
    <3> QED
      BY <3>1, <3>2
  <2>2. CASE ~(AlreadyComplete /\ ~flags.force)
    BY <1>4, <2>2 DEF Decide, Begin
  <2> QED
    BY <2>1, <2>2
<1>5. CASE CheckDestination \/ EndScan \/ ListKey
  BY <1>5 DEF CheckDestination, EndScan, ListKey, Goto
<1>6. CASE RunReturns \/ Crash \/ LoseMachine
  BY <1>6 DEF RunReturns, Crash, LoseMachine, Off
<1>7. ASSUME NEW k \in Keys, Transfer(k) PROVE CompleteInv'
  BY <1>7 DEF Transfer, Transferring
<1>8. ASSUME NEW k \in Keys, MarkCompleted(k) PROVE CompleteInv'
  BY <1>8 DEF MarkCompleted, Transferring
<1>9. ASSUME NEW k \in Keys, ChangeSource(k) PROVE CompleteInv'
  BY <1>0, <1>9 DEF ChangeSource
<1>10. CASE Tick \/ StopSync
  BY <1>10 DEF Tick, UploadReads, StopSync, Goto
<1>11. CASE PeriodicUpload \/ FinalUpload
  BY <1>11 DEF PeriodicUpload, FinalUpload, CommitLog, CommitManifest, Off
<1>12. CASE UNCHANGED vars
  BY <1>0, <1>12 DEF vars
<1> QED
  BY <1>1, <1>2, <1>3, <1>4, <1>5, <1>6, <1>7, <1>8, <1>9, <1>10, <1>11, <1>12
     DEF Next, Terminated

CompletionInv == SourceInv /\ ManifestInv /\ ListedInv /\ CompleteInv

LEMMA CompletionInit == Init => CompletionInv
<1>1. SUFFICES ASSUME Init PROVE CompletionInv
  OBVIOUS
<1>2. SourceInv
  BY <1>1 DEF Init, SourceInv, RemoteLog
<1>3. ManifestInv
  BY <1>1, NoFileAssumption DEF Init, ManifestInv, Accurate
<1>4. ListedInv
  <2>1. ASSUME NEW k \in Listed PROVE FALSE
    <3>1. k \in source /\ k < 0 /\ source \subseteq Keys
      BY <1>1, <2>1 DEF Init, Listed
    <3>2. k \in Nat
      BY <3>1, KeysAreFinite
    <3> QED
      BY <3>1, <3>2
  <2>2. Listed = {}
    BY <2>1
  <2> QED
    BY <1>1, <2>2, FS_EmptySet DEF Init, ListedInv
<1>5. CompleteInv
  BY <1>1 DEF Init, CompleteInv
<1> QED
  BY <1>2, <1>3, <1>4, <1>5 DEF CompletionInv

(* A run that ends with "migration already complete" is right, although it *)
(* only compares two counts (main.go:383-391): every object under the      *)
(* prefix has been transferred, as long as the source has not changed and  *)
(* --check-destination was not used.                                       *)
THEOREM CompleteIsComplete == Spec => []AlreadyCompleteSound
<1>1. Init => Base /\ LedgerSound /\ CompletionInv
  BY BaseInit, CompletionInit DEF Init, LedgerSound, Recorded, RemoteLog
<1>2. Base /\ LedgerSound /\ CompletionInv /\ [Next]_vars => (Base /\ LedgerSound /\ CompletionInv)'
  <2>1. Base /\ LedgerSound /\ [Next]_vars => (Base /\ LedgerSound)'
    BY BasePreserved, LedgerPreserved
  <2>2. Base /\ CompletionInv /\ [Next]_vars => CompletionInv'
    BY SourcePreserved, ManifestPreserved, ListedPreserved, CompletePreserved
       DEF Base, FilesInv, CompletionInv
  <2> QED
    BY <2>1, <2>2
<1>3. LedgerSound /\ CompletionInv => AlreadyCompleteSound
  BY DEF LedgerSound, Recorded, CompletionInv, CompleteInv, Untouched, AlreadyCompleteSound
<1> QED
  BY <1>1, <1>2, <1>3, PTL DEF Spec

-----------------------------------------------------------------------------
(* A recorded object exists.  What --check-destination takes over may be   *)
(* of any content, but it is there, and stays there as long as the key     *)
(* counts as recorded; a key that the log holds, that --force had dropped  *)
(* and that the upload under way has not read, was taken over since.       *)
PresentInv == \A k \in Recorded \ forgotten : dest[k] # "absent"

SnapPresentInv ==
    upc = "log" => \A k \in (log \cap forgotten) \ snap : dest[k] # "absent"

LEMMA CheckedArePresent ==
    ASSUME TypeOK, NEW k \in DestinationObjects
    PROVE  dest[k] # "absent"
BY DEF DestinationObjects, ListObjects, DestSizes

LEMMA CommitPresent ==
    ASSUME PresentInv, SnapPresentInv, CommitLog, SnapInv, log' = log, completed = log,
           completed' \subseteq completed, UNCHANGED dest
    PROVE  PresentInv'
<1>1. ASSUME NEW k \in (Recorded \ forgotten)' PROVE dest'[k] # "absent"
  <2>1. RemoteLog' \subseteq log
    BY DEF CommitLog, RemoteLog, SnapInv
  <2>2. k \in log
    BY <1>1, <2>1 DEF Recorded
  <2>3. CASE k \in forgotten
    BY <1>1, <2>2, <2>3 DEF CommitLog, SnapPresentInv
  <2>4. CASE k \notin forgotten
    BY <2>2, <2>4 DEF PresentInv, Recorded
  <2> QED
    BY <2>3, <2>4
<1> QED
  BY <1>1 DEF PresentInv

LEMMA PresentPreserved ==
    ASSUME Base, PresentInv, SnapPresentInv, [Next]_vars
    PROVE  PresentInv'
<1> USE DEF PresentInv, Recorded, RemoteLog
<1>0. DataTypeOK /\ TypeOK
  BY TypeParts DEF Base
<1>1. CASE Start \/ ListKey \/ EndScan \/ Tick \/ StopSync
  BY <1>1 DEF Start, ListKey, EndScan, Tick, UploadReads, StopSync
<1>2. CASE DownloadLog
  BY <1>2 DEF DownloadLog, Off
<1>3. CASE DownloadManifest \/ Load
  BY <1>3 DEF DownloadManifest, Load, Off
<1>4. CASE Decide
  BY <1>4 DEF Decide, Begin, Reset, Off
<1>5. CASE CheckDestination
  BY <1>0, <1>5, CheckedArePresent DEF CheckDestination
<1>6. CASE RunReturns \/ Crash \/ LoseMachine
  BY <1>6 DEF RunReturns, Crash, LoseMachine, Off
<1>7. ASSUME NEW k \in Keys, Transfer(k) PROVE PresentInv'
  <2>1. k \notin Recorded \ forgotten
    BY <1>7, PendingUnrecorded
  <2>2. Recorded' = Recorded /\ UNCHANGED forgotten
    BY <1>7 DEF Transfer
  <2>3. \A j \in Keys \ {k} : dest'[j] = dest[j]
    BY <1>0, <1>7 DEF Transfer, DataTypeOK
  <2>4. Recorded \subseteq Keys
    BY <1>0 DEF DataTypeOK
  <2> QED
    BY <2>1, <2>2, <2>3, <2>4
<1>8. ASSUME NEW k \in Keys, MarkCompleted(k) PROVE PresentInv'
  <2>1. dest[k] = "good"
    BY <1>8 DEF MarkCompleted, Base, StoredInv
  <2> QED
    BY <1>8, <2>1 DEF MarkCompleted
<1>9. ASSUME NEW k \in Keys, ChangeSource(k) PROVE PresentInv'
  BY <1>9 DEF ChangeSource
<1>10. CASE PeriodicUpload \/ FinalUpload
  <2>1. completed = log /\ SnapInv
    BY <1>10 DEF PeriodicUpload, FinalUpload, Base, FilesInv, MemoryInv
  <2>2. UNCHANGED <<log, dest>> /\ completed' \subseteq completed
    BY <1>10 DEF PeriodicUpload, FinalUpload, Off
  <2>3. CASE CommitLog
    BY <2>1, <2>2, <2>3, CommitPresent
  <2>4. CASE UNCHANGED <<rlog, forgotten>>
    BY <2>2, <2>4
  <2>5. CASE UploadFails
    BY <2>1, <2>2, <2>5, FailedUploadRecords
  <2> QED
    BY <1>10, <2>3, <2>4, <2>5 DEF PeriodicUpload, FinalUpload, CommitManifest
<1>11. CASE UNCHANGED vars
  BY <1>11 DEF vars
<1> QED
  BY <1>1, <1>2, <1>3, <1>4, <1>5, <1>6, <1>7, <1>8, <1>9, <1>10, <1>11 DEF Next, Terminated

LEMMA SnapPresentPreserved ==
    ASSUME Base, SnapPresentInv, [Next]_vars
    PROVE  SnapPresentInv'
<1> USE DEF SnapPresentInv
<1>0. DataTypeOK /\ TypeOK /\ UploaderInv
  BY TypeParts DEF Base, FilesInv
<1>1. CASE Start \/ DownloadLog \/ DownloadManifest \/ Load \/ Decide
  <2>1. upc' # "log"
    BY <1>0, <1>1 DEF Start, DownloadLog, DownloadManifest, Load, Decide, Begin, Off, Goto,
                      UploaderInv, Early
  <2> QED
    BY <2>1
<1>2. CASE CheckDestination
  BY <1>0, <1>2, CheckedArePresent DEF CheckDestination
<1>3. CASE ListKey \/ EndScan
  BY <1>3 DEF ListKey, EndScan
<1>4. CASE RunReturns \/ Crash \/ LoseMachine
  BY <1>4 DEF RunReturns, Crash, LoseMachine, Off
<1>5. ASSUME NEW k \in Keys, Transfer(k) PROVE SnapPresentInv'
  <2>1. k \notin log
    BY <1>5 DEF Transfer, Transferring, Base, FilesInv, MemoryInv, QueueInv
  <2>2. \A j \in Keys \ {k} : dest'[j] = dest[j]
    BY <1>0, <1>5 DEF Transfer, DataTypeOK
  <2>3. UNCHANGED <<upc, log, forgotten, snap>> /\ log \subseteq Keys
    BY <1>0, <1>5 DEF Transfer, DataTypeOK
  <2> QED
    BY <2>1, <2>2, <2>3
<1>6. ASSUME NEW k \in Keys, MarkCompleted(k) \/ ChangeSource(k) PROVE SnapPresentInv'
  BY <1>6 DEF MarkCompleted, ChangeSource
<1>7. CASE Tick \/ StopSync
  BY <1>7 DEF Tick, UploadReads, StopSync
<1>8. CASE PeriodicUpload \/ FinalUpload
  <2>1. upc' # "log"
    BY <1>8 DEF PeriodicUpload, FinalUpload, CommitLog, CommitManifest, Off
  <2> QED
    BY <2>1
<1>9. CASE UNCHANGED vars
  BY <1>9 DEF vars
<1> QED
  BY <1>1, <1>2, <1>3, <1>4, <1>5, <1>6, <1>7, <1>8, <1>9 DEF Next, Terminated

(* --compare after a run that ended as "already complete".                 *)
LEMMA ComparisonOfComplete ==
    ASSUME Base, LedgerSound, CompleteInv, PresentInv
    PROVE  CompareAgrees
<1> SUFFICES ASSUME result = "complete", Untouched, forgotten = {}
             PROVE  LET report == runCompare(SourceSizes, DestSizes, flags.prefix)
                    IN  report.OnlyInSource = {} /\ report.SizeMismatch \subseteq vouched
  BY DEF CompareAgrees, Untouched
<1> DEFINE src == ListObjects(SourceSizes, flags.prefix)
           dst == ListObjects(DestSizes, flags.prefix)
<1>1. source \subseteq Keys
  BY DEF Base, TypeOK
<1>2. ASSUME NEW k \in source \cap flags.prefix
      PROVE  dest[k] # "absent" /\ (k \notin vouched => dest[k] = "good")
  <2>1. k \in Recorded \ forgotten
    BY <1>2 DEF CompleteInv, Recorded
  <2> QED
    BY <2>1 DEF PresentInv, LedgerSound
<1>3. DOMAIN src = source \cap flags.prefix /\ \A k \in DOMAIN src : src[k] = 2
  BY DEF ListObjects, SourceSizes
<1>4. /\ DOMAIN dst = {k \in Keys : dest[k] # "absent"} \cap flags.prefix
      /\ \A k \in DOMAIN dst : dst[k] = IF dest[k] = "good" THEN 2 ELSE 1
  BY DEF ListObjects, DestSizes
<1>5. DOMAIN src \subseteq DOMAIN dst
  BY <1>1, <1>2, <1>3, <1>4
<1>6. ASSUME NEW k \in DOMAIN src \cap DOMAIN dst, src[k] # dst[k] PROVE k \in vouched
  BY <1>2, <1>3, <1>4, <1>6
<1> HIDE DEF src, dst
<1>7. LET report == compareObjects(src, dst)
      IN  report.OnlyInSource = {} /\ report.SizeMismatch \subseteq vouched
  BY <1>5, <1>6 DEF compareObjects
<1> QED
  BY <1>7 DEF runCompare, src, dst

(* When a run ends as "already complete", --compare of the same prefix     *)
(* finds nothing left to transfer, and no wrong size but that of an object *)
(* which --check-destination took over (main.go:383-391,                   *)
(* compare.go:226-263), whatever crashed or failed before, as long as the  *)
(* source has not changed and what was taken over belongs to it.           *)
THEOREM ComparisonAgrees == Spec => []CompareAgrees
<1> DEFINE Inv == Base /\ LedgerSound /\ CompletionInv /\ PresentInv /\ SnapPresentInv
<1>1. Init => Inv
  BY BaseInit, CompletionInit
     DEF Init, LedgerSound, PresentInv, SnapPresentInv, Recorded, RemoteLog
<1>2. Inv /\ [Next]_vars => Inv'
  <2>1. Base /\ LedgerSound /\ [Next]_vars => (Base /\ LedgerSound)'
    BY BasePreserved, LedgerPreserved
  <2>2. Base /\ CompletionInv /\ [Next]_vars => CompletionInv'
    BY SourcePreserved, ManifestPreserved, ListedPreserved, CompletePreserved
       DEF Base, FilesInv, CompletionInv
  <2>3. Base /\ PresentInv /\ SnapPresentInv /\ [Next]_vars => (PresentInv /\ SnapPresentInv)'
    BY PresentPreserved, SnapPresentPreserved
  <2> QED
    BY <2>1, <2>2, <2>3
<1>3. Inv => CompareAgrees
  BY ComparisonOfComplete DEF CompletionInv
<1> QED
  BY <1>1, <1>2, <1>3, PTL DEF Spec

-----------------------------------------------------------------------------
LEMMA SplitCount ==
    ASSUME NEW A, IsFiniteSet(A), NEW B
    PROVE  /\ Cardinality(A \cap B) \in Nat /\ Cardinality(A \ B) \in Nat
           /\ Cardinality(A) = Cardinality(A \cap B) + Cardinality(A \ B)
<1>1. IsFiniteSet(A \cap B) /\ IsFiniteSet(A \ B)
  BY FS_Subset
<1> DEFINE I == A \cap B
           R == A \ B
<1>2. I \cup R = A /\ I \cap R = {} /\ IsFiniteSet(I) /\ IsFiniteSet(R)
  BY <1>1
<1> HIDE DEF I, R
<1>3. Cardinality(I) \in Nat /\ Cardinality(R) \in Nat
  BY <1>2, FS_CardinalityType
<1>4. Cardinality(I \cup R) = Cardinality(I) + Cardinality(R) - Cardinality(I \cap R)
  BY <1>2, FS_Union
<1>5. Cardinality({}) = 0
  BY FS_EmptySet
<1>6. Cardinality(A) = Cardinality(I) + Cardinality(R)
  <2>1. Cardinality(I \cup R) = Cardinality(A) /\ Cardinality(I \cap R) = 0
    BY <1>2, <1>5, Zenon
  <2> QED
    BY <1>3, <1>4, <2>1
<1> QED
  BY <1>3, <1>6 DEF I, R

(* The report of --compare counts every object once on each side: what     *)
(* matches, what differs in size and what is missing add up to the totals, *)
(* for any two buckets and prefix (compare.go:226-263).                    *)
THEOREM ReportCountsEachObjectOnce ==
    ASSUME NEW wasabi, IsFiniteSet(DOMAIN wasabi),
           NEW gcs, IsFiniteSet(DOMAIN gcs), NEW prefix
    PROVE  LET report == runCompare(wasabi, gcs, prefix)
               common == Cardinality(report.Matching) + Cardinality(report.SizeMismatch)
           IN  /\ report.SourceTotal = common + Cardinality(report.OnlyInSource)
               /\ report.DestTotal = common + Cardinality(report.OnlyInDest)
               /\ report.Matching \cap report.SizeMismatch = {}
<1> DEFINE src == ListObjects(wasabi, prefix)
           dst == ListObjects(gcs, prefix)
           S == DOMAIN src
           D == DOMAIN dst
           same == {k \in S \cap D : src[k] = dst[k]}
           other == {k \in S \cap D : src[k] # dst[k]}
<1>1. IsFiniteSet(S) /\ IsFiniteSet(D)
  <2>1. S \subseteq DOMAIN wasabi /\ D \subseteq DOMAIN gcs
    BY DEF ListObjects
  <2> QED
    BY <2>1, FS_Subset
<1> HIDE DEF src, dst
<1>2. /\ (S \cap D) \cap same = same /\ (S \cap D) \ same = other
      /\ same \cap other = {} /\ S \cap D = D \cap S
  OBVIOUS
<1>3. runCompare(wasabi, gcs, prefix) = compareObjects(src, dst)
  BY DEF runCompare, src, dst
<1>4. LET report == compareObjects(src, dst)
      IN  /\ report.Matching = same /\ report.SizeMismatch = other
          /\ report.OnlyInSource = S \ D /\ report.OnlyInDest = D \ S
          /\ report.SourceTotal = Cardinality(S) /\ report.DestTotal = Cardinality(D)
  BY DEF compareObjects
<1> HIDE DEF S, D, same, other
<1>5. IsFiniteSet(S \cap D)
  BY <1>1, FS_Subset
<1>6. /\ Cardinality(S \cap D) = Cardinality(same) + Cardinality(other)
      /\ Cardinality(S) = Cardinality(S \cap D) + Cardinality(S \ D)
      /\ Cardinality(D) = Cardinality(S \cap D) + Cardinality(D \ S)
  BY <1>1, <1>2, <1>5, SplitCount
<1> QED
  BY <1>2, <1>3, <1>4, <1>6
=============================================================================
