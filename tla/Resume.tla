------------------------------- MODULE Resume -------------------------------
(***************************************************************************)
(* A sequence of migration runs over one state directory: what survives    *)
(* from run to run (completed.log and manifest.json, their copies in GCS   *)
(* under --state-gcs, the destination bucket), what a run does with it     *)
(* before and after its transfers (main.go:runMigration, state.go,         *)
(* state_gcs.go), and the ways a run may end, a crash at any point         *)
(* included.  Inside a run the transfers are taken one step at a time;     *)
(* their concurrency is the subject of Migration and TransferEngine.       *)
(***************************************************************************)
EXTENDS Naturals, FiniteSets, Compare

CONSTANTS
    Keys,        \* object keys; the listing visits them in increasing order
    NoFile,      \* a state file, or a manifest in memory, that does not exist
    Corrupt,     \* a manifest.json that was written only in part
    RemoteFlags, \* the command lines used with --state-gcs: records with
                 \* force, rescan, checkDest, and prefix (the keys that
                 \* --prefix selects)
    LocalFlags,  \* those used without it
    MaxRuns,     \* bound: runs
    MaxChanges,  \* bound: objects added to or deleted from the source
    MaxFaults    \* bound: failed uploads and downloads of state files

CommandLines == [force : BOOLEAN, rescan : BOOLEAN, checkDest : BOOLEAN,
                 prefix : SUBSET Keys]

ASSUME ResumeAssumption ==
    /\ Keys \subseteq Nat /\ IsFiniteSet(Keys)
    /\ RemoteFlags \cup LocalFlags \subseteq CommandLines
    /\ MaxRuns \in Nat /\ MaxChanges \in Nat /\ MaxFaults \in Nat

Manifests == [total : Nat, prefix : SUBSET Keys]
ManifestFiles == Manifests \cup {NoFile, Corrupt}

ASSUME NoFileAssumption ==
    /\ NoFile \notin Manifests /\ Corrupt \notin Manifests /\ NoFile # Corrupt

VARIABLES
    stateGCS,    \* all runs over the state directory use --state-gcs, or none
    source,      \* the non-empty objects of the source bucket
    dest,        \* dest[k]: "absent", "good" (verified) or "bad"
    log,         \* the keys that load() finds in completed.log
    man,         \* manifest.json
    rlog, rman,  \* the copies of the two files in GCS
    vouched,     \* the keys some line of completed.log, past or present, calls
                 \* "dest-verified"
    forgotten,   \* the keys that a --force reset dropped from the local log
                 \* while the remote one went on recording them, until they are
                 \* recorded again or a complete upload drops them there too
    rescanned,   \* a run with --rescan has begun since the source last changed
    late,        \* the keys recorded during the last final upload
    pc,          \* the main goroutine: "off", "download", "download2", "load",
                 \* "decide", "check", "mark", "scan", "stop", "final"
    flags,       \* the command line of the current or last run
    completed,   \* StateManager.completed
    manifest,    \* the manifest in memory
    next,        \* the listing has visited the keys below next
    scanned,     \* the listing has ended
    total,       \* Lister.totalObjects
    pending,     \* keys sent to the pool and not yet transferred
    stored,      \* keys whose upload is verified and not yet recorded
    upc,         \* the uploader: "none", "idle", "log", "manifest"
    snap,        \* the file content the uploader has read
    result,      \* how the last run ended: "none", "complete" (migration
                 \* already complete), "synced", "unsynced", "crash", "local"
    runs, changes, faults   \* what the bounds count

buckets == <<source, dest>>
localFiles == <<log, man>>
remoteFiles == <<rlog, rman, forgotten>>
setting == <<stateGCS, vouched, rescanned, late>>
memory == <<flags, completed, manifest, next, scanned, total, pending, stored>>
uploader == <<upc, snap>>
vars == <<setting, buckets, localFiles, remoteFiles, memory, uploader, pc, result,
          runs, changes, faults>>

PCs == {"off", "download", "download2", "load", "decide", "check", "mark",
        "scan", "stop", "final"}

TypeOK ==
    /\ source \subseteq Keys
    /\ dest \in [Keys -> {"absent", "good", "bad"}]
    /\ log \subseteq Keys
    /\ man \in ManifestFiles
    /\ rlog = NoFile \/ rlog \subseteq Keys
    /\ rman \in ManifestFiles
    /\ pc \in PCs
    /\ stateGCS \in BOOLEAN
    /\ vouched \subseteq Keys /\ forgotten \subseteq Keys
    /\ rescanned \in BOOLEAN
    /\ late \subseteq Keys
    /\ flags \in CommandLines
    /\ completed \subseteq Keys
    /\ manifest \in Manifests \cup {NoFile}
    /\ next \in Nat
    /\ scanned \in BOOLEAN
    /\ total \in 0 .. Cardinality(Keys)
    /\ pending \subseteq Keys
    /\ stored \subseteq Keys
    /\ upc \in {"none", "idle", "log", "manifest"}
    /\ IF upc = "log" THEN snap \subseteq Keys ELSE snap \in ManifestFiles
    /\ result \in {"none", "complete", "synced", "unsynced", "crash", "local"}
    /\ runs \in 0 .. MaxRuns
    /\ changes \in 0 .. MaxChanges
    /\ faults \in 0 .. MaxFaults

Flags == IF stateGCS THEN RemoteFlags ELSE LocalFlags

(* The destination may hold objects that are no copies of the source's,    *)
(* also under keys that the source does not have.                          *)
Init ==
    /\ source \in SUBSET Keys
    /\ dest \in [Keys -> {"absent", "bad"}]
    /\ log = {} /\ man = NoFile
    /\ rlog = NoFile /\ rman = NoFile
    /\ pc = "off"
    /\ stateGCS \in BOOLEAN
    /\ vouched = {} /\ forgotten = {} /\ rescanned = FALSE /\ late = {}
    /\ flags \in Flags
    /\ completed = {} /\ manifest = NoFile
    /\ next = 0 /\ scanned = FALSE /\ total = 0
    /\ pending = {} /\ stored = {}
    /\ upc = "none" /\ snap = NoFile
    /\ result = "none"
    /\ runs = 0 /\ changes = 0 /\ faults = 0

Goto(from, to) == pc = from /\ pc' = to
Fault == faults < MaxFaults /\ faults' = faults + 1

(* The process is gone, and its memory with it.                            *)
Off(r) ==
    /\ pc' = "off"
    /\ result' = r
    /\ completed' = {} /\ manifest' = NoFile
    /\ next' = 0 /\ scanned' = FALSE /\ total' = 0
    /\ pending' = {} /\ stored' = {}
    /\ upc' = "none" /\ snap' = NoFile
    /\ UNCHANGED flags

-----------------------------------------------------------------------------
(* The beginning of a run.                                                 *)
Start ==
    /\ Goto("off", IF stateGCS THEN "download" ELSE "load")
    /\ runs < MaxRuns
    /\ runs' = runs + 1
    /\ flags' \in Flags
    /\ rescanned' = (rescanned \/ flags'.rescan)
    /\ result' = "none"
    /\ late' = {}
    /\ UNCHANGED <<stateGCS, vouched, buckets, localFiles, remoteFiles,
                   completed, manifest, next, scanned, total, pending, stored,
                   uploader, changes, faults>>

(* GCSStateSync.Download copies each file that exists over the local one,  *)
(* completed.log first; an error ends the run, after it may have left the  *)
(* first part of the file in place of the local one.                       *)
DownloadLog ==
    \/ /\ Goto("download", "download2")
       /\ log' = IF rlog = NoFile THEN log ELSE rlog
       /\ UNCHANGED <<setting, buckets, man, remoteFiles, memory, uploader,
                      result, runs, changes, faults>>
    \/ /\ pc = "download" /\ Fault
       /\ \/ UNCHANGED log
          \/ rlog # NoFile /\ log' \in SUBSET rlog
       /\ Off("local")
       /\ UNCHANGED <<setting, buckets, man, remoteFiles, runs, changes>>

DownloadManifest ==
    \/ /\ Goto("download2", "load")
       /\ man' = IF rman = NoFile THEN man ELSE rman
       /\ UNCHANGED <<setting, buckets, log, remoteFiles, memory, uploader,
                      result, runs, changes, faults>>
    \/ /\ pc = "download2" /\ Fault
       /\ \/ UNCHANGED man
          \/ rman # NoFile /\ man' = Corrupt
       /\ Off("local")
       /\ UNCHANGED <<setting, buckets, log, remoteFiles, runs, changes>>

(* LoadManifest, unless --rescan; a manifest of another prefix is dropped. *)
LoadedManifest ==
    IF flags.rescan \/ man = NoFile THEN NoFile
    ELSE IF man.prefix # flags.prefix THEN NoFile ELSE man

(* NewStateManager reads the log, then the manifest is loaded; one that    *)
(* cannot be parsed ends the run.                                          *)
Load ==
    /\ pc = "load"
    /\ IF ~flags.rescan /\ man = Corrupt
       THEN Off("local")
       ELSE /\ pc' = "decide"
            /\ completed' = log
            /\ manifest' = LoadedManifest
            /\ UNCHANGED <<flags, next, scanned, total, pending, stored,
                           uploader, result>>
    /\ UNCHANGED <<setting, buckets, localFiles, remoteFiles, runs, changes,
                   faults>>

(* Mutant: the count of the recorded keys under every prefix.              *)
CompletedCountOfAll == Cardinality(completed)

CompletedCountForPrefix == Cardinality(completed \cap flags.prefix)

(* An already completed migration is detected by counting.                 *)
AlreadyComplete ==
    /\ manifest # NoFile
    /\ manifest.total <= CompletedCountForPrefix

(* From here on the manifest in memory serves only the display.            *)
Begin(c) ==
    /\ completed' = c
    /\ manifest' = NoFile
    /\ pc' = IF flags.checkDest THEN "check" ELSE "scan"
    /\ upc' = IF stateGCS THEN "idle" ELSE "none"
    /\ UNCHANGED <<flags, next, scanned, total, pending, stored, snap, result>>

RemoteLog == IF rlog = NoFile THEN {} ELSE rlog

(* StateManager.Reset truncates the local log; the remote one is as it was *)
(* until the next upload.                                                  *)
Reset == log' = {} /\ forgotten' = RemoteLog

(* End the run, or with --force reset the state; otherwise go on.          *)
Decide ==
    /\ pc = "decide"
    /\ \/ /\ ~AlreadyComplete
          /\ Begin(completed)
          /\ UNCHANGED <<log, forgotten>>
       \/ /\ AlreadyComplete
          /\ IF flags.force
             THEN Reset /\ Begin({})
             ELSE UNCHANGED <<log, forgotten>> /\ Off("complete")
    /\ UNCHANGED <<setting, buckets, man, rlog, rman, runs, changes, faults>>

(* The two buckets as Compare sees them; of an object that is not a copy   *)
(* of the source's no more is said than that its size may differ.          *)
SourceSizes == [k \in source |-> 2]
DestSizes == [k \in {j \in Keys : dest[j] # "absent"} |->
                 IF dest[k] = "good" THEN 2 ELSE 1]

DestinationObjects == DOMAIN ListObjects(DestSizes, flags.prefix)

(* --check-destination: the listing of the destination, then every listed  *)
(* object is entered in the completed set and the log, one after the other *)
(* in the random order of a map, by MarkMatchingAsCompleted.               *)
ListDestination ==
    /\ Goto("check", "mark")
    /\ UNCHANGED <<setting, buckets, localFiles, remoteFiles, memory, uploader,
                   result, runs, changes, faults>>

MarkMatching ==
    /\ pc = "mark"
    /\ \E k \in DestinationObjects \ completed :
          /\ completed' = completed \cup {k}
          /\ log' = log \cup {k}
          /\ vouched' = vouched \cup {k}
    /\ UNCHANGED <<stateGCS, rescanned, late, buckets, man, remoteFiles, flags,
                   manifest, next, scanned, total, pending, stored, uploader, pc,
                   result, runs, changes, faults>>

AllMarked ==
    /\ DestinationObjects \subseteq completed
    /\ Goto("mark", "scan")
    /\ UNCHANGED <<setting, buckets, localFiles, remoteFiles, memory, uploader,
                   result, runs, changes, faults>>

CheckDestination == ListDestination \/ MarkMatching \/ AllMarked

-----------------------------------------------------------------------------
(* The scan and the transfers.                                             *)

(* The lister comes to the next key that the source holds.                 *)
Unlisted == {k \in source \cap flags.prefix : k >= next}

(* Mutant: the listing does not go on after the key.                       *)
ListKeyStays ==
    /\ pc = "scan" /\ ~scanned
    /\ \E k \in Unlisted :
          /\ \A j \in Unlisted : k <= j
          /\ next' = k
          /\ total' = total + 1
          /\ pending' = IF k \in completed THEN pending ELSE pending \cup {k}
    /\ UNCHANGED <<setting, buckets, localFiles, remoteFiles, flags, completed,
                   manifest, scanned, stored, uploader, pc, result, runs, changes,
                   faults>>

(* Mutant: keys already completed are sent again.                          *)
ListKeyAgain ==
    /\ pc = "scan" /\ ~scanned
    /\ \E k \in Unlisted :
          /\ \A j \in Unlisted : k <= j
          /\ next' = k + 1
          /\ total' = total + 1
          /\ pending' = pending \cup {k}
    /\ UNCHANGED <<setting, buckets, localFiles, remoteFiles, flags, completed,
                   manifest, scanned, stored, uploader, pc, result, runs,
                   changes, faults>>

ListKey ==
    /\ pc = "scan" /\ ~scanned
    /\ \E k \in Unlisted :
          /\ \A j \in Unlisted : k <= j
          /\ next' = k + 1
          /\ total' = total + 1
          /\ pending' = IF k \in completed THEN pending ELSE pending \cup {k}
    /\ UNCHANGED <<setting, buckets, localFiles, remoteFiles, flags, completed,
                   manifest, scanned, stored, uploader, pc, result, runs,
                   changes, faults>>

(* The end of the listing: SaveManifest, which replaces the file in one    *)
(* rename, unless nothing was listed or it fails.                          *)
EndScan ==
    /\ pc = "scan" /\ ~scanned /\ Unlisted = {}
    /\ scanned' = TRUE
    /\ \/ total > 0 /\ man' = [total |-> total, prefix |-> flags.prefix]
       \/ UNCHANGED man
    /\ UNCHANGED <<setting, buckets, log, remoteFiles, flags, completed,
                   manifest, next, total, pending, stored, uploader, pc, result,
                   runs, changes, faults>>

(* Transfers that were under way when the pool returned early go on until  *)
(* the process ends.                                                       *)
Transferring == {"scan", "stop", "final"}

(* Mutant: a failed verification does not keep the key from being recorded.*)
TransferUnverified(k) ==
    /\ pc \in Transferring /\ k \in pending
    /\ pending' = pending \ {k}
    /\ stored' = stored \cup {k}
    /\ \E d \in {"good", "bad", "absent"} : dest' = [dest EXCEPT ![k] = d]
    /\ UNCHANGED <<setting, source, localFiles, remoteFiles, flags, completed,
                   manifest, next, scanned, total, uploader, pc, result, runs,
                   changes, faults>>

(* Transfer of k: an upload that is verified, or a failure that may leave  *)
(* the destination as it was, with a bad object, or without one.  A key    *)
(* deleted from the source since it was listed cannot be read.             *)
Transfer(k) ==
    /\ pc \in Transferring /\ k \in pending
    /\ pending' = pending \ {k}
    /\ \/ /\ k \in source
          /\ dest' = [dest EXCEPT ![k] = "good"]
          /\ stored' = stored \cup {k}
       \/ /\ k \in source
          /\ \E d \in {"bad", "absent"} : dest' = [dest EXCEPT ![k] = d]
          /\ UNCHANGED stored
       \/ UNCHANGED <<dest, stored>>
    /\ UNCHANGED <<setting, source, localFiles, remoteFiles, flags, completed,
                   manifest, next, scanned, total, uploader, pc, result, runs,
                   changes, faults>>

(* StateManager.MarkCompleted.                                             *)
MarkCompleted(k) ==
    /\ pc \in Transferring /\ k \in stored
    /\ stored' = stored \ {k}
    /\ completed' = completed \cup {k}
    /\ log' = log \cup {k}
    /\ late' = IF pc = "final" THEN late \cup {k} ELSE late
    /\ forgotten' = forgotten \ {k}
    /\ UNCHANGED <<stateGCS, vouched, rescanned, buckets, man, rlog, rman,
                   flags, manifest, next, scanned, total, pending, uploader, pc,
                   result, runs, changes, faults>>

-----------------------------------------------------------------------------
(* GCSStateSync.Upload, file by file: read, then commit.  A file that does *)
(* not exist locally is skipped; an error ends the upload.                 *)
UploadReads ==
    /\ upc = "idle"
    /\ snap' = log /\ upc' = "log"
    /\ UNCHANGED <<setting, buckets, localFiles, remoteFiles, memory, pc,
                   result, runs, changes, faults>>

CommitLog ==
    /\ upc = "log"
    /\ rlog' = snap /\ forgotten' = forgotten \cap snap
    /\ upc' = "manifest" /\ snap' = man
    /\ UNCHANGED <<rman, faults>>

CommitManifest ==
    /\ upc = "manifest"
    /\ rman' = IF snap = NoFile THEN rman ELSE snap
    /\ snap' = NoFile
    /\ UNCHANGED <<rlog, forgotten, faults>>

(* io.Copy or Close fails: the remote file stays, or, since Close is called *)
(* after a failed copy too, what was copied before the error replaces it.  *)
UploadFails ==
    /\ Fault
    /\ UNCHANGED forgotten
    /\ \/ UNCHANGED <<rlog, rman>>
       \/ upc = "log" /\ rlog' \in SUBSET snap /\ UNCHANGED rman
       \/ upc = "manifest" /\ snap # NoFile /\ rman' \in {snap, Corrupt} /\ UNCHANGED rlog

(* The periodic goroutine, on a tick; its errors are only logged.          *)
PeriodicUpload ==
    /\ pc \in {"check", "mark", "scan", "stop"}
    /\ \/ CommitLog
       \/ CommitManifest /\ upc' = "idle"
       \/ /\ upc \in {"log", "manifest"} /\ UploadFails
          /\ upc' = "idle" /\ snap' = NoFile
    /\ UNCHANGED <<setting, buckets, localFiles, memory, pc, result, runs,
                   changes>>

Tick == pc \in {"check", "mark", "scan"} /\ UploadReads

(* The run returns: all is transferred, or an error or a signal ends it    *)
(* while transfers are pending, of which those that have begun go on.      *)
RunReturns ==
    /\ pc \in {"check", "scan"}
    /\ IF stateGCS
       THEN /\ pc' = "stop"
            /\ pending' \in SUBSET pending
            /\ UNCHANGED <<flags, completed, manifest, next, scanned, total,
                           stored, uploader, result>>
       ELSE Off("local")
    /\ UNCHANGED <<setting, buckets, localFiles, remoteFiles, runs, changes,
                   faults>>

(* Mutant: an upload under way is taken for the final one.                 *)
StopSyncJoins ==
    /\ Goto("stop", "final")
    /\ IF upc = "idle" THEN snap' = log /\ upc' = "log" ELSE UNCHANGED uploader
    /\ UNCHANGED <<setting, buckets, localFiles, remoteFiles, memory, result,
                   runs, changes, faults>>

(* stopSync: cancel the periodic goroutine and wait for its end, then the  *)
(* final upload.                                                           *)
StopSync ==
    /\ Goto("stop", "final")
    /\ upc = "idle"
    /\ snap' = log /\ upc' = "log"
    /\ UNCHANGED <<setting, buckets, localFiles, remoteFiles, memory, result,
                   runs, changes, faults>>

FinalUpload ==
    /\ pc = "final"
    /\ \/ CommitLog /\ UNCHANGED <<memory, pc, result>>
       \/ /\ upc = "manifest"
          /\ rman' = IF snap = NoFile THEN rman ELSE snap
          /\ Off("synced")
          /\ UNCHANGED <<rlog, forgotten, faults>>
       \/ UploadFails /\ Off("unsynced")
    /\ UNCHANGED <<setting, buckets, localFiles, runs, changes>>

-----------------------------------------------------------------------------
(* Environment.                                                            *)

(* The process is killed, or the forced exit of the signal handler ends it.*)
Crash ==
    /\ pc # "off"
    /\ Off("crash")
    /\ UNCHANGED <<setting, buckets, localFiles, remoteFiles, runs, changes,
                   faults>>

(* The machine and its state directory are gone; the next run is made on a *)
(* new one.                                                                *)
LoseMachine ==
    /\ stateGCS /\ runs < MaxRuns
    /\ Off("crash")
    /\ log' = {} /\ man' = NoFile
    /\ UNCHANGED <<setting, buckets, remoteFiles, runs, changes, faults>>

ChangeSource(k) ==
    /\ changes < MaxChanges
    /\ changes' = changes + 1
    /\ source' = IF k \in source THEN source \ {k} ELSE source \cup {k}
    /\ rescanned' = FALSE
    /\ UNCHANGED <<stateGCS, vouched, late, dest, localFiles, remoteFiles,
                   memory, uploader, pc, result, runs, faults>>

Terminated == pc = "off" /\ runs = MaxRuns /\ UNCHANGED vars

Next ==
    \/ Start \/ DownloadLog \/ DownloadManifest \/ Load \/ Decide
    \/ CheckDestination \/ ListKey \/ EndScan
    \/ \E k \in Keys : Transfer(k) \/ MarkCompleted(k) \/ ChangeSource(k)
    \/ Tick \/ PeriodicUpload \/ RunReturns \/ StopSync \/ FinalUpload
    \/ Crash \/ LoseMachine \/ Terminated

Spec == Init /\ [][Next]_vars

-----------------------------------------------------------------------------
(* A key recorded anywhere, in memory, in completed.log or in its remote   *)
(* copy, has a verified object in the destination, across crashes, lost    *)
(* machines and interrupted synchronisations (state_gcs.go:84-146), unless *)
(* a line of the log took it over from --check-destination, or --force     *)
(* dropped it locally and no later upload replaced the remote log.         *)
Recorded == log \cup completed \cup RemoteLog
LedgerSound == \A k \in Recorded \ (vouched \cup forgotten) : dest[k] = "good"

(* While a key is recorded anywhere, in memory, in completed.log or in its *)
(* remote copy, no step of any run changes its object, unless --force has  *)
(* dropped it (lister.go:67-69, state_gcs.go:84-146): however the records  *)
(* of the three places diverge, no transfer of a recorded key is under     *)
(* way.  A key that a download drops from the log (LogIsAppendOnly below)  *)
(* is recorded nowhere and may be transferred again: nothing is said of it *)
(* here.                                                                   *)
RecordedUntouched == [][\A k \in Recorded \ forgotten : dest'[k] = dest[k]]_vars

(* "migration already complete" is true, as long as the source has not     *)
(* changed and --check-destination was not used: every object under the    *)
(* prefix has been transferred, although the decision only compares two    *)
(* counts (main.go:383-391); what the remote log of an interrupted --force *)
(* run brings back is left out.                                            *)
AlreadyCompleteSound ==
    result = "complete" /\ changes = 0 /\ vouched = {} =>
        \A k \in (source \cap flags.prefix) \ forgotten : dest[k] = "good"

(* When a run ends as "already complete", --compare of the same prefix     *)
(* finds nothing to transfer, and no wrong size but that of an object      *)
(* which --check-destination took over, as long as the source has not      *)
(* changed and what was taken over belongs to the source: the two modes    *)
(* agree, although one counts keys and the other looks at both buckets     *)
(* (main.go:383-391, compare.go:226-263).  What the remote log of an       *)
(* interrupted --force run brings back (forgotten) is left out.            *)
CompareAgrees ==
    result = "complete" /\ changes = 0 /\ forgotten = {}
    /\ vouched \subseteq source =>
        LET report == runCompare(SourceSizes, DestSizes, flags.prefix)
        IN  report.OnlyInSource = {} /\ report.SizeMismatch \subseteq vouched

(* "On shutdown, a final sync ensures the remote state is up to date"      *)
(* (README.md:262): after a run whose final upload succeeded the remote    *)
(* files are the local ones, but for the keys that transfers left running  *)
(* recorded during that upload; no older upload of the periodic goroutine  *)
(* lands after it.                                                         *)
FinalSyncIsLast ==
    result = "synced" =>
        /\ rlog \subseteq log /\ log \ rlog \subseteq late
        /\ man # NoFile => rman = man

(* "Adds destination-verified objects to the completed set" (state.go:123):*)
(* what --check-destination enters in the completed set is a complete      *)
(* copy of its source object.                                              *)
CheckedIsVerified == \A k \in vouched \cap completed : dest[k] = "good"

(* completed.log is an "append-only" record (README.md:11, 241): no step   *)
(* but a reset by --force or the loss of the machine drops a key from it.  *)
LogIsAppendOnly == [][log \subseteq log' \/ log' = {}]_vars

(* The run after an interrupted --rescan picks up where it left off        *)
(* (README.md:5, 165-167): when a run with --rescan has begun since the    *)
(* source last changed, a later "already complete" is about the source as  *)
(* it is now.                                                              *)
RescanIsHonoured ==
    result = "complete" /\ rescanned /\ vouched = {} =>
        \A k \in source \cap flags.prefix : dest[k] = "good"
=============================================================================
