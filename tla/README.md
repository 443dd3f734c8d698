# Verification of wasabi-to-gcs

TLA+ modules, TLC configurations and TLAPS proofs about the migration tool in
this repository: a Go program that copies every object of a Wasabi (S3) bucket
into a GCS bucket with many workers, verifies each copy, records it in a state
log, and can be stopped and started again.  Paths such as `pool.go:63` are
relative to `src/`.

## 1. The system

### Components

| Component | State | Operations | Modelled in |
|---|---|---|---|
| Transfer engine (`transfer.go`) | per transfer: attempt, bytes and MD5 read so far, error; the two buckets | `Transfer` (retry loop, backoff), `doTransfer` (get, copy, close, size and MD5 check, delete, record), `isRetryable` | `TransferEngine`, `ObjectLedger` |
| Source lister (`lister.go`) | page cursor, totals, jobs of the page | `ScanAndStream` | `Lister` |
| Worker pool (`pool.go`) | semaphore of slot IDs, the goroutines, an errgroup | `Run`, `processJob`, `isFatalError` | `WorkerPool` |
| Progress reporter (`progress.go`) | bars by slot, failed bars, overall bar, counters | `StartTransfer`, `CompleteTransfer`, `FailTransfer`, `UpdateScanTotals`, `Complete`, `Wait` | `ProgressBars` (of the counters, the bytes) |
| Orchestration (`main.go`) | contexts, errgroup, jobs channel, flags | the choice of the mode, `runMigration`, signal handler, dry run, decision about a finished migration, exit code | `RunContext`, `Migration`, `DryRun`, `Resume`, `Program`, `Settings` |
| Local state (`state.go`) | completed set, `completed.log`, `manifest.json` | `MarkCompleted`, `MarkMatchingAsCompleted`, `Reset`, `Flush`, `Close`, `load`, `SaveManifest`, `LoadManifest`, counts | `StateLog` (the file), `Resume` (across runs) |
| State sync (`state_gcs.go`) | remote copies of the two files, the periodic goroutine | `ParseGCSURL`, `Download`, `Upload`, `StartPeriodicSync`, stop function | `Resume`, `Settings` |
| Compare (`compare.go`) | none kept | the two listings, `compareObjects`, the report | `Compare`, `Resume` |
| Speed test (`speedtest.go`) | results by level, the legs that still work, count of stalls | the scaling sweep, `findOptimalWorkers`, `scaledPerWorker` | `Speedtest` |
| Configuration (`config.go`) | none kept | `Validate` | `Settings` |
| Clients (`clients.go`) | none kept | sizes of the connection pools | `Settings` |
| Scripts | none kept | | not modelled, see section 9 |

### How they interact

- The lister and the pool run under one errgroup of `runMigration` and share
  the jobs channel of capacity `2 * workers`; the lister closes it.
- `Run` acquires a slot ID for each job and starts a goroutine under a second
  errgroup, whose context is a child of the first one's.  A signal cancels the
  root context and arms a timer that calls `os.Exit(1)` after two seconds.
- A goroutine calls the engine, which calls `StateManager.MarkCompleted`, and
  the reporter, whose `currentBars` is indexed by the slot ID without a lock.
- The completed set is read by the lister, to skip objects, and by
  `runMigration`, to decide that a migration is finished.
- Under `--state-gcs` the files are downloaded before they are loaded, a
  goroutine uploads them periodically, and the run's last act is an upload.
- The lister, through `UpdateScanTotals`, and the workers, through
  `CompleteTransfer`, change the same two counters of the reporter.
- An invocation is a speed test, a comparison or a migration; the first two
  touch no state file.

### What is hard

*Concurrency*: slots and bars shared without locks; a channel whose reader or
writer may leave early; transfers that outlive an early return of `Run`;
cancellation racing an error or a timer.  *Failure*: uploads committed after a
failed read, a `Close` that reports an error but committed, a deletion that
fails; a process killed between any two steps, a machine lost with its state
directory, a download cut in the middle.  *Staleness*: an object overwritten at
the source between its listing and its transfer; a manifest and a log of
different moments; a decision made by comparing counts; objects in the
destination that are nobody's copy.  *The file format*: a record cut by a full
disk or a power loss, to which the next one is glued; keys that hold a tab;
a truncation that is not synced.  *Classification*: an error is retried for
what a library calls it.  *Numbers*: a sweep whose levels fail, fall or tie.
`PROJECT.json` lists these at their lines under `hazards`, with the properties
that cover each, or with the reason why none does.

### What makes each component correct

- Engine: what is recorded was verified and is never written again; an attempt
  is given up only for a cause that can be named; a cancellation is not retried.
- Lister: jobs only for objects that are neither empty nor recorded; a manifest
  only for a listing read to its end.
- Pool: a slot ID has one holder and is never lost; the pool and the lister
  always let `g.Wait()` return.
- Reporter: every bar is completed in the end, or `container.Wait()` hangs;
  the overall bar counts no byte twice.
- Orchestration: exit code 0 accounts for every object; a run ends by itself,
  and after a signal whatever hangs; the error it shows has a cause.
- State: a recorded key has a good object, across crashes and synchronisation;
  a key is not transferred again while it is recorded; "already complete" is true, and a
  comparison agrees; what is read back from the log was written to it; a killed
  process loses no record.
- Speed test: the sweep stops for a reason, and the plateau on account of which
  it stops is not recommended.
- Configuration: what passes `Validate` is what the rest of the code assumes.

## 2. The modules

`TransferEngine` -- any number of concurrent transfers, each a goroutine with a
program counter: `Begin`, `GetObject`, `Copy`, `CloseWriter`, `Verify`,
`DeleteObject`, `MarkCompleted`, `Backoff`.  An object's data is a record of
the version it comes from, its length and whether it is intact; an error is the
set of facts `isRetryable` and `isFatalError` can tell about it, so that the
*order* of the tests in `isRetryable` is kept, and one that they cannot: `busy`,
that a store has answered with a 5xx or a 429.  `Cancel` and `Overwrite` are
the environment.

`ObjectLedger` -- the abstract specification: `Store` may change the object of
an unrecorded key, `Record` enters a key while its object is verified.  The
engine implements it with `recorded <- completed` (`LedgerSpec`).

`RunContext` -- what the goroutines of one run share: channel, contexts,
completed set.  `Lister`, `ProgressBars` and `WorkerPool` extend it, each with
its own variables and one action per step at which another goroutine may come
in between.

`Migration` composes `Lister` and `WorkerPool` (which brings `ProgressBars`)
with the main goroutine (`GroupWait`, `Sweep` over the slots, `EndFailedBars`,
`EndOverallBar`, `Return`), the two errgroups, the signal goroutine and its
forced exit.  The engine appears through its outcome only.

`DryRun` composes `Lister` and `ProgressBars` with the `--dry-run` path of
`runMigration`.

`Resume` -- a sequence of runs over one state directory, with or without
`--state-gcs`: download, load, decide, `--check-destination`, scan, transfer
and record, periodic and final upload; crashes, lost machines, failed up- and
downloads, changes of the source.

`Compare` -- the listings and `compareObjects` as operators on functions from
keys to sizes.  `Resume` extends it: its `--check-destination` uses the same
listing as the code, and `CompareAgrees` sets `--compare` against the decision
that a migration is complete.

`StateLog` -- one `completed.log` byte by byte as far as `load` can tell: lines
of fields, a last line that may be torn, what of it is on the disk, what a
reset that is not synced may bring back.  `MarkCompleted`, `Reset`, `Flush`,
`Close`, `NewStateManager`, `Kill`, `PowerLoss`.

`Speedtest` -- the sweep over the levels: two trials of each leg, `EndLevel`
with the count of stalls, the three ways to stop, `findOptimalWorkers`.

`Program` extends `StateLog` and instantiates `Speedtest`: an invocation is in
one mode, and one run looks at both.  That a speed test leaves the log alone is
an abstraction, written into `Program` as UNCHANGED because `runSpeedtest` calls
nothing of `state.go`; nothing here shows it.

`Settings` -- `Config.Validate`, `ParseGCSURL`, the mode, the exit code, the
limit of a backoff in 64-bit arithmetic, the pool sizes: operators, with the
theorems about them in the same module.

`TransferEngineProofs`, `MigrationProofs`, `MigrationAccounting` (which extends
it), `ResumeProofs`, `StateLogProofs`, `SpeedtestProofs` and `ProgramProofs`
hold the other theorems; `MC...` modules give the constants values for TLC.

Definitions whose comment starts with "Mutant:" are plausible bugs of the
definition that follows them.  Nothing uses them; `PROJECT.json` pairs each with
the property that notices the bug.

### Correspondence with the code

`PROJECT.json` (`map`) gives the lines of every definition.  What is not
obvious from it:

- `gpc[k]` names the goroutine of k's job; `slot[k]` is its `workerID`.
  `Release` is the deferred send of the slot ID: it comes before the errgroup
  sees the returned error (`Exit`), so a new job may take the slot in between.
- A goroutine's locals are reset when it ends, which keeps states that differ
  only in the past from being counted twice.
- `Acquire` and the lister's `SendJob` are `select`s: when both cases are
  ready either may be taken.
- `pageJobs` holds the positions on the page that are still to be sent; jobs
  go out in order.
- The semaphore channel is a set: which free slot a receiver gets does not
  matter to any property.
- `UpdateScanTotals` is in two steps: `NextPage` ends by reading
  `completedBytes`, `UpdateTotals` adds to the bar and stores.  A worker's
  `CompleteTransfer` may come in between.  Every object is one byte long.
- In `StateLog` a line is the sequence of pieces between its tabs.  A key with
  a tab is two pieces, and the text of a piece decides only whether `ParseInt`
  accepts it (`Numeric`).  `Junk` is a field that was cut or glued and
  is no number; a size that was cut is a number again, and is taken for the
  whole one.
  `marked`, `ever` and `flushed` are ghosts: what was marked, and what of it a
  `Sync` has covered.
- In `Resume`, `forgotten` is a ghost: the keys that `--force` dropped from the
  local log and the remote one still records.
- `--check-destination` is a listing (`ListDestination`) and then one step for
  each key (`MarkMatching`), so that a crash or a periodic upload may come
  between two keys.
- An upload that fails (`UploadFails`) leaves the remote file, or, because
  `Close` is called after a failed copy too, replaces it by a part.
- In `TransferEngine` a write that fails leaves `stream` as it was: nothing
  looks at it again before `doTransfer` returns.
- In `Speedtest` the thresholds are compared as products of integers.
- In `Resume`, `log` is the set of keys `load()` finds, `RunReturns` stands for
  every way a run may end by itself, and `pending` transfers may go on during
  the final upload, because `Run` does not wait for them when it is cut short.

## 3. The runs

| Run | Module, cfg | What it shows |
|---|---|---|
| `engine` | `MCTransferEngine`, `Engine.cfg` | two concurrent transfers with nine kinds of error: `CompletedVerified`, `GivesUpForCause`, `CancelNotRetried`, and refinement of `ObjectLedger` |
| `migration_wide` | `MCMigration`, `MigrationWide.cfg` | two workers: slots, bars, the manifest, exit code 0, nothing transferred twice; `ErrorHasCause`: "context canceled" is shown only after a signal or a fatal error; `OverallIsHonest`: the overall bar and `completedBytes` never show more than was done, whatever the race |
| `migration_narrow` | `MCMigration`, `MigrationNarrow.cfg` | one worker and a channel that fills: `GroupReturns`, `UncutRunExits`, `SignalExits` |
| `resume` | `MCResume`, `Resume.cfg` | three runs over one state directory: `LedgerSound`, `AlreadyCompleteSound`, `CompareAgrees`, `FinalSyncIsLast`, `RecordedUntouched` |
| `program` | `MCProgram`, `Program.cfg` | the log: `LoadedWasMarked` (nothing is skipped that was never completed), `KillLosesNothing`, `TearsStayLocal`; the sweep: `LevelsMeasured`, `StallsAreConsecutive`, `PlateauNotRecommended` |
| `engine_corrupt`, `engine_transient`, `migration_shutdown`, `dry_run`, `resume_check`, `resume_append`, `resume_rescan` | | violations, one statement of the documentation each; see section 5 |

## 4. Bounds

- `engine`: one key with a plain ETag and one with a multipart ETag, because
  the MD5 check applies to the first only; two versions of sizes 1 and 2, so
  that a cut of the larger has the size of the smaller; two attempts, so that a
  retry meets what the first attempt left; one overwrite of the source.  The
  members of `Faults`: a read that timed out; a time limit of the HTTP client,
  which matches the context's; EOF, by itself and inside a `net.Error`; a reset
  connection, inside a `net.Error` and as a text only; `SlowDown`, which is a
  5xx with a listed code; any other 5xx; a refused key.  The fact `googleapi5`
  belongs to none: it is the text of the JSON client, and the engine's client is
  the gRPC one (`clients.go:84-94`).  The proofs are about every set of errors.
- `engine_transient`: two of these errors, no overwrite and no ambiguous
  `Close`.  `TransientIsRetried` asks that of a 5xx and a reset one at least be
  retried, so that the one trace of the run shows both given up.
- `migration_narrow`: capacity two, one job running, one held by `Run` while it
  waits for the slot, and a fifth for the lister to block on.
- `migration_wide`: two workers and three jobs, so that a slot is handed on
  while the other is held; an empty object; two completed ones on different
  pages, so that `UpdateScanTotals` finds more skipped bytes the second time;
  two pages, so that a failed request may come after jobs were sent.
- `resume`: two keys, so that one is recorded and the other not; three runs, so
  that a run may follow one that inherited what another left; `MaxChanges` = 1
  and `MaxFaults` = 1.  Counts are compared with counts, so a third key adds no
  new relation between them.

- `program`: three lines and one write cut short or power loss, so that a
  record can follow a torn line and be followed by another; two ordinary keys,
  one that is a number and one that holds a tab and begins with the name of
  another; five levels and three speeds, of which one gains 20 % over another
  and one 4 %, so that a level may gain, stall, fall or fail and two stalls may
  be apart or together.

`MaxRuns`, `MaxChanges`, `MaxFaults`, `MaxOverwrites`, `MaxLines` and
`MaxTears` are the only bounds that the code does not have.

With `--force` and `--state-gcs` together, `Reset` truncates the local log only,
so that until the next upload the remote one still records keys whose objects
are being written again.  `LedgerSound` and `RecordedUntouched` leave out the
keys in `forgotten`, which is exactly this window; `MarkCompleted` and an upload
take keys out of it.

## 5. Findings

1. `transfer.go:152` -- `writer.Close()` is called after a failed copy too and
   commits a truncated object, which stays when no attempt is left, although
   corrupt uploads are said to be deleted (`engine_corrupt`).
2. `transfer.go:201` -- a connection reset is a `net.Error` that did not time
   out, so it is given up in the first attempt; the texts of lines 229-235 are
   not reached (`engine_transient`).
3. `transfer.go:207` -- a 5xx is recognised by a list of smithy codes, which
   lacks `InternalError` and `ServiceUnavailable`, and by the text "googleapi:
   Error 5", which the errors of the gRPC client do not have: any other 5xx is
   given up in the first attempt, although the specification has the retry loop
   repeat it (`engine_transient`).
4. `pool.go:63` -- after a signal `Run` returns without waiting and the process
   ends with transfers in flight, although the README says they are finished
   (`migration_shutdown`).
5. `main.go:524` -- a dry run waits for the progress container without having
   completed the overall bar, and never ends (`dry_run`).
6. `state.go:129` -- `--check-destination` records whatever the destination
   holds, a foreign object or what a failed transfer left (`resume_check`).
7. `state_gcs.go:97` -- after a crash the download replaces a newer local log
   by the older remote copy (`resume_append`).
8. `main.go:386` -- after an interrupted `--rescan` the old manifest makes the
   next run call the migration complete (`resume_rescan`).

## 6. Fairness

Safety runs use `Spec`, without fairness.  The liveness runs use `FairSpec`:
weak fairness of `Work`, the disjunction of all steps of the program.  It says
that the Go runtime runs some goroutine while one can run, that every call to a
store returns (both clients have time limits, `clients.go`), and that an armed
timer fires.  One condition for all goroutines together assumes less than one
for each, and suffices because no goroutine in the model can run for ever.  A
signal (`Signal`) need never come, a request that may fail need not.

Deadlock is checked in every passing run; `Terminated` is the only way to stop.
`UncutRunExits` excludes runs whose pool was cut short: a transfer left behind
may then open a bar that nobody completes, and the run waits until a signal
comes (`SignalExits`).

## 7. What is proved

TLAPS proves, for every value of the constants, every invariant and action
property that a passing run checks; what rests on fairness stays with TLC
(section 8).

*`TransferEngineProofs`.*  `TypeCorrect` (hence `attempt <= maxRetries`),
`CompletedIsVerified`, `CancelledIsNotRetried`, `GivesUpOnlyForCause` and
`ImplementsLedger`.
`CompletedVerified` is not inductive: the code checks the bytes that went
through its own hash, never the object.  The invariant `IInv` adds the links
between the two: `Reading` (an attempt's stream is data), `Committed` (from
`Close` on the destination holds that stream), `Checked` (before
`MarkCompleted` it passed the checks) and `RecordedWhenDone` (a recorded key's
goroutine is done, so no later store call disturbs its object).  The
assumptions are `EngineAssumption` (sizes are positive, errors are sets of
facts) and `NoObjectAssumption`.  `GivesUpOnlyForCause`
(`GivesUpForCause`) holds of every set of errors, without a hypothesis about
them: it names what `isRetryable` gives up on rather than what the documentation
says should be retried, which is what findings 2 and 3 are about.  It needs that
the error with which a transfer has failed is one the stores returned, the
context's, or that of a failed verification (`HasOrigin`).

*`MigrationProofs`.*  `TypeCorrect` (hence the channel never exceeds its
capacity, `skipped <= total`), `SlotsAreExclusive`, `SlotsAreConserved`,
`BarsStayApart`, `NoSecondTransfer` and `ErrorsHaveCauses`.  The argument for
the slots: a key is in one place only.  `QueueInv` says that each key still to
be sent, in the channel, held by `Run` or given to a goroutine is a due key
(neither empty nor recorded before), that the last three were handed over, and
that no key is in two of these places.  It rests on the listing naming each key
once (`ListerAssumption`) and makes the goroutine that `Acquire` starts a new one; without it a second
goroutine for the key would make the model forget a slot.  `SlotInv` follows,
and with it `BarIsMine`: two goroutines never share a slot, and `Complete`
starts only when `mpc` has left "group", to which it never returns.
`ErrorsHaveCauses` rests on `CauseInv`: each cancelled context has its own
cause, what the lister and `Run` will return has one or comes after the error
that the group keeps, and `mpc` beyond "group" implies that both have returned.
The assumptions are at least one worker and that `NoKey` is no key.

*`MigrationAccounting`.*  `NothingIsLost` (`SuccessAccountsForAll`),
`ManifestsAreWhole` (`ManifestIsWholeListing`) and `OverallBarIsHonest`
(`OverallIsHonest`), for any listing, failures and number of workers, relative
to the invariants of `MigrationProofs`.

- `NothingIsLost` follows a key from the listing to the end of its goroutine:
  what was handed over is recorded, has a goroutine, is held by `Run` or waits
  in the channel, unless `Run` was cut short (`Accounted`); what the lister has
  not handed over when it returns without an error is empty or was recorded
  (`ListerInv`); `Run` returns the error of its group after all goroutines have
  ended (`RunInv`), and exit code 0 comes after both returned none (`ExitInv`).
- `ManifestsAreWhole` needs that `total` is the number of objects on the pages
  read (`TotalsInv`): each page adds keys that no page before it had.
- `OverallBarIsHonest` needs what each `UpdateScanTotals` has read and may yet
  add while workers go on between its two steps (`CountersInv`).

*`ResumeProofs`.*  `TypeCorrect`, `RecordedIsStored` (`LedgerSound`),
`NothingIsTransferredAgain` (`RecordedUntouched`), `FinalUploadWins`
(`FinalSyncIsLast`), `CompleteIsComplete` (`AlreadyCompleteSound`) and
`ComparisonAgrees` (`CompareAgrees`), for any keys, command lines, runs, crashes
and failed uploads.  None of the six formulas is inductive:

- `LedgerSound` needs to know where a key may be between the listing and the
  log (`QueueInv`, `StoredInv`), that memory and log agree from the decision on
  (`MemoryInv`), that what the remote log holds beyond the local one is
  `forgotten` (`RemoteInv`), and that a snapshot about to be committed holds
  every key whose commit would take it out of `forgotten` (`SnapInv`).
- `RecordedUntouched` follows: a pending key is in no record that counts
  (`PendingUnrecorded`).  It speaks of a key while it is recorded: one that a
  download drops from the log (finding 7) may be transferred again.
- `FinalSyncIsLast` needs what the final upload has read at each of its two
  steps (`FinalInv`).
- `AlreadyCompleteSound` needs that a manifest counts at least what the source
  holds under its prefix (`ManifestInv`, from the lister's count `ListedInv`)
  and that only keys of the source are recorded (`SourceInv`): a subset that is
  as large as the finite set is the set (`EnoughAreAll`).
- `CompareAgrees` combines the two: what the decision counts is recorded, what
  is recorded is in the destination (`PresentInv`, for the remote log and a
  snapshot on its way to it too, `SnapPresentInv`), and all of it but what
  `--check-destination` took over is the copy.

`ReportCountsEachObjectOnce` says of `runCompare` itself that the classes of its
report are disjoint and add up to its totals, for any two buckets and prefix.

The assumptions are `ResumeAssumption` (finitely many keys, which are numbers)
and `NoFileAssumption`.

*`StateLogProofs`.*  `LoadedKeysWereMarked`, `NothingIsLostByKill`
(`KillLosesNothing`) and `LossesStayLocal` (`TearsStayLocal`), for any keys and
number of records, resets, writes cut short and power losses.  `LoadedWasMarked` speaks of the
lines that are records; the invariant must say of *every* line what it may
become.  `LineOK` says that a line's second field, if it has one, is a first
piece of a key that was marked or is `Junk`, and that `Junk` there implies a
tear and a numeric key; a torn line keeps it because a cut only shortens a line,
and a glued one because the glued field is never numeric.  The lines that an
unsynced truncation may bring back (`cut`) satisfy it too, and what is synced
never exceeds the file (`SyncedOK`).  `KillLosesNothing` needs that the lines
are the records of the marked keys while nothing was torn (`LogIsMarks`).
`TearsStayLocal` is an amortised count.  What a tear costs is not known when it
happens, because the torn line may still be read as a record until the next one
is glued to it, which loses both.  The invariant `TInv` therefore counts an open
line as lost from the start and keeps one of the tear's two records in reserve
while the line is open; it says the same of the synced lines, which no append
changes and which every power loss leaves, and that nothing is synced while a
truncation may be undone.  The assumption is `PiecesAssumption`.

*`SpeedtestProofs`.*  `RecommendsTestedLevel`, `SweepStopsSoundly`,
`PlateauIsNotRecommended`, `ShareInRange`, and `MayRecommendSlowerLevel`, an
instance of `findOptimalWorkers` whose recommended level is slower than an
earlier one.  The invariant ties the two lists to each other and to the current
level, and the count of stalls to the last levels; a level that stalls (under
5 %) does not gain (10 %), whence the plateau.  The hypotheses are that a
measured throughput is positive (`SpeedsArePositive`) and that there are one to
eight levels (`LevelsGiven`).

*`ProgramProofs`.*  What is proved of `StateLog` and of `Speedtest` carried over
to `Program`, whose other mode stutters by construction: `ProgramLogIsSound`,
and under the hypotheses of `SpeedtestProofs` `SweepGoesOnFromResult`
(`LevelsMeasured`), `SweepCountsConsecutiveStalls` (`StallsAreConsecutive`) and
`ProgramRecommendsNoPlateau` (`PlateauNotRecommended`).

*`Settings`.*  `ValidatedIsAssumed`, `PrefixIsFolder`, `SlashMakesNoDifference`,
`BackoffInRange` and `ConnectionsSuffice`, about every configuration and URL.
No run evaluates this module: its operators are pure and the theorems hold of
all their arguments.

## 8. What is only model-checked

- Liveness (`GroupReturns`, `UncutRunExits`, `SignalExits`) and everything that
  rests on fairness or ENABLED: out of the prover's reach.
- `CheckedIsVerified`, `LogIsAppendOnly`, `TransientIsRetried` and the other
  statements of the violation runs do not hold (section 5).
- What a recursive definition computes for every input would need induction
  over data, which the installed provers cannot instantiate.  No module here
  has a RECURSIVE operator, so that all of them can be proved about.

## 9. What is not modelled

- Rates, decorators, the object counters of the reporter, log files, the
  banner, the reports' layout, the status line of `--compare`: no property is
  about them.
- Sums of bytes that are only shown.  `OverallIsHonest` is about an upper
  bound: when more was transferred than skipped at the time of an
  `UpdateScanTotals`, the skipped bytes are never added, so that the bar may
  end below its total.
- In `StateLog`: a key with a newline, whose record is two malformed lines; a
  key whose piece after a tab begins with digits and is cut behind them; lines
  longer than the scanner's limit, which no record reaches; errors in opening
  the file, which end the run before it does anything.
- In `Speedtest`: the transfers that make a measurement, the warm-up, the
  internet baseline, the rounding of floats.  The deadline of ten minutes is
  one of the errors of a trial.  A leg that fails makes the throughput of both
  legs together jump to the other one's, which the sweep takes for a gain.
- Objects that a killed speed test leaves in the destination: they are among
  the foreign objects with which `Resume` starts.
- `completed.log` used with another bucket (`main.go:375`): the file names no
  bucket, so nothing in the code could tell.
- The time limits of the HTTP client (`transfer.go:194`): whether a library's
  error matches `context.DeadlineExceeded` is decided outside this code.
- The construction of clients, build and deployment scripts: I/O without a
  protocol of their own.

## 10. Plan

The order follows the importance of what the parts promise.

1. `TransferEngine` with `ObjectLedger`: checked, and proved.
2. `RunContext`, `Lister`, `ProgressBars` with its counters, `WorkerPool`,
   `Migration`: checked; every invariant proved.
3. `DryRun`: checked.
4. `Resume` with `Compare`: checked; every invariant proved.
5. `StateLog`: checked and proved.
6. `Speedtest`, `Program`: checked and proved.  `Settings`: proved.
7. Proofs that may follow: the safety part of `GroupReturns` and
   `UncutRunExits`, that some step is possible in every state in which a
   goroutine is left, stated without ENABLED.

## 11. Running

    tlc -workers 2 -config Engine.cfg MCTransferEngine
    tlapm TransferEngineProofs.tla

`PROJECT.json` lists every run with its module, configuration and properties.
With two workers the `resume` run takes a little over two minutes, `engine` a
minute and a half, `program` half a minute, the others less.
