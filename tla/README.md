# TLA+ models of AxonCache

This directory holds TLA+ models of the Go code of AxonCache (`src/`). The TLC
configurations here check the models. AxonCache is a build-once, read-many
key-value cache. A writer builds a hash-table file and publishes it under a
millisecond timestamp. Readers memory-map the current file, serve lookups and
switch to newer files as they appear. The newer files are written locally or
downloaded from remote mirrors.

## The system and how its parts interact

| Part | Code | State | Operations |
|---|---|---|---|
| CacheReader | `src/axoncache.go` 81-486 | `Handle` (C object), `MostRecentFileTimestamp` (atomic), `Stop` channel | `NewCacheReader`, `Update`, the polling goroutine `checkForNewFiles`, `Delete`, typed getters |
| C++ reader engine | not under `src/` (cgo calls) | the active generation | `CacheReader_Initialize` swaps generations; `DeleteCppObject` frees |
| CacheWriter | `src/axoncache.go` 527-671 | C builder handle | `InsertKey`, duplicate values, `FinishCacheCreation` (writes `timestamp.latest`, renames the artifact) |
| Downloader | `src/internal/core/download.go` | the destination folder, remote mirrors | `Run` = `shouldDownload`, `download`, then cleanup |
| Decompression | `src/internal/core/compress.go` | temp file `<task>.<ts>.cache.tmp.<n>` | stream, hash, compare, rename |
| Cleanup | `src/internal/core/cleanup.go` | the folder | `RemoveOldFiles` (retain N), `RemoveLastDownloadedFilesAfterError` |
| CacheCreator, scanner | `src/cmd/cache_creator.go`, `src/cmd/kv_scanner.go` | previous key, dedup sets | `InsertAllKeysAndValues`, `ForEach` |
| CLI | `src/cmd/main.go` | — | `comparo`, `wait_local`, `get` call `Update` on a reader whose goroutine already runs |

The parts interact through two things.

- **The folder.** The writer, or a downloader in any process, writes
  `<task>.<ts>.cache` and `<task>.cache.timestamp.latest`. A reader's
  `getLatestTimestamp` reads `timestamp.latest`, and `Update` loads the named
  file.
- **The reader object.** Inside one reader, the polling goroutine, the owner
  (`Update`, `Delete`) and any number of lookup goroutines share `Handle`,
  `MostRecentFileTimestamp` and `Stop`. Nothing locks them. Only
  `MostRecentFileTimestamp` is accessed atomically.

Each tick of the polling goroutine calls `maybeDownload`, which runs a fresh
`Downloader.Run` when the reader has base urls. With `DownloadAtInit`, the
constructor calls it first, before `getLatestTimestamp`. `Run` is synchronous:
its cleanup has finished before the same tick reads `timestamp.latest`.

## Modules

- **`CacheReader.tla`** (MC: `MCCacheReader.tla`) models one reader.
  - Threads:
    - `poller`, the goroutine;
    - `owner`, which constructs, calls `Update` and calls `Delete`;
    - `LookupThreads`.
  - Each thread has a program counter `pc`. Steps are split at every point where
    another thread can observe or change shared state:
    - `Update`: nil check (`UCheck`), C call entry (`UEnter`), return from C
      (`UInC`), atomic store (`UStore`), callback (`UCallback`);
    - `Delete`: store 0 (`DeleteStore`), free (`DeleteFree`), `Handle = nil`
      (`DeleteNil`), `close(Stop)` (`DeleteClose`);
    - lookups: `isInitialized` (`LookupCheck`), C call (`LookupEnter`),
      return (`LookupReturn`);
    - goroutine: select on `Stop` (`PCheckStop`), read and compare the latest
      timestamp (`PLatest`, which starts an `Update`), sleep (`PSleep`).
  - Variables:
    - `handle` and `cobj` are the Go pointer and the C object;
    - `gen` is the generation the C side serves;
    - `stopClosed` records `close(Stop)`;
    - `fault` records undefined behaviour: a C call on a freed object, or a
      close of a closed channel.
  - The folder (`latest`, `onDisk`) changes through environment actions.
    They follow the downloader's order: `PublishArtifact` is the rename of
    the decompressed file, `PublishLatest` the timestamp files written after
    it, and `UnlinkOld` is `RemoveOldFiles` removing groups older than the
    one named. With `LatestMayMoveBack`, `PublishLatest` may name an older
    artifact, and an older artifact may be written again. A download from a
    lagging mirror or a writer whose clock stepped back does this. The
    writer's own order (latest before the rename) is `LocalPublication`'s.
    The cleanups that remove the artifact latest names are `Downloader`'s.
  - The C side (`CacheReader_Initialize`) is modelled from the spec. It swaps
    the generation atomically, or fails when the file is missing and keeps the
    old generation.
  - `ReaderInit` is the reader's part of `Init`; compositions use it with their
    own folder.
- **`AbstractReader.tla`** is what a self-updating reader promises, with no
  goroutines or handles. Its folder has the same steps as `CacheReader`'s
  (`Publish`, `Name`, `Unlink` of artifacts older than latest), with the
  same `LatestMayMoveBack`. The served
  generation changes only by `Load(t)`: one step, to a newer artifact that is
  on disk. `CacheReader` implements it under the mapping `served <- gen`
  (`AR == INSTANCE AbstractReader WITH served <- gen` in `CacheReader.tla`).
  The property `ServesForwardToPresentArtifacts` is `AR!Spec`.
- **`LocalPublication.tla`** (MC: `MCLocalPublication.tla`) composes a
  `CacheReader` (by `INSTANCE`) with the writer's `FinishCacheCreation`. Its
  steps are:
  - `WFinishCreation`: new timestamp;
  - `WTruncateLatest`: `os.WriteFile` truncates first;
  - `WWriteLatest`;
  - `WRename`: the artifact gets its timestamped name.
  - With `WriterMayFail`, the truncate, the write and the rename may each
    fail (`WriterFails`). `FinishCacheCreation` returns the error, and the
    writer goes on to its next build. A failed write leaves
    `timestamp.latest` empty (0). A failed rename leaves it naming a file
    that never appears.
- **`Downloader.tla`** (MC: `MCDownloader.tla`) models `Downloader.Run` for
  one basename, run by one or more processes on one folder.
  - A file is named by its timestamp and its kind: settings, size, checksum,
    cache, cache timestamp, or the temp file of downloader `d`. Every name
    contains its timestamp, so `disk[ts]` is exactly what the globs of
    `cleanup.go` and `hasAtLeastOneDownloadedFileAlready` see.
  - Each network request may fail, up to `MaxFailures` in a behaviour.
    With `DiskMayFail`, a local write may also fail (`WriteFails`, for
    `WriteStringToFile` of the settings, size, checksum and timestamp files),
    from the same budget. `download` returns the error, and the error cleanup
    follows.
  - `GetBaseUrlAndTimestamp` takes the maximum over the mirrors that answered.
  - `DownloadReason` is `shouldDownload`'s decision, translated early return by
    early return.
  - Run's steps, in code order:
    - `RunStart`, `ShouldDownload`;
    - `DownloadProbe`, `FetchSettings`, `FetchChecksum`, `FetchBlob`,
      `Decompress`;
    - `WriteSizeFile`, `WriteChecksumFile`, `WriteTimestamp`, `WriteLatest`,
      `WriteCacheTimestamp`;
    - `GcList` / `GcRemove` (`RemoveOldFiles`, one removal per timestamp) or
      `ErrorCleanup`.
  - `MirrorPublish` is the remote side, modelled from the spec.
- **`ReaderDownloader.tla`** (MC: `MCReaderDownloader.tla`) composes one
  `CacheReader` and one `Downloader` (both by `INSTANCE`) in one process with
  base urls and `DownloadAtInit`.
  - The reader's folder is the downloader's: `latest <- latestFile`, and
    `onDisk <- Artifacts`, the timestamps whose data file is on disk.
  - `tick` says which `maybeDownload` the process is in: the constructor's
    (`init`, `init_run`) or the goroutine's (`poll`, `poll_run`).
  - `DownloadStart` is `RunStart` of the process's downloader. The
    constructor's happens before anything else. The goroutine's happens
    between the `Stop` check and `getLatestTimestamp`.
  - `DownloadStep` is one step of `Run`. `runErr` records that `Run` returns an
    error, which it does exactly after `RemoveLastDownloadedFilesAfterError`.
  - `Construct` is the rest of `NewCacheReader`. An error from `Run` is
    returned to the caller and no goroutine starts. Otherwise the constructor
    is `CacheReader`'s `NewCacheReader`.
  - `PollLatest` is `PLatest` once `Run` has returned. The goroutine only logs
    `Run`'s error.
  - `Crash` kills the process at any step, at most `MaxCrashes` times. Memory
    is lost, and the folder is not. The decompression temp file, named after
    the process, and a `WriteStringToFile` in progress (`file_utils.go`
    19-28, one of `WritingStates`) stay behind under a random name from
    `TmpNames`. The new incarnation starts in `NewCacheReader`.
  - `Crash` also stands for `wait_remote` returning on SIGTERM: the process
    exits whatever its goroutine is doing.
  - `Restart` is the supervisor starting the process again after
    `NewCacheReader` returned an error. `wait_remote`
    (`WaitForRemoteFileUpdate`, `main.go` 334-365) then calls `log.Fatal`,
    and its deferred `Delete` never runs.

- **`CacheCreator.tla`** (MC: `MCCacheCreator.tla`) models the CLI's
  builder as a sequential state machine.
  No command under `src/` calls `InsertAllKeysAndValues`, so its properties
  are about the builder routine as written. The only deduplicating scanner
  in use is `comparo`'s (`main.go:152`).
  - The data file is a sequence of records. A key is a pair of a query id
    (0 for a key without `.`) and a name. A line without `=` is a record that
    is not ok.
  - `ScanRecord` is one iteration of `ForEach`. It does the whole body:
    - the error for a line without `=`;
    - `isKeyDuplicated` (`IsKeyDuplicated`) when deduplication is on;
    - the `InsertAllKeysAndValues` callback (`InsertCallback`): the
      LAST_POPULATE flag, the `previousKey` collapse, the skip of an empty
      value for a non-string type, then `InsertKey`.
  - `Finish` is the LAST_POPULATE check after `ForEach` returns.
  - `InsertKey` models the builder's table from the spec (the C++ code is not
    under `src/`). A present key is overwritten. A new key needs a free slot,
    else the build fails with `KeySpaceIsFullError`.
  - `SpecTable` is a RECURSIVE fold over the file that states the spec's
    policy. It is the reference the build is checked against.
  - After a successful build, `comparo` (`src/cmd/main.go`) scans the same
    file again, with deduplication on.
    - `ComparoStart` starts the scan.
    - `ComparoRecord` is one record. A duplicate is skipped. A key not found by
      `GetKeyType` is skipped. Otherwise `ComparoCheck` compares by type.
    - In `ComparoCheck`, a string compares the value. An int64 or double value
      that does not parse (the empty value) ends the scan with an error.
      Another type name falls into the default branch and counts a mismatch.
    - `ComparoEnd` reports mismatches first, then the scan's error, as
      `main.go` does.

Operators named `...Skipped`, `...Inverted`, `...StoresFirst` and so on are
mutants. Each is a plausible bug in the definition that follows it. The
properties are checked to catch them (PROJECT.json "mutants").

## Runs

| Run | Expect | What it shows |
|---|---|---|
| `reader_polling` | pass | A live polling reader with two lookup goroutines. `timestamp.latest` may be rewritten to an older artifact. The timestamp the reader reports is the generation it serves (`ReportedTimestampIsServed`). Once `timestamp.latest` stops changing, the reader ends up serving the artifact it names, or a newer one (`EventuallyServesLatest`). The reader refines `AbstractReader` (`ServesForwardToPresentArtifacts`): its served generation only moves forward, and only to an artifact on disk when `CacheReader_Initialize` switches. Going forward rests on the goroutine's strict `>` (`axoncache.go:238`) when latest moves back. Being on disk rests on `Update` storing nothing when the C call fails, while cleanup unlinks the artifact an `Update` read. |
| `reader_cli_update` | pass | The reader of the `get` and `wait_local` commands. The owner calls `Update` beside the goroutine and a lookup, then `Delete`. After `Delete`, the goroutine returns, even when it was inside an `Update` (`PollerStopsAfterDelete`). |
| `reader_lookup_during_delete` | violation | A lookup that passed `isInitialized` calls C after `Delete` freed the object (use after free). |
| `reader_poller_revives` | violation | An `Update` of the goroutine stores its timestamp after `Delete` reset it, so a deleted reader reports itself initialized. |
| `reader_concurrent_update` | violation | The owner's `Update` (as in `wait_local`) interleaves with the goroutine's. The reader serves the older generation while reporting the newer one, until a newer artifact is published. |
| `publication_polling` | pass | A polling reader sits beside a writer whose file operations may fail. Whenever a published artifact is what `timestamp.latest` names, the reader ends up serving it (`EventuallyServesPublished`). A failed write or rename strands it on the older generation only while nothing newer is published. |
| `publication_latest_first` | violation | `FinishCacheCreation` writes `timestamp.latest` before the rename, so latest names a missing file. |
| `reader_downloader` | pass | A reader with base urls and `DownloadAtInit` fetches what it serves with its own `Run`s. There are two mirrors, one of which may lag, and two requests or local writes may fail. The process may be killed once and is restarted whenever `NewCacheReader` fails. It ends up serving the newest published artifact, with it on disk and named by `timestamp.latest` (`EventuallyServesNewest`). |
| `reader_crash_leftovers` | violation | The same process killed twice. A failed re-download removes the current timestamp's files, and two kills leave two temp files beside its settings file. `shouldDownload` counts three files and says the timestamp is up to date, so every `NewCacheReader` fails and the process restarts, until the mirrors publish a newer timestamp. |
| `downloader_failed_redownload` | violation | A timeout in `shouldDownload` leads to re-downloading the current timestamp. A later failed request or local write makes the error cleanup delete the artifact `timestamp.latest` names. |
| `downloader_lagging_mirror` | violation | Local writes succeed here. A lagging mirror wins when the newest times out. The older artifact is downloaded, named latest, then deleted by `RemoveOldFiles` as old. |
| `creator_duplicates` | pass | This run covers every data file of at most four records, with and without scanner deduplication. A successful build without deduplication holds exactly the table of the spec's duplicate policy (`BuildFollowsDuplicatePolicy`). Such a build fails exactly on a line without `=`, a missing LAST_POPULATE key, or a third distinct key for two slots (`BuildSucceedsExactlyWhenValid`). With deduplication, when the records of each query id are contiguous, a successful build holds each key's first value (`DedupBuildKeepsFirstValue`); the scanner's `previousQid` reset makes this fail for a key repeated after another query id. Deadlock is not checked: the build returns once. |

### Bounds and why they are enough

- **Timestamps.** Three timestamps are enough to publish twice after the
  initial one. That is what an older generation racing a newer one, and
  retain-1 cleanup removing an older group, both need. `publication_polling`
  uses four. A publication can then fail and a later one still succeed,
  which the liveness property has to allow for.
- **Reader runs.**
  - `reader_polling` has two lookup threads (about 35,000 states). Lookups
    do not interact with each other, but two show a second lookup passing
    `isInitialized` while the first is in C. The violation runs use one.
  - `reader_polling` has no `Delete`. The abstract promise is about a live
    reader. After `Delete`, a goroutine that loads a moved-back latest is
    `reader_poller_revives`' resurrection again. `reader_cli_update`
    (about 100,000 states) has one `Delete`. A second only adds the double
    close listed as a hazard.
- **Creator run.**
  - Four records over four keys, two values and the empty value are enough
    for these cases: a run of duplicates, a duplicate after another key, an
    empty value then a value, and a LAST_POPULATE key beside a third
    distinct key.
  - Query 1 has an int type and query 2 the string type, so the empty-value
    skip applies to some keys only.
  - Two slots, so a full key space happens.
- **Downloader runs.**
  - Two failures let one request fail in `shouldDownload` and another in
    `download`.
  - Two mirrors are enough for one to lag.
  - The `Downloader` module supports several processes on one folder. No run
    uses this now (see the plan).
- **Composition run.** Two mirrors and two failures are used, as in the
  downloader runs. So a lagging mirror can win the constructor's probe or a
  tick's probe, and a `Run` can fail halfway while the reader serves. There
  are no lookups, owner calls or deletes. `CacheReader`'s runs check those,
  and none of them runs a downloader.
  - One kill is allowed in the passing run. Two are the fewest that leave two
    temp files, which together with the settings file make the three files
    `shouldDownload` counts; `reader_crash_leftovers` uses two.

Most runs finish in seconds. The largest are `creator_duplicates`, with about
390,000 states, and `reader_downloader`, with about 212,000.
`reader_crash_leftovers` finds its violation in about a minute, after about
575,000 states.

### Fairness

- **Reader.** The goroutine loops for ever with a sleep, so it gets weak
  fairness (`WF` on `PollerStep`). The owner's in-progress `Update` and
  `Delete` steps and the constructor also get weak fairness: once called, they
  run to completion. Lookups and new owner calls get none. The environment
  (publishing) gets none either. The liveness properties are therefore about
  what the reader does with the publications that happen.
  `EventuallyServesLatest` assumes `timestamp.latest` eventually stops
  changing. Otherwise a folder that moves latest back and forth can always
  show the goroutine the older value.
  `EventuallyServesLatest` is asked only of a reader that has not been
  deleted. After `Delete`, `PollerStopsAfterDelete` is the liveness property.
- **Downloader.** Each process gets weak fairness on its Run steps and on
  starting a new Run. This is because `maybeDownload` is called on every tick
  of the goroutine. Failures are bounded, so progress after the last failure
  is what the liveness property asks for.
- **Composition.** The process's own sequence gets one weak fairness
  condition: the constructor's `Run` and `Construct`, and then each tick's
  `Run` and `PollLatest`. It holds for the same reason as the two above: `Run`
  runs synchronously inside the goroutine. The goroutine's other steps get
  `WF` as in `CacheReader`: its Stop check, sleep and `Update` steps. Its
  `PLatest` is not among them, because in the composition `PollLatest`
  takes its place. The mirrors get no fairness. `Restart` is in the
  same condition: the process is assumed to run under a supervisor that
  starts it again when it exits. Kills get no fairness and are bounded.
- **Creator.** There is no fairness: the build is sequential and is checked
  by invariants on its final states.

### What the checks found

There are seven findings, listed in PROJECT.json with their source lines.

- Two are use-after-free or resurrection races between `Delete` and the
  reader's other goroutines.
- One is a lost update between the owner's `Update` and the goroutine's.
- One is the writer publishing `timestamp.latest` before the artifact.
- Two are downloader cleanups deleting the artifact that `timestamp.latest`
  names. Either a re-download of the current timestamp fails, or a lagging
  mirror wins the probe.
- One is temp files left by killed processes (`file_utils.go:20`, the
  decompression temp file) making `shouldDownload` (`download.go:502`) count
  an incomplete download as complete, until the mirrors publish a newer
  timestamp.

Two observations are not findings.

- In `ReaderDownloader`, `Run` always retains exactly one download
  (`download.go:864`), and it removes older files before the same tick reads
  `timestamp.latest`. So when a lagging mirror moves `timestamp.latest` back,
  the process's own reader finds the older artifact already gone. Its
  `Update` then fails, and the served generation never moves back. This
  holds even if `checkForNewFiles` compared with `!=` instead of `>`.
- `comparo`'s switch on the key type has no `Bool` case (`main.go`
  175-283). A key of type `Bool` falls into the default branch and counts a
  mismatch, so `comparo` rejects every cache with a boolean query. This is
  easy to test, so the model's instance has no boolean query.

Checking also showed a livelock. Two processes that share a folder can keep
deleting each other's temp files. This is listed as a hazard: the spec does not
say folders are shared.

## Not modelled, and the plan

- **Not modelled.**
  - The C++ engine's table, hashing and binary layout (not under `src/`).
  - `properties.go`: parsing and writing `key=value` lines. It is pure string
    conversion with no state across calls. Its consumer, the settings
    request, is abstracted in `Downloader` to success or failure. Its one
    quirk is easy to test: a value containing `=` is dropped.
  - The scanner's byte-level record splitting and its statistics.
  - An empty key, which panics in `ExtractQueryId` (listed as a hazard). It
    is found only by a violation run, and the run budget is spent.
  - A wall clock that steps back (`axoncache.go:651`), or two builds in the
    same millisecond: the writer's timestamps in the model only grow. Listed
    as a hazard. Like the empty key, it needs a violation run of its own.
  - The two-process cleanup livelock (`cleanup.go:196`). It needs a
    violation run of a two-process `ReaderDownloader`, and the run budget
    of twelve is spent.
  - A failure of the C++ `FinishCacheCreation` call (`axoncache.go` 647).
    It returns before the timestamp is taken, so neither the folder nor the
    writer's timestamp changes. For the reader it is a stuttering step.
  - The GCS client.
  - Benchmarks.
  - Progress display.
  - `waitUntilNewFileIsAvailable` and `DownloadFile`: nothing calls them.
  - mmap after download. `NewDownloader` turns it on (`download.go:150`),
    but it only maps the file and logs, and the folder does not change.
- **Not checked on purpose.**
  - `comparo`. Its steps are modelled, but no property is checked of them.
    A key repeated after another key is compared against its first record,
    while the builder keeps the last, as spec 8.3 asks. A `Bool` key always
    counts a mismatch (`main.go` 273-278). So `comparo` rejects such caches.
    The only statement that holds leaves both cases out, and checks
    little. Each case is a violation run of its own, and the run budget is
    taken.
  - The refinement of `AbstractReader` does not hold under
    `reader_concurrent_update` (the lost update found there). It does not
    hold in `ReaderDownloader` either, where cleanup deletes the artifact
    `timestamp.latest` names (the downloader findings). It is checked only
    where the single-updater contract holds.
- **Planned next:** two reader processes sharing a folder in
  `ReaderDownloader`, for the cleanup livelock, if a run becomes free.
  Local write failures in the downloader and the writer are now modelled.

  Runs are limited in number. The pinned reader's delete run gave its place
  to `reader_cli_update`: with one sequential owner it only restated the nil
  check of `Update`. The single-process downloader run was replaced by
  `reader_downloader`, whose liveness property asks more of the same `Run`s.
The two-process downloader run gave its place to `reader_crash_leftovers`.

`TypeOK` in each module states the type of every variable. It documents the
state space and is not one of the runs' properties.
