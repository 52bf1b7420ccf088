# TLA+ models of arctic

Models, model-checking runs and machine-checked proofs for `arctic`, the command
that downloads the monthly Reddit archives from their torrents, cuts them into
Parquet shards and publishes the shards as a Hugging Face dataset, and that
fetches single subreddits and users from the Arctic Shift API.

Paths below are relative to `src/`. `PROJECT.json` holds the exact
correspondence: for every definition the lines of code it stands for, for every
run its properties, for every property a plausible bug in the code that breaks
it.

## 1. The system

### Components

| Component | Code | State it keeps | Operations |
|---|---|---|---|
| Publisher | `arctic/publish.go` | the jobs in flight, the in-memory progress map, `commitMu`, `statsMu`, files under the work directory | `Publish`, `download`, `process`, `commitBatch`, `commit`, `recordAndREADME`, cleanup |
| Pipeline scheduling | `arctic/publish.go` | three bounded channels, the decoder gate, the watchdog's clock, `stalled` | `runPipeline`, `runSequential`, `waitForDisk`, `watchStall` |
| Processor | `arctic/process*.go` | the scan: position, shard index, buffer; the decoder slot; shard files | `ProcessFileStream`, one scan per engine (pure Go, DuckDB) |
| Hugging Face client | `arctic/hf.go` | none between calls; attempts and backoff in a call | `UploadFiles`, `commitBatch`, `uploadLFS`, `postCommit`, `CreateDatasetRepo` |
| Stats ledger | `arctic/stats.go` | `stats.csv`, one row per (month, type) | `ReadStats`, `AppendStats`, `CommittedSet` |
| Progress ledger | `arctic/progress.go` | `publish-progress.json`, one entry per month in flight | load, save, set, clear |
| Torrent download | `arctic/torrent.go` | files under the data directory | `DownloadMonth`, `DownloadFile`, `downloadAttempt`, `placeFile`, `QuickValidateZst` |
| Catalog | `arctic/catalog.go`, `catalog_refresh.go`, `cli/cmd_query.go` | built-in info hashes, the process's overlay, the cache file | `InfoHashFor`, `catalog refresh`, the load during setup |
| Arctic Shift client | `shift/*.go` | the rate limiter; per bucket a cursor and a file | `FetchRange`, `FetchSubreddit`, `FetchUser`, `get` |
| Archive commands | `cli/cmd_acquire.go`, `cli/errors.go` | `.jsonl` and `.zst` files, numbered shards in one directory per target | `sub`, `user`, `pull`, `process` |
| Local index | `arctic/index.go`, `cli/parquetscan.go` | one SQLite row per shard path | `recordShards`, `stats` |
| Inspect cache | `shift/import.go` | `info.json` | `Inspect` |
| Budget, hardware, configuration | `arctic/budget.go`, `hwdetect*.go`, `config.go` | none | arithmetic on what the host has |
| Schema, rendering, query, README text, CLI | `arctic/schema.go`, `pkg/render`, `cli/*.go`, ... | none | conversion and output |

### How they interact

`arctic publish` calls `Publish`. It reads `stats.csv`, queues every wanted month
that has no committed row, loads `publish-progress.json` and runs the queue. In
the pipeline, a feeder sends each job to download workers, they send it to
process workers, those to the one commit worker; `errgroup` cancels all of them
when one returns an error. On a small host one goroutine takes each month through
all stages instead. A download is one call of the torrent client; a process is one
call of `ProcessFileStream`, which hands each finished shard back through
`OnShard`; with `--commit`, `OnShard` collects shards and calls `commitBatch`,
that is `UploadFiles` under `commitMu`, then `setProgress`, then the removal of
the local shards. When the scan is over the last batch is committed the same way
and the commit stage writes the month's ledger row, pushes `stats.csv` and
`README.md`, clears the progress entry and removes the local files. A watchdog
cancels a run in which nothing has moved for ten minutes. A supervisor (the shell
loop of `docs/content/guides/publishing.md:71-77`) starts the command again when
it ended with exit code 75, and with no other; a run that skipped a failed month
ends with 0 (`publish.go:285-292`, `328`).

The other commands build a local archive and share it. Each starts with `setup`,
which loads what `catalog refresh` has cached over the compiled-in months. `pull`
goes over months and types: resolve, download, and with `--process` convert and
index. `sub` and `user` take one entity's comments and submissions, from the
per-subreddit torrent or through `FetchRange` into `<type>.jsonl`, which is then
compressed and converted like a dump. `process` converts files it is given. All
convert with the `ProcessFile` that `publish` uses, into `000.parquet`, `001.parquet`,
... of the target's directory, and all but `process` then hand every shard found
there to `recordShards`, which upserts the index rows that `stats` counts.

### What is hard, and what makes each part correct

* **Publisher.** A run can end between any two steps; months interleave; four
  stores (disk, two local ledgers, the hub) change one after another. Correct when
  no ledger row, no progress entry and no deletion is ever ahead of the hub, and
  a run that meets no further fault publishes what it set out to.
* **Pipeline.** Channels closed by goroutines that wait for other goroutines; a
  counting semaphore and a mutex taken without looking at the context, one inside
  the other; a watchdog that races the stage it gives up on. Correct when no run
  hangs, no token or lock outlives its holder, no job has two owners, nothing is
  sent on a closed channel, and a stall is reported as one.
* **Processor.** A resumed scan must cut exactly where the interrupted one did,
  under two engines that count different lines. Correct when the shards it hands
  over are those of an uninterrupted scan, once each, in order and whole on disk.
* **Hugging Face client.** Requests that take effect and lose their answer;
  commits that refer to objects uploaded before. Correct when batches land whole
  and in order, refer only to stored objects, and a cancel stops the client.
* **Download.** Pieces arrive in any order or never; the same path may be written
  by the torrent client and read by the validator. Correct when the destination
  holds a whole file or none, and neither retries nor restarts lose pieces.
* **Archive commands.** They end anywhere and leave files to the next one:
  truncated JSONL, shards without a footer, shards of an earlier and longer
  import, an index that stopped half way. Correct when no incomplete fetch is
  ever converted, an exit code says what happened, and the index agrees with the
  directory it was said to describe.
* **Catalog.** What a refresh learned must outlive the page it was read from, in a
  file that is overwritten in place. Correct when a month once reported can be
  pulled from then on.
* **Budget.** Caps derived by clamping, then overridden. Correct when a computed
  budget fits the host and any budget is one the pipeline can run with.
* **Arctic Shift client.** Concurrent buckets joined in order, an API whose lower
  bound is exclusive. Correct when the output has each record once, in order, or
  is an error.

`PROJECT.json` lists 40 places where one of these can go wrong, each with the
properties that watch it or the reason why none does.

## 2. The modules

| Module | Models | Abstract specification | Checked by | Proved in |
|---|---|---|---|---|
| `Publisher` | what a publish leaves behind, over runs, failures and crashes | | `MCPublisher` | `PublisherProofs` |
| `Pipeline` | how a run schedules its months, and how it ends | | `MCPipeline` | `PipelineProofs` |
| `Processor` | `ProcessFileStream` over repeated calls | `ShardStream` | `MCProcessor` | `ProcessorProofs` |
| `Chunking` | the reference definition of a month's shards | | by `Processor` and `MCPublisher` | `ProcessorProofs` |
| `HubUpload` | one `UploadFiles` | `BatchUpload` | `MCHubUpload` | `HubUploadProofs` |
| `Download` | `DownloadMonth` over repeated calls | | `MCDownload` | `DownloadProofs` |
| `ShiftFetch` | one `FetchRange` | | `MCShiftFetch` | `ShiftFetchProofs` |
| `Catalog` | which months resolve, and the refresh cache | | by `Archive` | `ArchiveProofs` |
| `ShardStore` | shard directories and their index | | by `Archive` | `ArchiveProofs` |
| `Archive` | `sub`, `user`, `pull`, `process`, `catalog refresh`, over many commands | | `MCArchive` | `ArchiveProofs` |
| `Budget` | `ComputeBudget` and its overrides | | by `MCPipeline` | `BudgetProofs` |

How they fit together. `Publisher` and `Pipeline` are two views of one file.
`Publisher` keeps what is durable and lets the months' steps interleave freely,
except where a mutex excludes it; `Pipeline` keeps who works on what, and reduces
each stage to its outcome. `Publisher` is meant to allow every order of months
that `Pipeline` can produce; showing it is in the plan. `Publisher` writes shards and commits batches in the steps
that `ShardStream` and `BatchUpload` promise, and `Processor` and `HubUpload` are
shown to implement these. The counts of shards and rows `MCPublisher` is given
are compared with what `Chunking` computes (`TablesMatchChunking`). `Archive`
composes `Catalog` and `ShardStore`, whose variables it extends with those of the
running command; a download, a fetch and a scan are steps with the outcomes that
`Download`, `ShiftFetch` and `Processor` allow their callers to see. `Budget`
computes the numbers that are constants in `Pipeline`: its `downloads`, `process`,
`decodes` and `sequential` are the workers, the slots and the mode there.

### Publisher

One job record per month stands for `publishJob`: `stage` is where its goroutine
is, `next` and `rows` are `job.result.Shards` and `.Records`, `flushed` is the
first shard not in a committed batch, `sent` the files of the current batch that
hub commits have covered. `mem` is `publisher.progress`, and `progress`, `ledger`,
`local`, `zst` are what is on disk; `hub[m][n]` says under which layout the file at
`data/<type>/YYYY/MM/<n>.parquet` was cut, where a *layout* is an engine with a
chunk size. One action per step that another step, a failure or a crash can
separate: `Download`, `StartProcess` (with `resumeSeed`), `WriteShard`,
`FinishScan`, `StartUpload`, `HubCommit`, `EndUpload`, `SetProgress`, `DropBatch`,
`AppendStats`, `PushLedger`, `ClearProgress`, `Cleanup`. `HubCommitAnswerLost` and
`PushAnswerLost` are requests that took effect without the client learning of it;
`StageFails` is an error return from any stage that can return one; `Crash` ends
the process anywhere and stands for every cancellation too; `StartRunUnreadable`
is a start whose progress file does not parse. A request whose answer was lost
takes effect at once here: the hub is assumed to apply what it got for one
repository in the order it got it. `HubUpload` does without that assumption and
lets such a request land at any later time.

### Pipeline

`at[w]` is where worker `w` stands and `holds[w]` the job it owns; `downCh`,
`procCh`, `commCh` are the channels with the code's capacities (workers + 1, and
2). A `select` between a ready channel and a done context may take either, so
both actions are enabled. `decoders` counts the gate's tokens; `scanUpload` is an
upload from inside the scan, with the token held, and `scanned` the scan after
it. `idle` counts the watchdog's ticks since `markProgress`. `waitForDisk` holds
download workers while `DiskRoom` files are staged, and every poll counts as
progress. `mode` picks `runPipeline` or `runSequential`, with or without
`--commit` and `--keep`; with `--keep` a month's file stays staged for good. The
watchdog runs under its own context: after a fatal error it ticks and may still
fire while the run winds down, but not after the user's cancel.

### Processor, Chunking, ShardStream

A line is `"row"`, `"bad"` (starts with a brace, does not parse) or `"noise"`. The
Go engine counts rows towards a chunk, DuckDB counts rows and bad lines; that is
`Counted`. Both scans are one set of actions, which differ in `Counted` and in
`HoldsForLast` (DuckDB keeps the decoder slot while it writes the last shard). A
call fails at any point, its caller keeps some of the shards it was handed, and
the next call's `StartShard` is their number. `ShardStream` says: what is kept is
a prefix of one list of shards, and a call that succeeds completes it.

### HubUpload, BatchUpload

`pc` walks one attempt: read the files, negotiate the large ones, PUT each object
the hub asked for, post the commit; `Sending` and `Waiting` split each request
into the moment before it leaves and the time in which its answer can be lost.
`Unheard` is a request given up on, by a lost answer or a done context: it has
taken effect, or never will, or waits in `latePuts` or `lateCommits` and lands by
`LatePut` or `LateCommit` at any later moment, the next attempts and the time
after the return included. `BatchUpload` says: batches are committed in order and
whole, success means all of them, failure at most one more than the client knows
of. A commit that lands late repeats a batch the branch has, or adds the one that
is being retried or has failed; what the branch can still come to hold is `Reach`.

### Download

`disk` maps the destination and the torrent's nested path to the set of pieces
there. `where` says whether the torrent nests the file, has it at its root (then
the client writes straight to the destination), nests it while the client wrote
the destination all the same (`"direct"`, which `placeFile` reckons with), or does
not exist yet. `Named` is the path `placeFile` looks at, `Laid` the one the client
writes to; `InPlace` has `placeFile`'s two ways of moving nothing. `TryRemove` is a
removal whose error the code ignores.
`fullLength` says whether the torrent client gives a file its full size at once;
this belongs to the library, so both are checked. `QuickValidate` looks at the
same places as `QuickValidateZst`: head, tail and three samples. `Begin` is
everything `DownloadMonth` does before `DownloadFile`.

### ShiftFetch

A record is its position in an archive sorted by time; `slot[m]` is the goroutine
of month bucket `m` with its cursor, its count of retries and the records in its
file. `Launch` is the loop that starts buckets in order under the limit,
`PageArrives` one page with the cursor's advance, `Join` the copy of one bucket's
file into the caller's writer; `JoinFails` leaves any part of one there and
returns the error. The API follows the repository's test server
(`shift/client_test.go:36-47`): strictly after `after`, strictly before `before`.

### Catalog, ShardStore, Archive

A month is a number, known or not; `releases` is the external releases page,
newest first, of which one request shows `PageSize` entries. `cache` is
`catalog-monthly.json`: a set of months, empty if there is no file, `Unreadable`
after a write that was cut short (`os.WriteFile` truncates first). `override` is
`monthlyOverride`, set once by `setup`, and `cached` what the running refresh read
of the file; both take an error of reading it for an empty one
(`ReadMonthlyCache`). `printed` is a history variable: the months that saving
refreshes reported since the last torn write, but for those that a later refresh
could not read and so dropped from the file.

`shards[d][n]` is the file `<n>.parquet` of directory `d`: absent, torn (created,
no footer yet), or named by the run and the input file whose data it holds;
`Partial` is the data of a fetch that did not finish. `index[d][n]` is the row of that path. `OpenShard`,
`CloseShard` and `RemoveShard` are the three things `writeShard` does to a path;
`RecordShards` upserts the listed shards in order up to a point, which is the end
unless a footer cannot be read or the database refuses.

`Archive` runs one command at a time: `cmd` with its flags, `targets` the list its
loops go over (types for `sub` and `user`, months and types for `pull`, files for
`process`), `i` the loop's place and `at` the stage of the target. `job` is the
conversion, `tally` the counters that decide the exit code, `exit` how it ended.
Each stage can fail the way its caller sees it: `OnError` returns for `sub` and
`user` and counts and goes on for the other two. `Kill` ends a command at any
stage. `landed` has the targets it obtained data for, also when the fetch failed
afterwards; `missing` and `report` say what it found unpublished and what it
printed. Data may make no shard: a file none of whose lines parses. Raw JSONL, downloads, shards, index and cache stay for the next one.

### Budget

Memory and disk are counted in half gigabytes, in which every constant of
`budget.go` is whole and `int(x/y)` is integer division. `ComputeBudget` and
`ApplyBudgetOverrides` are the two functions; `WithinHost` collects what the
comments promise of a computed budget, `Workable` what the pipeline needs of any.
Assumptions of `MCPipeline` evaluate both over a grid of hosts and settings, and
say for which host the instance of the run is the budget.

### Variants

Next to some definitions stands a second one, such as `SeedPastEnd` before
`Seed` or `KeepLock` before `Unlock`. No specification uses it. It is the
same definition with one plausible mistake, and `PROJECT.json` (`mutants`) says
which property finds the mistake when it takes the definition's place.

## 3. The runs

Seven runs check a component, five exhibit one disagreement each between the code
and what the repository says of it. The counts are the distinct states TLC reports
for the complete state space. Every passing run also checks the `TypeOK` of its
module.

| Run | Instance | States | Shows |
|---|---|---|---|
| `publisher` | two months of 3 and 1 shards, batches of 2, one file per hub commit, three faults, runs with and without `--keep` | 114,728 | `LedgerTrue`, `ProgressBacked`, `BatchOnDisk`, `DropsOnlyPublished`, `LedgerKeepsRows`, `CleanRunPublishes` |
| `processor` | all 121 files of up to 4 lines, both engines, chunks of 1 to 3, three calls | 134,251 | `ShardsExact`, `ReportedOnDisk`, refinement of `ShardStream`, `AllRowsLand` |
| `hub_upload` | 3 operations of every mix of kinds in batches of 2, three attempts | 50,706 | `NoDanglingPointer`, `CancelStopsHub`, `Returns`, refinement of `BatchUpload` |
| `pipeline` | three months, two download and two process workers, one decoder slot, room for one file, one failing stage, any cancellation; in the pipeline with `--commit`, with and without `--keep`, and sequentially with and without `--commit` | 468,012 | `NoSendOnClosed`, `OneOwner`, `GateBalanced`, `DiskOvershoot`, `CleanReturn`, `Terminates` |
| `shift_fetch` | archives of up to 3 records in months of 2 and 3 seconds, four windows, two workers, pages of 2, one retry | 166,219 | `EachRecordOnce`, `AllOrNothing`, `OnlyBoundariesLost`, `Returns` |
| `download` | six pieces, two attempts, two calls, every place the client may write to | 258,948 | `WholeAtDest`, `KeepsPieces`, `KeepsWhole`, `Returns` |
| `archive` | two importing commands in any order and with any flags, or one and two refreshes; two types for an entity, one for `pull`; up to 2 shards; four months; a releases page of one entry | 780,974 | `OnlyWholeImports`, `ExitTrue`, `IndexTrue`, `PrintedIsPullable` |
| `publisher_dry_run` | a dry run, then a committing one, no fault | | `LedgerTrue` violated |
| `pipeline_stall` | sequential, committing, a stall | | `StallReported` violated |
| `download_accept` | as `download` | | `AcceptedIsWhole` violated |
| `archive_blocked` | as `archive` | | `BlockedDataImported` violated |
| `archive_process_out` | as `archive` | | `EachInputConverted` violated |

### Why the bounds are enough

* Two months are the fewest that contend for `commitMu` and for the ledger; 3
  shards with batches of 2 give a full batch and a trailing one, and one file per
  hub commit makes a batch take several of them, so that it can fail half way;
  the second month is smaller than a batch. Three faults allow a crash, a crash
  of the recovery and a failed write besides.
* A file of 4 lines with chunks of up to 3 has empty files, files that end on a
  boundary, chunks without a parseable line, and (with chunk 1) four shards. Three
  calls let a resume be interrupted in turn.
* 3 operations in batches of 2 make a full batch and a short one; 3 attempts is
  the code's number. A commit of the first batch that lands late can do so in a
  later attempt, in the second batch or after the return; a third batch adds
  nothing to that, and `UploadsInOrder` and `CancelStopsHub` are proved for any
  number.
* Three months with two workers per stage fill each channel and put two workers
  at the gate, at the mutex and at the disk floor together. One slot and room for
  one file are the tightest settings. In the code the channels hold one job more
  than there are workers, and so they do here; a feeder blocked on a full channel
  would take a fourth month. A dry pipeline is left out: its steps are those of a
  committing one without the uploads.
* Six pieces are the fewest for which the
  sampled places (1, 2, 4, 5 and the last) leave one out, which is what makes the
  check a check of samples.
* Records at, before and after each month's edge, twice in one second, and pages
  cut inside a second all occur among the archives of `shift_fetch`.

* In `archive`, month 1 is the bundle, 2 is compiled in, 3 and 4 are published
  later, and a pull may also name month 0, before the catalog starts. With one
  entry on the page the second release pushes the first one off it. Two commands
  over one directory, the first of up to 2 shards and the second of fewer, leave
  old shards, torn ones and old rows for the second to meet; two refreshes give
  one that extends the cache and one that repeats or tears it. `Mixes` keeps the
  two kinds from multiplying: what a third import could meet, a second already
  does. The proofs carry the properties to any number.

### Fairness, and why the code justifies it

* `Publisher`: workers that can take a step do, since goroutines are scheduled and
  every call they make has a timeout or the watchdog behind it. Nobody owes a new
  run: the guide's loop starts one after exit code 75 only, and a run that skipped
  months exits 0. Nor is a fault owed. `CleanRunPublishes` is therefore about the
  run that is there: from whatever earlier runs and faults left, it publishes each
  month it was started for unless another fault comes first.
* `Processor`, `HubUpload`, `ShiftFetch`, `Download`: a call that can go on does.
  Requests have a timeout (`hf.go`, `client.go`), timers and tickers fire, the
  metadata wait has a deadline. Nothing is asked of the swarm, the hub or the API:
  pieces may never arrive and every request may fail.
* `Pipeline`: stages end by themselves, for the reasons just given. Nobody owes a
  cancel, and the watchdog need not tick. Fairness is asked of the progress of the
  run as a whole, not of each worker: some goroutine that can go on does.

`Terminates` allows one way not to return: downloads held for good by a disk that
nothing frees. `waitForDisk` waits on purpose (`publish.go:171`) and every poll
calls `markProgress` (`publish.go:195`), so the watchdog never sees it. This is
reachable: the `.zst` of a month that failed stays on disk.

`Archive` has no liveness property: what could hold a command up is inside a
download, a fetch or a scan, whose modules have theirs.

Deadlock checking is off where a finished run is a state without successor;
`Terminates`, `Returns`, `AllRowsLand` and `CleanRunPublishes` say instead that
the end is reached.

## 4. What the violations show

Each is quoted in full under `findings`.

1. **A rehearsal marks months as published.** A run without `--commit` writes the
   ledger row with `CommittedAt` set; the committing run that follows skips the
   month (`publisher_dry_run`).
2. **A stall that returns nil.** In sequential mode a cancelled stage is a skipped
   month, so the run ends with exit code 0 and not 75 (`pipeline_stall`).
3. **A partial file taken for a good copy.** The sampling check passes what an
   interrupted call left (`download_accept`).
4. **A blocked fetch imports nothing.** The troubleshooting page says that the data
   already pulled is imported and a re-run continues; `FetchRange` hands its error
   over before any data, `acquireEntity` returns it before the import, and a re-run
   truncates the file and starts over (`archive_blocked`). `OnlyWholeImports`, which
   holds, is the other side of it: no shard has the data of such a fetch.
5. **Two inputs, one `--out`.** The reference shows `process` with two files and one
   `--out`; the second overwrites the first's shards, both are reported and the
   exit code is 0 (`archive_process_out`). `ExitTrue` leaves such a command out
   (`OwnDirs`) and holds for all others.

A sixth needs another instance of `MCPublisher`, with `BothEngines` or
`BothChunkSizes` for the runs' layouts: `LedgerTrue` fails there. A month that has
shards on the hub but no usable progress entry starts again at shard zero, and
nothing removes what a run with the other engine or the other `--chunk-lines`
left (`publish.go:477-490`).

Things met while reading the code that no run is about:

* The ledger row is written locally before it is pushed (`publish.go:537`,
  `551-560`). When the push fails, or the process dies before it, later runs skip
  the month, and one that has nothing to do pushes nothing: the row reaches the
  hub with the next month's push, if there is one. The guide calls the dataset's
  `stats.csv` the record of which months have landed
  (`docs/content/guides/publishing.md:61-63`).
* `shift/parallel.go:27-29` says that the fetch by months gives the stream one
  sequential walk would. A record in the first second of a month belongs to no
  bucket, since `after` is exclusive (`parallel.go:152-157`), and is lost.
  `OnlyBoundariesLost` says that nothing else is.
* When the join of `FetchRange` fails half way, the caller's file keeps what was
  copied, and the error is returned (`parallel.go:106-122`).
* A fatal hub error (`hf.go:52-53`) ends the run only in the commit stage; in a
  shard upload it skips the month (`publish.go:285-292`).
* `hf.go:145-146` speaks of three retries where there are three attempts, and the
  last failed attempt is followed by a backoff before the error is returned.
* `client.go:32-33` says a 429 consumes no retry; `client.go:102-108` counts it.
* `process.go:86-88` says lines that do not parse are counted; DuckDB's are not.
* `catalog --sizes` looks sizes up under a file path (`cmd_query.go:143-144`),
  `FetchZstSizes` writes them under `type/YYYY-MM` (`torrent.go:424-467`): no size
  is ever shown, though `docs/content/guides/bulk-pulls.md:22` recommends it. For
  a month known from a refresh only, it asks for the empty hash (`torrent.go:460`).
* `sub --no-import` over the torrent counts no record, so it exits 3 after a
  download that went well (`cmd_acquire.go:248-263`);
  `docs/content/guides/subreddits-and-users.md:55-60` offers it for exactly that.
  `ExitTrue` is about commands that import.
* The default of `--to` is computed before `setup` loads the refresh cache
  (`cmd_acquire.go:78`), so a bare `pull` stops at the compiled-in end.
* A shard that fails and is removed leaves its row in the index
  (`process_go.go:55-75`), and `stats` counts it until the path is written again;
  `IndexTrue` therefore asks that the shards are among the rows, not equality.
* A torn shard behind the last one of a new import makes `sub info`, `query` and
  `recordShards` fail on that directory until a longer import replaces it.
* A refresh ignores an error of reading its cache and saves the page's months
  alone (`cmd_query.go:178`); `PrintedIsPullable` leaves out the months it lost.
* A refresh that finds no new month does not save, also when a known month's hash
  has changed (`cmd_query.go:194-202`).
* `--workers` overrides the conversions only (`root.go:168-176`); its comment and
  `docs/content/guides/hardware-budget.md` say the downloads too. The same guide
  makes `sequential` a matter of memory or cores; in `budget.go:41` it is memory
  or disk.
* The overrides of `budget.go:112-135` apply after the clamps.
* A user and a subreddit of one name are one group in `stats` (`index.go:99-105`).
* `torrent.go:39-40` says partial data is fine to resume from; for a file at the
  root of its torrent `DownloadMonth` removes a partial one that fails the check.
* The ledger is not keyed on the dataset: publishing to a second repository with
  the same work directory finds every month committed.

## 5. What is proved

`tlapm` checks all proofs; they hold for every value of the constants that the
named `ASSUME`s of the modules admit.

* **Publisher** (`PublisherProofs`). `TypeCorrect` and `RowsAreKept` need nothing
  else. `ProgressIsBacked` and `BatchesOnDisk` assume `OneLayout(l)`: every run
  cuts months the same way. `LedgerIsTrue` and `DropsArePublished` also
  assume `CommitOnly`: no dry runs. Violation 1 above and the instances with two layouts
  show that neither assumption can go. The invariant `Inv(l)` relates each job to the hub (the
  shards before `flushed`, and those of the batch already sent, are there under
  `l`), to its rows (`rows` is the table's value at `next`) and to the disk (an
  open batch is there); to it come the entries of both progress maps, and
  `LedgersOf(l)` for the rows. The properties alone are not inductive: a row is
  written from `next` and `rows` two steps after the last upload, and an entry
  from what the seed was. `HubKeeps` is the frame of the argument: no step takes a
  shard of `l` off the hub.
* **Processor** (`ProcessorProofs`). `ScanTypeCorrect`, `ShardsAreExact`,
  `ReportedStaysOnDisk` and `ImplementsStream`. The invariant's core is `Counting`:
  `shardN * chunk + inChunk` is the number of counted lines read. It holds during
  fast-forward and in both engines, and makes boundaries a function of the
  position; `Buffered` then says what the buffer holds, `HandedOver` that the
  shards handed over continue what is kept. The first lemmas are the arithmetic of
  `Chunking`: ranks grow by at most one, and how many chunks a rank fills.
  `ReportedStaysOnDisk` needs `Behind`: every path reported lies behind the shard
  that is open, so a later write or removal is at another path.
* **HubUpload** (`HubUploadProofs`). `UploadTypeCorrect`, `PointersResolve` and
  `ImplementsBatches`, and `CancelFreezesHub`, the property about what stays so
  for good: `Stopped(n)` is an invariant from the moment it holds. It bounds what
  the branch can come to hold, the commits given up on included. `Ahead` says that the branch holds the batches done or one
  more; `Negotiated` that before the commit goes out, what it refers to is stored
  or still to be sent.
* **Download** (`DownloadProofs`). `DownloadTypeCorrect`, `DestIsWhole`,
  `PiecesAreKept`, `WholeIsKept`. The invariant adds that a download in progress
  has the result `"running"`. `WholePasses` is the reason why good files are kept:
  the places the check samples are pieces of the file, whatever its length.

* **Archive** (`ArchiveProofs`). `ArchiveTyped`, `FailedFetchesStayOut`,
  `ExitCodesTrue`, `IndexedShardsCounted` and `PrintedStaysPullable` are the run's
  five properties, for any catalog, directories, months and number of commands.
  `Working` ties the stage to the loop. `Whole` adds that what is about to be
  converted is the command's own, complete data. `Unsaid` says that nothing is
  reported of a directory while it is rewritten. `Remembered` says that the cache,
  or what is about to replace it, has all that was printed, and that a pull's
  overlay is the cache as it stands. `Truthful` is the longest: what was obtained
  is in place or in hand, up to the next shard, where inputs have directories of
  their own; the targets already passed are
  dealt with; what landed is counted or about to be. The exit code is computed from
  counters at the end, so the property alone says nothing of the steps before.
* **Pipeline** (`PipelineProofs`). `PipelineTypeCorrect`, `NeverSendsOnClosed`,
  `JobsHaveOneOwner`, `GateNeverLeaks`, `FloorOvershootBounded` and `ReturnsClean`
  are all the safety properties of the run, for any number of months, workers,
  slots and faults and for both modes; `RolesAssumption` says what the budget
  guarantees (`OverriddenWorkable`), that each pool has a worker. Besides the properties themselves the
  invariant has `Roles` (a worker keeps to the stops of its role, and has a job
  exactly while it works), `Closing` (channels close in order, each after its
  senders left, and a worker leaves only a channel that is closed and drained),
  `MutexHeld`, `Unfed` (what the feeder still has is untouched) and `UnderFloor`,
  which counts the downloads under way with the staged files: the bound on the
  staged files alone is not inductive. `OneOwner` is a sum over the workers and the
  three channels; `CountExcept`, `InChAppend` and `InChTail` say how each term
  moves. A step is one of three kinds: inside a stage (`InsideStep`), the end of a
  stage (`EndsOrReturns`), or a job that changes hands (`TransferOwners`).
  `FatesAreFinal` is an action property no run checks: a month that has a fate
  keeps it.
* **ShiftFetch** (`ShiftFetchProofs`). `FetchTypeCorrect`, `WriterGetsEachOnce`,
  `WriterGetsAllOrNothing` and `OnlyBoundariesAreLost`, for any archive, window,
  calendar, page size, number of workers and of retries. `ArchivesAssumption` says
  that an archive is in time order; `CalendarAssumption` and `SpansAssumption` that
  months are consecutive and span the window once `FetchRange` has raised its start to
  `MinEpoch`: `monthBuckets` lists every month between its ends. `FileOK`
  relates a bucket's file to its cursor: it is what the archive has up to there, in
  order, but for the rest of a second that a page cut in two. `PageOfMatches` is
  why a page keeps it so: a page is the matching indices without holes, so its last
  record bounds what is left (`NoHoles`, by counting, since induction is not
  available). `GroupOK` and `OutOK` carry it through the join.
* **Budget** (`BudgetProofs`). `ComputedWithinHost`, `OverriddenWorkable` and
  `OnlyOverridesPassTheClamp`, for every host and every setting; arithmetic only.

Model-checked only: every liveness property (`CleanRunPublishes`,
`AllRowsLand`, `Returns`, `Terminates`). Liveness under fairness, `ENABLED` and
induction over data are outside what the prover does. Every other property of a
passing run is a theorem. The tables `MCPublisher` is given and the computed budget
of `MCPipeline` are compared by TLC with `Chunking` and `Budget`.

## 6. What is not modelled

* The inspect cache (`shift/import.go`): nothing in the command line calls it.
* `catalog --sizes`, and which subreddits the bundle holds: both read a torrent's
  file list. `Archive` takes the second as a free choice.
* Arguments and flags that do not parse (exit 2).
* Several commands at once on one data directory: only the index waits for a
  lock, and no document speaks of it.
* Durations, byte counts, rates, the text of logs, commit messages and the
  dataset's README: no property depends on them.
* The columns of a record (`schema.go`): the processor keeps whether a line
  parses.
* Two torrent clients on one data directory: how the library's storage treats a
  piece that spans two files is not in the repository.
* Two publishes on one work directory at once: the code takes no lock and no
  document allows it.
* The rate limiter's pace and the reset header of the API; fractional
  `created_utc`; the user walk, whose pager is the subreddit's.
* Hardware detection, configuration, rendering, query: no state that changes.

## 7. Plan

1. Composition: `Publisher`'s upload as an instance of `BatchUpload`, and
   `Pipeline`'s stages against `Publisher`'s, by an abstract specification of the
   stages of a month that both implement.
2. A run of `MCPublisher` with two layouts for the properties that hold there.

## 8. Running it

```bash
tlc -workers 2 -config MCPublisher.cfg MCPublisher    # and so on, see PROJECT.json
tlapm PublisherProofs.tla
```
