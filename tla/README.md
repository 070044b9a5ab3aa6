# TLA+ models of Solaris

Solaris is a log store. A client appends records to a named log and reads them
back in pages, forward or backward from a record ID. This directory holds the
TLA+ models of its storage core, the TLC configurations that check them, and
`PROJECT.json`, which maps every definition to the Go lines it models.

## The system

| Part | Source | State | Operations |
|---|---|---|---|
| `localLog` | `src/pkg/storage/logfs/locallog_test.go` 489–888 (the implementation shares this file with its tests) | a `lru.ReleasableCache` of per-log `logLocker`s (a `sync.Mutex`), capacity `MaxLocks` | `AppendRecords`, `QueryRecords`, `CountRecords`, `Shutdown` |
| chunk catalog, `CachedStorage` | `src/unnamed/part_001` | a `ChunkInfo{ID, Min, Max, RecordsCount}` per chunk of a log, held in a database and in `chunksCache`, an `lru.Cache` of sorted chunk lists keyed by log ID | `GetChunks` and `GetLastChunk` (both `chunksCache.GetOrCreate`), `UpsertChunkInfos` (writes the database, then `Remove`s the cache entry), `DeleteLogs` |
| chunk files, `chunkfs` | not under `src/` (the `ChunkAccessor` tests are in `src/unnamed/part_000`) | the records of a chunk file, plus each chunk's opened, writing or deleting state | a chunk's `AppendRecords` (writes as many records as fit), chunk readers with `SetStartID`, `SetWriting`, `SetIdle`, `DeleteFileIfEmpty` |
| `ParamIntervalBuilder` | `src/pkg/ql/intervalbuilder.go` | none (a pure algorithm) | `Build`: it turns a condition on one parameter into sorted, disjoint intervals |
| api `Service` | `src/pkg/ql/intervalbuilder_test.go` 63–262 | none of its own | `QueryRecords`, which pages with `NextPageID = NextID(last ID)` when `more` is set, and `CountRecords` |
| configuration, generated gRPC, proto, OpenAPI, build files | `src/pkg/server/config.go`, `src/unnamed/part_002`, `src/api/...` | n/a | not behaviour |

### How the parts interact

`AppendRecords` serialises the appends to one log with the log's mutex. It:

1. reads the last chunk from the catalog;
2. writes records into that chunk while they fit, then into new chunks;
3. deletes a new chunk file that stayed empty;
4. upserts the ChunkInfos of every chunk it wrote.

If the upsert fails after the data was written, the process panics. Nothing
records the corruption, so a restarted process appends to the same log again.

Both calls reach the catalog through `CachedStorage`. A miss of `chunksCache`
loads the list from the database, and that load can overlap an upsert of the
same log.

`QueryRecords` and `CountRecords` take only the lease, not the mutex. Each one:

1. reads the chunk list once;
2. binary-searches the chunk that holds the start ID;
3. reads chunk files, or sums `RecordsCount`, while appends keep writing.

### The hard behaviours

- **Readers run concurrently with a writer.** A reader sees:
  - chunk files that have grown past the catalog it read;
  - a boundary chunk counted from the file;
  - other chunks counted from the catalog.
- **The write and the index update are two steps.** A failure or a cancelled `ctx` can fall between them, and so can a panic and a restart.
- **The cache is filled by a load that overlaps an upsert.** A reader's load reads the database before an upsert, and the upsert's `Remove` runs before the load is stored.
- **The append loop has partial failures:**
  - a write fails after earlier chunks were written;
  - a new chunk's file exists but holds nothing;
  - a record is larger than a chunk.
- **The boundaries:**
  - binary searches at chunk edges;
  - `limit` 0;
  - a log that ends exactly at the limit;
  - the payload budget, which is checked before each record is added.

### What makes the parts correct

- **Catalog (CatalogConsistent).**
  - Every indexed record is in its chunk file.
  - The chunks' ID ranges are disjoint and ascending.
  - At rest, the catalog describes every chunk file exactly.
- **Query results (QueryResultValid).** A page is a run of consecutive records, in the requested direction, on the requested side of the start ID, and at most `limit` long.
- **Paging (QueryComplete).** A client that pages on `more` misses no indexed record.
- **CountRecords.** The spec's three promises are:
  - `count` is what an unlimited query would return (CountExact);
  - `total` is every record (CountTotalIsAll);
  - `count <= total` (CountWithinTotal).
- **Acknowledged records (AckedIndexed).** A record an append returned as Added stays indexed.
- **The log abstraction (AppendLogRefined).** The indexed records behave as `AppendLog`: one gapless sequence in ID order. It grows only when one append's written records are added at its end.
- **Liveness (AppendTerminates).** Every append returns and releases the lock.

## Modules

`LocalLog.tla` models one log's `localLog` with the catalog and the chunk files.

**State.**
- `catalog` maps a chunk ID to its ChunkInfo in the catalog database.
- `cache` is `chunksCache`: a function from the log ID to the sorted list it holds, with an empty domain when there is no entry.
- `data` maps a chunk ID to the records in its file.
- `files` is the set of chunk files that exist.
- `nextRid` and `nextCid` are the next record ID and the next chunk ID to be minted.
- `lockHolder` is the holder of the log mutex.
- `closed` records that `Shutdown` was called.
- `crash` records a panic and its cause, and `restarts` counts the restarts after one.
- `acked` is a ghost variable: the IDs of the records that appends returned as Added.
- Each goroutine has a frame in `ap` (appenders) or `rd` (readers). The frame holds the Go function's local variables and a program counter.

**Granularity.** Every catalog call and every chunk call is one step. The mutex is one step, and each loop iteration is one step.

**Actions.**
- `AppendRecords` is split at each call:
  - `AppendStart`, `AppendLock`, `AppendGetLast` and `AppendGetLastFails`;
  - `AppendWrite`, one iteration of the loop at lines 600–625, with its three outcomes;
  - `AppendWriteFails`, `AppendFinish` (lines 627–631), `AppendUpsert` and `AppendUpsertFails`;
  - `AppendCancel`: the client's `ctx` is cancelled.
- Both reads start with `ReaderStart`: the lease, then `GetChunks`.
  - On a cache hit the reader goes on with the cached list.
  - On a miss it reads the database, and `ReaderFill` stores the list in a later step.
  - `QueryBegin` and `CountBegin` are the code after `GetChunks` returned.
- `QueryRecords` then runs `QueryRead` (one chunk per step), then `QueryEnd`. `QueryReadFails` is a failing read.
- `CountRecords` then runs `CountScan` or `CountScanFails`.
- `AppendGetLast` loads and stores a missing cache entry in one step. The appender holds the log mutex, so no upsert of the log can fall in between.
- `AppendUpsert` is `CachedUpsert`: the database upsert, then the `Remove`.
- `Restart` starts the process again after a panic: `NewLocalLog` and `NewCachedStorage`. It gives new lockers, an empty cache and no goroutines; the files and the database persist.
- `ReaderReturn` hands a reader's result to its caller.

**Algorithms as operators.**
- `Search` is Go's `sort.Search`.
- `Cursor` is a chunk reader after `SetStartID`.
- `Taken` is the loop condition of `readRecords`.
- `MoreFlag` is line 733.

**The cache library.** `lru.Cache` is not in the repository. It is unknown whether `GetOrCreate` stores a load that a `Remove` of the same key overtook, so the constant `CacheLoadRace` chooses:

- `FALSE`: the cache drops such a load, as a versioned cache does. The passing runs use this.
- `TRUE`: it stores the load, as a cache that unlocks around the loader and re-locks to store does. No run uses it now: a reader's load that read the database before an upsert is then stored after the upsert's `Remove`, and the next append indexes 2 of the 3 records in the chunk file (see the divergences without a run).

`PROJECT.json` "map" gives the lines of every definition.

`AppendLog.tla` is the abstract specification of a log. Its one variable `log` holds the indexed records, and its one action `AddRecords` appends at most a batch of records and keeps the IDs gapless.
- `LocalLog` maps `log` to `IndexedRecords`, the first `RecordsCount` records of every chunk in chunk ID order.
- The safety run checks `AppendLogRefined == AL!Spec` as a property.

`IntervalBuilder.tla` models `ParamIntervalBuilder`:

- **The builder.** `NewParamIntervalBuilder` makes the builder `ib` from the parameter and the operator list (`OpsAll` in the runs), and `buildCond` reads `ib.param` and `ib.ops`.
- **Functions as operators.** `Build`, `buildOR`, `buildXCond`, `buildCond`, `union`, `intersect` and `getIntervals` are operators that keep the Go names.
  - `Merge` is the loop of `union`.
  - `Cross` is one round of `intersect`.
- **The basis.** `intervals.Basis` is not in the repository, so it is modelled from the spec. Its values are `0..MaxV`, and its intervals are taken as point sets of a dense copy `0..2*MaxV`, so that open and closed bounds differ as they do on strings.
- **The reference.** `Val` is a three-valued meaning of an expression: a skipped condition is "unknown". The properties compare `Build`'s intervals with it.
- **Inputs.** `Exprs` enumerates every expression of up to three conditions in five shapes, including a nested sub-expression. Each one is compiled by one `Compile` step.
- **Stopping.** The run has `CHECK_DEADLOCK FALSE`, because the function returns and nothing follows.

`LogLockers.tla` models the lockers pool across several logs, which `LocalLog` (one log) cannot show.

**State.**
- `entries` is the pool: a function from a log ID to its `logLocker` and the number of leases held on it.
- Every `logLocker` made gets a number from `nextLk`, so one made again after an eviction is a different mutex. `owner` maps it to the goroutine holding its `lock`.
- `closed` records `Shutdown`, and `requests` counts the calls.
- `pr` is each goroutine's frame: its program counter, log, kind (append or read) and `logLocker`.

**Actions.**
- `Call` starts `AppendRecords`, `QueryRecords` or `CountRecords` for a log (lines 580–582, 667–675, 738–746).
- `GetOrCreate` ends in one of five ways:
  - `LeaseHit`: the log is cached, and its reference count goes up;
  - `LeaseCreate`: a new `logLocker` is made while there is room;
  - `LeaseEvict`: an unreferenced entry is evicted for it when the pool is full;
  - `LeaseClosed`: the pool was closed, and the call returns the error;
  - `LeaseCanceled`: the `ctx` was cancelled while the call waited.
  With no room and no unreferenced entry, the call blocks.
- `Lock` and `Unlock` are lines 587–588; only `AppendRecords` takes them.
- `Release` is the deferred `Release(&ll)` at lines 586, 679 and 750.
- `Shutdown` is `lockers.Close()` (line 575).
- `Done` is the stutter once every call has returned.

**The cache library.** `lru.ReleasableCache` is not in the repository, so it is modelled from the spec (sections 4.3 and 9): a capacity, reference counts, and eviction of unreferenced entries only. The model leaves open which unreferenced entry the LRU order evicts. It also assumes that `GetOrCreate` fails once the pool is closed.

`MCLocalLog.tla` instantiates the module for TLC, and `MCLogLockers.tla` does the same for `LogLockers` with three goroutines and three logs as model values. It defines the appenders and readers as model values, and the single-appender set used by the runs that look for violations.

`Service.tla` models the api `Service` (`intervalbuilder_test.go` lines 150–222) with a client that pages.

**State.**
- `logs` holds each log's records. Record IDs are minted in increasing order across all logs, as ULIDs are, and 0 stands for the empty ID.
- `cl` is the client. It holds its request, the start it sends, the IDs it has read, the latest page and the last ID before it, and the IDs the logs held when it began (`owed`).

**Actions.**
- `AppendRecords` is the service's append of one record.
- `StartPaging` chooses a request from `Requests`.
- `QueryRecords` is one call of the handler, and the client follows `NextPageID`:
  - `ErrExhausted` beyond `MaxLogsToMerge`;
  - for one log, `StorageQuery` (`localLog.QueryRecords` on a settled log, taken as one step) and `SinglePage` (lines 179–186);
  - for several logs, `Mixer` and `MixerPage` (lines 197–221).
- The mixer is not in the repository. It is modelled as a merge of the logs' records from the start, in the request's direction.
- `ulidutils.NextID` is the ID right after its argument.

**Fairness.** The client keeps following `NextPageID`, so `QueryRecords` is weakly fair. Appends carry no fairness.

`MCService.tla` gives three logs and the request sets of the three runs.

**Further work:**

- `IntervalBuilder`'s inputs include no condition that fails `buildCond`'s dialect-flag or value-cast checks. Such a condition returns a validation error, just as the modelled unknown-parameter case does, so modelling these checks would add inputs but no new behaviour.

## Runs

| Run | cfg | Expect | What it shows |
|---|---|---|---|
| safety | `MCLocalLog.cfg` | pass | Two appenders and a reader, with every kind of failure, keep the catalog consistent with the chunk files. Every acknowledged record stays indexed, queries return valid pages that miss nothing, and the indexed records refine `AppendLog` (432,524 states, about 75 s). |
| count | `MCLocalLogCount.cfg` | pass | On a settled log with no failing scan, `CountRecords` counts exactly (575,816 states). |
| append_live | `MCLocalLogLive.cfg` | pass | Every append returns and releases the lock, also across a panic and a restart. It has no readers, because readers do not take the lock (9,238 states). |
| count_race | `MCCountRace.cfg` | violation | `count > total`: the boundary chunk is scanned after an append's write but before its upsert. |
| cancel_panic | `MCCancelPanic.cfg` | violation | A cancelled `ctx` after the write fails `UpsertChunkInfos(ctx, ...)` and panics. The comment at lines 632–633 says `context.Background()` is used. |
| lockers | `MCLogLockers.cfg` | pass | Three goroutines append to and read three logs through a pool of two `logLocker`s. Two appends of one log are never both past `lock.Lock()`, and a call blocked on the full pool is always eventually admitted or failed (115,264 states, about 35 s). |
| ib | `MCIntervalBuilder.cfg` | pass | Without NOT, `Build` returns minimal, sorted, disjoint intervals that hold exactly the satisfying values when every condition compiles. The inputs also include skipped conditions and an unknown parameter that fails validation; with a skipped condition the run checks only minimality, and an input that fails validation is checked only by the type invariant (38,850 states). |
| ib_not | `MCIntervalNot.cfg` | violation | `NOT t != 1` yields the whole domain: `buildXCond` (lines 98–101) negates each interval instead of their union. |
| svc | `MCService.cfg` | pass | A client follows `NextPageID` while records are appended. It pages one log ascending, or two logs merged in either direction, with a limit below and above the page cap. It reads every record present when it began, each once and in order, and it reaches an empty `NextPageID` (16,858 states, about 10 s). |
| svc_desc | `MCServiceDesc.cfg` | violation | Descending paging of one log repeats the last record of each page. `NextPageID` is `NextID(last)`, and a descending start is inclusive from above, so with `Limit` 1 the client reads one record forever. |
| svc_limit0 | `MCServiceZero.cfg` | violation | `Limit` 0 on one non-empty log: `localLog` returns no records with `more` set, and the handler indexes `res[len(res)-1]` of the empty page (`intervalbuilder_test.go` line 184). |
| restart_loss | `MCRestartLoss.cfg` | violation | A failed upsert panics and the process is started again. The next append continues from the ChunkInfo before the lost write, and the record it returns as Added is never counted in the chunk's `RecordsCount`. The spec says a corruption halts further writes to the log. |

Each property of a passing run has a mutant in `PROJECT.json`. A mutant is a bug variant of a mapped definition, such as:

- Min taken on every write;
- the start ID not passed to the reader;
- `more` ignoring the byte budget;
- the count loop starting one chunk late;
- `RecordsCount` not reset at line 624;
- `RecordsCount` set to the records of the last write only;
- a `logLocker` made when the pool is full;
- `AppendRecords` going on without `lock.Lock()`;
- the reads returning without their deferred `Release`;
- the merged page's `NextPageID` taken from the last record returned;
- the storage's `more` ignoring the byte budget (in `Service`);
- the single-log `NextPageID` without `NextID`.

TLC finds the property violated in each case.

### Bounds

- **IntervalBuilder.**
  - Values `{1, 2, 3}` in a domain of 0..4, every operator, and one condition each on another known parameter, an unknown parameter and a non-constant.
  - Expressions have up to three conditions, in the shapes `c`, `c AND c`, `c OR c`, `(c AND c) OR c` and `c AND (c OR c)`.
  - These are enough for overlapping, touching and disjoint intervals in both OR and AND, for a group that builds two intervals, and for a nested expression.

- **Chunks and records.**
  - `ChunkCap = 2` and `Sizes = {1, 3}`, so some records fill a chunk and some do not fit at all.
  - `MaxRecords = 3` across batches of up to 2, so a log spans several chunks.
  - Together these reach all three loop outcomes: records written, a record too large for a chunk, and a full last chunk.
- **Failures.** `MaxFaults = 1` injects one failure per behaviour, at any call.
- **Restarts.** `MaxRestarts` is 1 in `append_live` and `restart_loss`, and 0 elsewhere: after a restart, the catalog is inconsistent by design of the code, which is what `restart_loss` shows.
- **The restart violation run** uses `ChunkCap = 3` and records of size 1, so that a chunk takes the records of two appends.
- **Queries.**
  - `MaxRecordsLimit = 3`, `MaxBunchSize = 2`, `Limits = {1, 3}`.
  - `StartIds = {0, 2, 4}`: no start, a start inside the log, and a start past its end.
  - These make the limit, the byte budget and the exhausted log each end a page.
- **Goroutines.** Two appenders exercise the mutex; one reader suffices because readers do not interact with each other.

- **The Service.** Three logs and `MaxLogsToMerge = 2`, so a request for all three fails with `ErrExhausted`. Three records of size 1 or 2, with `MaxBunchSize = 2` and `MaxRecordsLimit = 2`, so a page ends at the limit, at the cap or at the budget. Limits 1 and 3 make pages of one record and capped pages. One client suffices, because clients do not interact.
- **The lockers pool.** Three goroutines, three logs and `MaxLocks = 2`, so a third log must wait or evict. Four calls let an evicted log be leased again and let two appends of one log meet.

### Fairness

- **Goroutines (weak fairness).** Each goroutine runs its next step, so its step is weakly fair.
- **The mutex (strong fairness).**
  - Go's `sync.Mutex` switches to starvation mode after a waiter has waited 1 ms. In that mode it hands the lock to the waiter.
  - This is why `AppendLock` is strongly fair.
- **Unfair steps.** New requests, cancellations, failures, restarts and `Shutdown` are environment choices and carry no fairness.
- **The lockers pool.** `LogLockers` gives each goroutine's steps weak fairness, including `Lock` and the admission to the pool. Calls are bounded, so a contended mutex or slot is eventually free for good, and weak fairness then suffices.
- **Safety runs.** The safety run uses `SafetySpec`, which is `Spec` without the fairness: its properties are invariants and the action property of the refinement.

## Not modelled

- **Code not under `src/`.** The chunk codec and the `ChunkAccessor` code are not in the repository.
  - `ChunkAccessor` is not modelled. Its only trace in the repository is its test (`src/unnamed/part_000`), and that test disagrees with spec 4.1. There, a second `openChunk` of a chunk already open fails, and a chunk goes away once it is idle; the spec says readers share an open chunk and an idle entry is kept. A model would have to pick one of the two without the code to decide.
  - The codec is abstracted to "writes the prefix that fits", following the spec.
- **Conditions.** `QueryRecords` in this version ignores `request.Condition`, so conditions play no part in the model.
  - The tests at lines 1–474 expect filtering; this divergence has no run.
- **The logs cache, `CreateLog`, `QueryLogs` and `DeleteLogs` of `CachedStorage`.** They serve log metadata that no modelled call changes.
- **Divergences that have no run.**
  - `more` is `len(res) >= limit` (line 733), so it is true when the log ends exactly at the limit. The spec says `more` means further data exists; the test at line 311 expects the code's behaviour.
  - A failing `countRecords` returns `(0, 0, nil)` (line 796), which `CountExact` rejects; the `count` run therefore excludes scan failures.
  - A start ID past the last record, or before the first, leaves `idx` outside the chunk list. The branch at line 792 that adds the total is then skipped, and `total` is 0; spec 4.3 says `total` is every record. `CountTotalIsAll` states it.
  - `buildOR` drops a group that built no interval, so a condition on another parameter reads as "no values" inside an OR. For `t < 2 AND (t < 1 OR x = 1)`, `Build` returns `[0, 1)`, yet `t` in `[1, 2)` with `x = 1` matches (line 118). Spec 4.4 says such a condition contributes nothing, and that the intervals prune chunk scans. `PruningSound` in `IntervalBuilder` states it. `QueryRecords` in this version does not prune by them.
  - With `CacheLoadRace = TRUE`, `CatalogConsistent` fails: a stale chunk list is stored after an upsert's `Remove` (`part_001` line 140), and the next append leaves one of its records out of `RecordsCount`.
- **The api `Service`'s `CountRecords` and log calls.** `CountRecords` adds the `localLog` counts of the logs one after another, and `LocalLog` checks each count. `CreateLog`, `UpdateLog`, `QueryLogs` and `DeleteLogs` pass calls through to the log metadata storage.
- **Configuration, generated code, build files.** They hold no behaviour.
