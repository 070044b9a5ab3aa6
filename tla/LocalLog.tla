------------------------------ MODULE LocalLog ------------------------------
(***************************************************************************)
(* localLog (src/pkg/storage/logfs, the implementation that follows the    *)
(* tests in locallog_test.go): AppendRecords, QueryRecords and             *)
(* CountRecords of one log, run by concurrent goroutines against the chunk *)
(* files on disk and the chunk catalog (LogsMetaStorage).                  *)
(*                                                                         *)
(* A record is [id, size]: its sortable ID (minted by the chunk codec when *)
(* written, increasing because appends to a log hold the log's lock) and  *)
(* its payload size.  A chunk file is the sequence of records written to   *)
(* it.  The catalog maps a chunk ID to its ChunkInfo [min, max, cnt]; cnt  *)
(* = 0 stands for "no entry".  Every call into the catalog or into a chunk *)
(* (one appendRecords, one readRecords, one countRecords) is one step.     *)
(***************************************************************************)
EXTENDS Integers, Sequences, SequencesExt, FiniteSets, FiniteSetsExt

CONSTANTS
    Appenders,       \* goroutines calling AppendRecords on the log
    Readers,         \* goroutines calling QueryRecords or CountRecords
    ChunkCap,        \* capacity of one chunk (chunkfs MaxChunkSize), in size units
    Sizes,           \* payload sizes a record may have
    MaxBatch,        \* most records in one AppendRecordsRequest
    MaxRecords,      \* bound: records requested over a whole behaviour
    MaxFaults,       \* bound: failures injected over a whole behaviour
    FaultKinds,      \* which calls may fail: "write", "last", "upsert", "read", "scan"
    MaxRecordsLimit, \* Config.MaxRecordsLimit
    MaxBunchSize,    \* Config.MaxBunchSize, the payload budget of one query
    Limits,          \* QueryRecordsRequest.Limit values clients send
    StartIds,        \* StartRecordID values clients send (0 for "")
    CacheLoadRace,   \* TRUE: chunksCache stores a load a concurrent Remove overtook
    MaxRestarts,     \* bound: process restarts after a panic
    None             \* model value: nobody holds the log lock

ASSUME /\ ChunkCap \in Nat \ {0} /\ Sizes \subseteq Nat \ {0}
       /\ MaxBatch \in Nat \ {0} /\ MaxRecords \in Nat /\ MaxFaults \in Nat
       /\ FaultKinds \subseteq {"write", "last", "upsert", "read", "scan"}
       /\ MaxRecordsLimit \in Nat /\ MaxBunchSize \in Nat /\ Limits \subseteq Int
       /\ 0 \in StartIds /\ StartIds \subseteq Nat /\ CacheLoadRace \in BOOLEAN
       /\ MaxRestarts \in Nat

VARIABLES
    catalog,     \* chunk ID -> ChunkInfo of the catalog database
    cache,       \* chunksCache: log ID -> the sorted ChunkInfos it holds
    data,        \* chunk ID -> records physically in the chunk file
    files,       \* chunk IDs whose file exists
    nextRid,     \* next record ID the codec mints
    nextCid,     \* next chunk ID ulidutils.NewID mints
    lockHolder,  \* holder of logLocker.lock of the log
    closed,      \* localLog.Shutdown was called (lockers closed)
    crash,       \* "none", or why the process panicked ("db", "ctx")
    faults,      \* failures injected so far
    requested,   \* records requested so far (bounds the model)
    restarts,    \* process restarts so far
    acked,       \* IDs of the records AppendRecords calls returned as Added
    ap,          \* appender goroutine -> its AppendRecords frame
    rd           \* reader goroutine -> its QueryRecords / CountRecords frame

vars == <<catalog, cache, data, files, nextRid, nextCid, lockHolder, closed, crash,
          faults, requested, restarts, acked, ap, rd>>

RecIds   == 1..MaxRecords
ChunkIds == 1..(MaxRecords + MaxFaults + 1)
Rec      == [id : RecIds, size : Sizes]
Info     == [min : 0..MaxRecords, max : 0..MaxRecords, cnt : 0..MaxRecords]
CInfo    == [id : {0} \cup ChunkIds, min : 0..MaxRecords,
             max : 0..MaxRecords, cnt : 0..MaxRecords]
NoInfo   == [min |-> 0, max |-> 0, cnt |-> 0]
EmptyCI  == [id |-> 0, min |-> 0, max |-> 0, cnt |-> 0]   \* ChunkInfo{}

Batches == UNION {[1..n -> Sizes] : n \in 1..MaxBatch}

-----------------------------------------------------------------------------
(* The catalog database, and CachedStorage's chunksCache in front of it     *)

\* The log whose chunks the model follows (the key of chunksCache).
Lid == "lid"

\* The chunk IDs of S in ascending order (chunk IDs sort as they are minted).
Ascending(S) ==
    LET f[i \in 0..Cardinality(S)] ==
            IF i = 0 THEN <<>> ELSE Append(f[i - 1], Min(S \ Range(f[i - 1])))
    IN  f[Cardinality(S)]

\* The loader of chunksCache: storage.GetChunks, sorted by chunk ID.
LoadChunks ==
    LET ids == Ascending({c \in ChunkIds : catalog[c].cnt > 0})
    IN  [i \in 1..Len(ids) |-> [id |-> ids[i]] @@ catalog[ids[i]]]

Cached == Lid \in DOMAIN cache

\* chunksCache.GetOrCreate(lid): the cached list, or a fresh load.
GetChunks == IF Cached THEN cache[Lid] ELSE LoadChunks

\* GetLastChunk: the last of GetChunks, or ChunkInfo{} for a log without chunks.
GetLastChunk == IF GetChunks = <<>> THEN EmptyCI ELSE Last(GetChunks)

\* The cache after GetOrCreate on a miss stored its load (and on a hit).
Filled == IF Cached THEN cache ELSE Lid :> LoadChunks

\* The catalog database's upsert: insert or replace the ChunkInfo of every
\* chunk in cis.
UpsertChunkInfos(cis) ==
    [c \in ChunkIds |->
        IF \E i \in DOMAIN cis : cis[i].id = c
        THEN LET ci == cis[CHOOSE i \in DOMAIN cis : cis[i].id = c]
             IN  [min |-> ci.min, max |-> ci.max, cnt |-> ci.cnt]
        ELSE catalog[c]]

\* CachedStorage.UpsertChunkInfos: the database upsert, then
\* chunksCache.Remove(logID).
CachedUpsert(cis) == /\ catalog' = UpsertChunkInfos(cis)
                     /\ cache' = [k \in DOMAIN cache \ {Lid} |-> cache[k]]

-----------------------------------------------------------------------------
(* AppendRecords *)

\* The frame of an appender between requests.
IdleAppender == [pc |-> "idle", recs |-> <<>>, ci |-> EmptyCI, cis |-> <<>>,
                 first |-> 0, added |-> 0, gerr |-> FALSE, canceled |-> FALSE]

SizeOf(s) == FoldLeft(LAMBDA acc, r : acc + r, 0, s)

\* chunk AppendRecords: how many records of recs, in order, fit in free units.
Fit(recs, free) ==
    Max({n \in 0..Len(recs) : SizeOf(SubSeq(recs, 1, n)) <= free})

\* Bug variant: Min taken from every write, not only a new chunk's first.
ChunkAfterWriteMinAlways(ci, n) ==
    [ci EXCEPT !.min = nextRid, !.max = nextRid + n - 1, !.cnt = @ + n]

\* Bug variant: Max set one past the last record written.
ChunkAfterWriteMaxPastEnd(ci, n) ==
    [ci EXCEPT !.min = IF ci.cnt = 0 THEN nextRid ELSE @,
               !.max = nextRid + n, !.cnt = @ + n]

\* Bug variant: RecordsCount set to the records of this write only.
ChunkAfterWriteCountNew(ci, n) ==
    [ci EXCEPT !.min = IF ci.cnt = 0 THEN nextRid ELSE @,
               !.max = nextRid + n - 1, !.cnt = n]

\* The ChunkInfo after n records were written to chunk ci.
ChunkAfterWrite(ci, n) ==
    [ci EXCEPT !.min = IF ci.cnt = 0 THEN nextRid ELSE @,
               !.max = nextRid + n - 1,
               !.cnt = @ + n]

\* Bug variant: the loop goes on with ci as it is, RecordsCount not reset.
NextChunkNoReset(a, ci) == ap' = [ap EXCEPT ![a].ci = ci]

\* ci.RecordsCount = 0 at the end of the loop body: the next iteration
\* writes to a new chunk.
NextChunk(a, ci) == ap' = [ap EXCEPT ![a].ci = [ci EXCEPT !.cnt = 0]]

\* The chunk the loop writes to: a new one when ci.RecordsCount is 0.
CurrentChunk(st) == IF st.ci.cnt = 0 THEN [EmptyCI EXCEPT !.id = nextCid]
                                     ELSE st.ci

MintChunk(st) == nextCid' = IF st.ci.cnt = 0 THEN nextCid + 1 ELSE nextCid

Fault(kind) == /\ kind \in FaultKinds
               /\ faults < MaxFaults
               /\ faults' = faults + 1

\* A client sends an AppendRecordsRequest; the lockers lease is granted
\* (it fails only after Shutdown, with nothing changed).
AppendStart(a, batch) ==
    /\ ap[a].pc = "idle"
    /\ ~closed
    /\ requested + Len(batch) <= MaxRecords
    /\ requested' = requested + Len(batch)
    /\ ap' = [ap EXCEPT ![a] = [IdleAppender EXCEPT !.pc = "lock", !.recs = batch]]
    /\ UNCHANGED <<restarts, acked, catalog, cache, data, files, nextRid, nextCid, lockHolder, closed,
                   crash, faults, rd>>

\* ll.Value().lock.Lock()
AppendLock(a) ==
    /\ ap[a].pc = "lock"
    /\ lockHolder = None
    /\ lockHolder' = a
    /\ ap' = [ap EXCEPT ![a].pc = "last"]
    /\ UNCHANGED <<restarts, acked, catalog, cache, data, files, nextRid, nextCid, closed, crash,
                   faults, requested, rd>>

\* A write or an index update changes the log under every running count.
Unsettle == rd' = [r \in Readers |-> [rd[r] EXCEPT !.stable = FALSE]]

\* Release the lock and the lease and return from AppendRecords.
AppendReturn(a) == /\ lockHolder' = None
                   /\ ap' = [ap EXCEPT ![a] = IdleAppender]

\* ci, err := l.LMStorage.GetLastChunk(ctx, lid)
AppendGetLast(a) ==
    /\ ap[a].pc = "last"
    /\ ap' = [ap EXCEPT ![a].ci = GetLastChunk, ![a].first = nextRid,
                        ![a].pc = "write"]
    /\ cache' = Filled
    /\ UNCHANGED <<restarts, acked, catalog, data, files, nextRid, nextCid, lockHolder, closed,
                   crash, faults, requested, rd>>

\* GetLastChunk fails with an error other than ErrNotExist: return it.
AppendGetLastFails(a) ==
    /\ ap[a].pc = "last"
    /\ Fault("last")
    /\ AppendReturn(a)
    /\ UNCHANGED <<restarts, acked, catalog, cache, data, files, nextRid, nextCid, closed, crash,
                   requested, rd>>

\* One iteration of the loop: l.appendRecords into the current chunk
\* (GetOpenedChunk, SetWriting, the codec's AppendRecords, SetIdle), then the
\* bookkeeping of the loop body.
AppendWrite(a) ==
    LET st  == ap[a]
        ci  == CurrentChunk(st)
        n   == Fit(st.recs, ChunkCap - SizeOf([i \in DOMAIN data[ci.id] |->
                                                  data[ci.id][i].size]))
        out == [i \in 1..n |-> [id |-> nextRid + i - 1, size |-> st.recs[i]]]
        ci2 == ChunkAfterWrite(ci, n)
    IN
    /\ st.pc = "write"
    /\ MintChunk(st)
    /\ files' = files \cup {ci.id}
    /\ data' = [data EXCEPT ![ci.id] = @ \o out]
    /\ nextRid' = nextRid + n
    /\ \/ /\ n > 0
          /\ ap' = [ap EXCEPT ![a] =
                      [st EXCEPT !.ci = [ci2 EXCEPT !.cnt = 0],
                                 !.cis = Append(@, ci2),
                                 !.recs = SubSeq(@, n + 1, Len(@)),
                                 !.added = @ + n,
                                 !.pc = IF n = Len(st.recs) THEN "finish"
                                                            ELSE "write"]]
          /\ Unsettle
       \/ \* a new chunk takes no record: the record is larger than a chunk
          /\ n = 0 /\ ci.cnt = 0
          /\ ap' = [ap EXCEPT ![a] = [st EXCEPT !.ci = ci, !.gerr = TRUE,
                                                !.pc = "finish"]]
          /\ UNCHANGED rd
       \/ \* the last chunk of the catalog is full: go on with a new one
          /\ n = 0 /\ ci.cnt > 0
          /\ NextChunk(a, ci)
          /\ UNCHANGED rd
    /\ UNCHANGED <<restarts, acked, catalog, cache, lockHolder, closed, crash, faults, requested>>

\* appendRecords returns an error (the chunk cannot be opened, SetWriting
\* fails, an I/O error): gerr is set and the loop is left.  A new chunk's
\* file may have been created before the failure.
AppendWriteFails(a) ==
    LET st == ap[a]
        ci == CurrentChunk(st)
    IN
    /\ st.pc = "write"
    /\ Fault("write")
    /\ MintChunk(st)
    /\ files' \in IF st.ci.cnt = 0 THEN {files, files \cup {ci.id}} ELSE {files}
    /\ ap' = [ap EXCEPT ![a] = [st EXCEPT !.ci = ci, !.gerr = TRUE,
                                          !.pc = "finish"]]
    /\ UNCHANGED <<restarts, acked, catalog, cache, data, nextRid, lockHolder, closed, crash,
                   requested, rd>>

\* After the loop: DeleteFileIfEmpty of the current chunk when its
\* RecordsCount is 0; return when nothing was added.
AppendFinish(a) ==
    LET ci == ap[a].ci IN
    /\ ap[a].pc = "finish"
    /\ files' = IF ci.cnt = 0 /\ data[ci.id] = <<>> THEN files \ {ci.id}
                                                    ELSE files
    /\ IF ap[a].added > 0
       THEN /\ ap' = [ap EXCEPT ![a].pc = "upsert"]
            /\ UNCHANGED lockHolder
       ELSE AppendReturn(a)
    /\ UNCHANGED <<restarts, acked, catalog, cache, data, nextRid, nextCid, closed, crash, faults,
                   requested, rd>>

\* l.LMStorage.UpsertChunkInfos(ctx, lid, cis) succeeds: the records are
\* indexed and AppendRecords returns Added (the error, if any, dropped).
AppendUpsert(a) ==
    /\ ap[a].pc = "upsert"
    /\ ~ap[a].canceled
    /\ CachedUpsert(ap[a].cis)
    /\ acked' = acked \cup ap[a].first..(ap[a].first + ap[a].added - 1)
    /\ AppendReturn(a)
    /\ rd' = [r \in Readers |-> [rd[r] EXCEPT !.stable = FALSE,
                                  !.overtaken = @ \/ rd[r].pc = "fill"]]
    /\ UNCHANGED <<restarts, data, files, nextRid, nextCid, closed, crash, faults,
                   requested>>

\* UpsertChunkInfos fails, after the data was written: panic.  It fails when
\* the catalog database fails, and when ctx is canceled, since ctx is passed.
AppendUpsertFails(a) ==
    /\ ap[a].pc = "upsert"
    /\ \/ /\ Fault("upsert")
          /\ crash' = "db"
       \/ /\ ap[a].canceled
          /\ crash' = "ctx"
          /\ UNCHANGED faults
    /\ UNCHANGED <<restarts, acked, catalog, cache, data, files, nextRid, nextCid, lockHolder, closed,
                   requested, ap, rd>>

\* The client cancels ctx (a deadline expires) while AppendRecords runs.
AppendCancel(a) ==
    /\ ap[a].pc \notin {"idle"}
    /\ ~ap[a].canceled
    /\ ap' = [ap EXCEPT ![a].canceled = TRUE]
    /\ UNCHANGED <<restarts, acked, catalog, cache, data, files, nextRid, nextCid, lockHolder, closed,
                   crash, faults, requested, rd>>

-----------------------------------------------------------------------------
(* QueryRecords and CountRecords *)

\* The frame of a reader between requests.  start is request.StartID (0 for
\* ""), sid the cursor's start that only the first chunk read applies, idx
\* the 0-based position in the chunk list cis that the reader got.
IdleReader == [pc |-> "idle", op |-> "query", desc |-> FALSE, start |-> 0,
               sid |-> 0, limit |-> 0, cis |-> <<>>, idx |-> 0, res |-> <<>>,
               size |-> 0, more |-> FALSE, total |-> 0, count |-> 0,
               stable |-> FALSE, overtaken |-> FALSE]

\* sort.Search(n, f) over f's true set Good, as the Go library computes it.
RECURSIVE Search(_, _, _)
Search(i, j, Good) ==
    IF i >= j THEN i
    ELSE LET h == (i + j) \div 2
         IN  IF h \notin Good THEN Search(h + 1, j, Good) ELSE Search(i, h, Good)

\* The index of the first chunk to read, from the binary searches of
\* QueryRecords and CountRecords.
StartIdx(cis, desc, sid) ==
    LET n == Len(cis) IN
    IF sid = 0 THEN (IF desc THEN n - 1 ELSE 0)
    ELSE IF desc THEN Search(0, n, {i \in 0..n-1 : cis[i+1].min > sid}) - 1
    ELSE Search(0, n, {i \in 0..n-1 : cis[i+1].max >= sid})

\* Bug variant: the start ID is not passed to the chunk reader.
CursorNoStart(c, desc, sid) == IF desc THEN Reverse(data[c]) ELSE data[c]

\* The records a chunk reader yields: OpenChunkReader(descending), then
\* SetStartID(sid) when sid is not empty.
Cursor(c, desc, sid) ==
    LET s == IF desc THEN Reverse(data[c]) ELSE data[c] IN
    IF sid = 0 THEN s
    ELSE SelectSeq(s, LAMBDA r : IF desc THEN r.id <= sid ELSE r.id >= sid)

\* readRecords: how many records of s the loop takes, reading while there is
\* a next record, fewer than lim are taken and *totalSize < MaxBunchSize.
RECURSIVE Taken(_, _, _)
Taken(s, lim, size) ==
    IF s = <<>> \/ lim <= 0 \/ size >= MaxBunchSize THEN 0
    ELSE 1 + Taken(Tail(s), lim - 1, size + Head(s).size)

\* Bug variant: more ignores the payload budget.
MoreFlagNoBudget(st) == Len(st.res) >= st.limit

\* The more result of QueryRecords.
MoreFlag(st) == Len(st.res) >= st.limit \/ st.size >= MaxBunchSize

InRange(st) == st.idx >= 0 /\ st.idx < Len(st.cis)

Step(st) == IF st.desc THEN -1 ELSE 1

\* QueryRecords once GetChunks returned st.cis: an empty list returns
\* (nil, false) at once; otherwise the first chunk is searched and the limit
\* capped to MaxRecordsLimit.
QueryBegin(st) ==
    [st EXCEPT !.pc = IF st.cis = <<>> THEN "done" ELSE "read",
               !.limit = Min({st.limit, MaxRecordsLimit}),
               !.idx = IF st.cis = <<>> THEN 0
                       ELSE StartIdx(st.cis, st.desc, st.start)]

\* One iteration of the QueryRecords loop: readRecords of chunk cis[idx].
QueryRead(r) ==
    LET st == rd[r]
        s  == Cursor(st.cis[st.idx + 1].id, st.desc, st.sid)
        k  == Taken(s, st.limit - Len(st.res), st.size)
        got == SubSeq(s, 1, k)
    IN
    /\ st.pc = "read" /\ st.op = "query"
    /\ InRange(st) /\ st.limit > Len(st.res)
    /\ rd' = [rd EXCEPT ![r] =
                [st EXCEPT !.res = @ \o got,
                           !.size = @ + SizeOf([i \in 1..k |-> got[i].size]),
                           !.idx = @ + Step(st), !.sid = 0]]
    /\ UNCHANGED <<restarts, acked, catalog, cache, data, files, nextRid, nextCid, lockHolder, closed,
                   crash, faults, requested, ap>>

\* The loop ends: QueryRecords returns res and more.
QueryEnd(r) ==
    LET st == rd[r] IN
    /\ st.pc = "read" /\ st.op = "query"
    /\ ~(InRange(st) /\ st.limit > Len(st.res))
    /\ rd' = [rd EXCEPT ![r].more = MoreFlag(st), ![r].pc = "done"]
    /\ UNCHANGED <<restarts, acked, catalog, cache, data, files, nextRid, nextCid, lockHolder, closed,
                   crash, faults, requested, ap>>

\* readRecords fails (GetOpenedChunk or OpenChunkReader): return the error.
QueryReadFails(r) ==
    /\ rd[r].pc = "read" /\ rd[r].op = "query"
    /\ InRange(rd[r])
    /\ Fault("read")
    /\ rd' = [rd EXCEPT ![r] = IdleReader]
    /\ UNCHANGED <<restarts, acked, catalog, cache, data, files, nextRid, nextCid, lockHolder, closed,
                   crash, requested, ap>>

\* Every record in the chunk files, in chunk ID order.
PhysRecs ==
    LET ids == Ascending(files)
    IN  FlattenSeq([i \in 1..Len(ids) |-> data[ids[i]]])

\* The records a chunk list indexes: the first RecordsCount of each chunk.
Indexed(cis) == FlattenSeq([i \in 1..Len(cis) |->
                               SubSeq(data[cis[i].id], 1, cis[i].cnt)])

\* Bug variant: the count loops start one chunk too far.
AheadSkipFirst(st, i) == IF st.desc THEN 0..(i - 1) ELSE (i + 1)..(Len(st.cis) - 1)

\* The chunk positions the count loops visit from position i on, in the
\* direction of the request, and the sum of their RecordsCount.
Ahead(st, i) == IF st.desc THEN 0..i ELSE i..(Len(st.cis) - 1)
Behind(st)   == IF st.desc THEN (st.idx + 1)..(Len(st.cis) - 1) ELSE 0..(st.idx - 1)
CntSum(cis, I) == MapThenSumSet(LAMBDA i : cis[i + 1].cnt, I)

\* CountRecords once GetChunks returned st.cis, up to the scan: the binary
\* search; with a start ID inside the log the boundary chunk is scanned
\* next; otherwise the loop "Calculate total of matching records" sums the
\* RecordsCount of the chunks from idx on and the call returns.
CountBegin(st0) ==
    LET cis  == st0.cis
        st   == [st0 EXCEPT !.idx = IF cis = <<>> THEN 0
                                    ELSE StartIdx(cis, st0.desc, st0.start),
                            !.stable = (PhysRecs = Indexed(cis))]
        scan == cis # <<>> /\ st.start # 0 /\ InRange(st)
        sum  == IF cis = <<>> THEN 0 ELSE CntSum(cis, Ahead(st, st.idx))
    IN  IF scan THEN [st EXCEPT !.pc = "scan", !.total = cis[st.idx + 1].cnt]
        ELSE [st EXCEPT !.pc = "done", !.total = sum, !.count = sum]

\* The frame a reader goes on with once GetChunks returned.
Begin(st) == IF st.op = "query" THEN QueryBegin(st) ELSE CountBegin(st)

\* A QueryRecordsRequest, for QueryRecords or CountRecords.
Request(op, desc, start, lim) ==
    [IdleReader EXCEPT !.op = op, !.desc = desc, !.start = start,
                       !.sid = start, !.limit = lim]

\* The lockers lease is granted and l.LMStorage.GetChunks called.  On a hit
\* of chunksCache the call goes on with the cached list; on a miss the
\* loader reads the catalog database and the reader goes on to store it.
ReaderStart(r, req) ==
    /\ rd[r].pc = "idle"
    /\ ~closed
    /\ rd' = [rd EXCEPT ![r] = IF Cached THEN Begin([req EXCEPT !.cis = cache[Lid]])
                               ELSE [req EXCEPT !.cis = LoadChunks, !.pc = "fill"]]
    /\ UNCHANGED <<restarts, acked, catalog, cache, data, files, nextRid, nextCid, lockHolder,
                   closed, crash, faults, requested, ap>>

\* chunksCache.GetOrCreate stores the loaded list unless another load filled
\* the entry; when a Remove overtook the load, it is stored only if the
\* cache does not drop overtaken loads.  GetChunks returns the load.
ReaderFill(r) ==
    LET st == rd[r] IN
    /\ st.pc = "fill"
    /\ cache' = IF ~Cached /\ (CacheLoadRace \/ ~st.overtaken)
                THEN Lid :> st.cis ELSE cache
    /\ rd' = [rd EXCEPT ![r] = Begin(st)]
    /\ UNCHANGED <<restarts, acked, catalog, data, files, nextRid, nextCid, lockHolder, closed,
                   crash, faults, requested, ap>>

\* countRecords scans the boundary chunk from the start ID; then the total
\* of the chunks before it and the sums of the chunks after it are added.
CountScan(r) ==
    LET st   == rd[r]
        num  == Len(Cursor(st.cis[st.idx + 1].id, st.desc, st.sid))
        rest == CntSum(st.cis, Ahead(st, st.idx + Step(st)))
    IN
    /\ st.pc = "scan"
    /\ rd' = [rd EXCEPT ![r] = [st EXCEPT !.pc = "done",
                      !.count = num + rest,
                      !.total = @ + CntSum(st.cis, Behind(st)) + rest]]
    /\ UNCHANGED <<restarts, acked, catalog, cache, data, files, nextRid, nextCid, lockHolder, closed,
                   crash, faults, requested, ap>>

\* countRecords fails: CountRecords returns (0, 0, nil).
CountScanFails(r) ==
    /\ rd[r].pc = "scan"
    /\ Fault("scan")
    /\ rd' = [rd EXCEPT ![r].pc = "done", ![r].total = 0, ![r].count = 0]
    /\ UNCHANGED <<restarts, acked, catalog, cache, data, files, nextRid, nextCid, lockHolder, closed,
                   crash, requested, ap>>

\* The call returns through its deferred l.lockers.Release(&ll) and the
\* caller takes the result (the lease itself is LogLockers').
ReaderReturn(r) ==
    /\ rd[r].pc = "done"
    /\ rd' = [rd EXCEPT ![r] = IdleReader]
    /\ UNCHANGED <<restarts, acked, catalog, cache, data, files, nextRid, nextCid, lockHolder, closed,
                   crash, faults, requested, ap>>

-----------------------------------------------------------------------------

\* localLog.Shutdown: the lockers are closed, new calls fail with ErrClosed.
Shutdown ==
    /\ ~closed
    /\ closed' = TRUE
    /\ UNCHANGED <<restarts, acked, catalog, cache, data, files, nextRid, nextCid, lockHolder, crash,
                   faults, requested, ap, rd>>

\* The process has exited after a panic, or has shut down and every call
\* has returned: nothing happens any more.
Halted ==
    /\ \/ crash # "none"
       \/ closed /\ \A a \in Appenders : ap[a].pc = "idle"
                 /\ \A r \in Readers : rd[r].pc = "idle"
    /\ UNCHANGED vars

\* The process is started again after a panic: NewLocalLog makes new
\* lockers and NewCachedStorage an empty chunksCache, and no goroutine of
\* the old process is left.  The chunk files and the catalog database
\* persist, and record and chunk IDs go on ascending.
Restart ==
    /\ crash # "none"
    /\ restarts < MaxRestarts
    /\ restarts' = restarts + 1
    /\ crash' = "none"
    /\ closed' = FALSE
    /\ lockHolder' = None
    /\ cache' = <<>>
    /\ ap' = [a \in Appenders |-> IdleAppender]
    /\ rd' = [r \in Readers |-> IdleReader]
    /\ UNCHANGED <<acked, catalog, data, files, nextRid, nextCid, faults,
                   requested>>

Init ==
    /\ catalog = [c \in ChunkIds |-> NoInfo]
    /\ cache = <<>>
    /\ data = [c \in ChunkIds |-> <<>>]
    /\ files = {}
    /\ nextRid = 1
    /\ nextCid = 1
    /\ lockHolder = None
    /\ closed = FALSE
    /\ crash = "none"
    /\ faults = 0
    /\ requested = 0
    /\ restarts = 0
    /\ acked = {}
    /\ ap = [a \in Appenders |-> IdleAppender]
    /\ rd = [r \in Readers |-> IdleReader]

AppenderStep(a) ==
    \/ AppendLock(a) \/ AppendGetLast(a) \/ AppendGetLastFails(a)
    \/ AppendWrite(a) \/ AppendWriteFails(a) \/ AppendFinish(a)
    \/ AppendUpsert(a) \/ AppendUpsertFails(a)

ReaderStep(r) ==
    \/ ReaderFill(r) \/ QueryRead(r) \/ QueryEnd(r) \/ QueryReadFails(r)
    \/ CountScan(r) \/ CountScanFails(r) \/ ReaderReturn(r)

Running ==
    /\ crash = "none"
    /\ \/ \E a \in Appenders :
             \/ \E b \in Batches : AppendStart(a, b)
             \/ AppenderStep(a)
             \/ AppendCancel(a)
       \/ \E r \in Readers :
             \/ \E d \in BOOLEAN, s \in StartIds :
                   \/ \E l \in Limits : ReaderStart(r, Request("query", d, s, l))
                   \/ ReaderStart(r, Request("count", d, s, 0))
             \/ ReaderStep(r)
       \/ Shutdown

Next == Running \/ Restart \/ Halted

\* Every goroutine keeps running once it has a request; the log lock is a
\* sync.Mutex, whose starvation mode hands it to a waiter that keeps asking.
Fairness ==
    /\ \A a \in Appenders : /\ WF_vars(crash = "none" /\ AppenderStep(a))
                            /\ SF_vars(crash = "none" /\ AppendLock(a))
    /\ \A r \in Readers : WF_vars(crash = "none" /\ ReaderStep(r))

Spec == Init /\ [][Next]_vars /\ Fairness

\* The behaviours without the fairness, for the safety properties.
SafetySpec == Init /\ [][Next]_vars

-----------------------------------------------------------------------------
(* Views of the state used by the properties *)

\* rec lies on the requested side of the reader's start ID.
OnSide(st, rec) == \/ st.start = 0
                   \/ st.desc /\ rec.id <= st.start
                   \/ ~st.desc /\ rec.id >= st.start

Directed(st, s) == IF st.desc THEN Reverse(s) ELSE s

IsSegment(s, t) == \E k \in 0..(Len(t) - Len(s)) : SubSeq(t, k + 1, k + Len(s)) = s

DoneQuery(r) == rd[r].pc = "done" /\ rd[r].op = "query"
DoneCount(r) == rd[r].pc = "done" /\ rd[r].op = "count"

-----------------------------------------------------------------------------
(* Properties *)

TypeOK ==
    /\ catalog \in [ChunkIds -> Info]
    /\ DOMAIN cache \subseteq {Lid} /\ \A l \in DOMAIN cache : cache[l] \in Seq(CInfo)
    /\ data \in [ChunkIds -> Seq(Rec)]
    /\ files \subseteq ChunkIds
    /\ nextRid \in 1..(MaxRecords + 1) /\ nextCid \in ChunkIds \cup {Max(ChunkIds) + 1}
    /\ lockHolder \in Appenders \cup {None}
    /\ closed \in BOOLEAN /\ crash \in {"none", "db", "ctx"}
    /\ faults \in 0..MaxFaults /\ requested \in 0..MaxRecords
    /\ restarts \in 0..MaxRestarts /\ acked \subseteq RecIds
    /\ \A a \in Appenders :
         /\ ap[a].pc \in {"idle", "lock", "last", "write", "finish", "upsert"}
         /\ ap[a].recs \in Seq(Sizes) /\ ap[a].ci \in CInfo /\ ap[a].cis \in Seq(CInfo)
         /\ ap[a].first \in 0..(MaxRecords + 1) /\ ap[a].added \in 0..MaxRecords /\ ap[a].gerr \in BOOLEAN
         /\ ap[a].canceled \in BOOLEAN
    /\ \A r \in Readers :
         /\ rd[r].pc \in {"idle", "fill", "read", "scan", "done"}
         /\ rd[r].op \in {"query", "count"} /\ rd[r].desc \in BOOLEAN
         /\ rd[r].start \in StartIds /\ rd[r].sid \in StartIds
         /\ rd[r].cis \in Seq(CInfo) /\ rd[r].idx \in -1..Len(rd[r].cis)
         /\ rd[r].res \in Seq(Rec) /\ rd[r].more \in BOOLEAN
         /\ rd[r].total \in Nat /\ rd[r].count \in Nat /\ rd[r].stable \in BOOLEAN
         /\ rd[r].overtaken \in BOOLEAN

(* The catalog never indexes a record that is not in its chunk file (the    *)
(* ChunkInfos are upserted only after appendRecords wrote them), its chunks *)
(* hold disjoint ascending ID ranges, and whenever no AppendRecords holds   *)
(* the log lock it describes every chunk file exactly: RecordsCount equals  *)
(* the records in the file and no chunk file, empty or not, is left out    *)
(* (DeleteFileIfEmpty removes the chunk a failed write created).            *)
CatalogConsistent ==
    LET cis == LoadChunks IN
    /\ \A i \in 1..Len(cis) :
         /\ cis[i].id \in files
         /\ cis[i].cnt <= Len(data[cis[i].id])
         /\ data[cis[i].id][1].id = cis[i].min
         /\ data[cis[i].id][cis[i].cnt].id = cis[i].max
    /\ \A i \in 1..(Len(cis) - 1) : cis[i].max < cis[i + 1].min
    /\ lockHolder = None =>
         /\ \A i \in 1..Len(cis) : cis[i].cnt = Len(data[cis[i].id])
         /\ files = {cis[i].id : i \in 1..Len(cis)}

(* What QueryRecords returns is a run of consecutive records of the log in  *)
(* the requested direction, all on the requested side of StartID, and no    *)
(* longer than the capped limit, whatever appends run meanwhile.            *)
QueryResultValid ==
    \A r \in Readers : DoneQuery(r) =>
        LET st == rd[r] IN
        /\ IsSegment(st.res, Directed(st, PhysRecs))
        /\ \A i \in 1..Len(st.res) : OnSide(st, st.res[i])
        /\ Len(st.res) <= Max({st.limit, 0})

(* QueryRecords skips no record: every record the chunk list it read        *)
(* indexes on the requested side of StartID is returned if it comes before  *)
(* the last returned record, and is returned in any case when more is       *)
(* false; a client paging on more never misses a record.                    *)
QueryComplete ==
    \A r \in Readers : DoneQuery(r) =>
        LET st   == rd[r]
            want == SelectSeq(Directed(st, Indexed(st.cis)), LAMBDA x : OnSide(st, x))
            upto(x) == IF st.desc THEN x.id >= Last(st.res).id
                                  ELSE x.id <= Last(st.res).id
        IN \A i \in 1..Len(want) :
              (~st.more \/ (st.res # <<>> /\ upto(want[i])))
                  => \E j \in 1..Len(st.res) : st.res[j] = want[i]

\* The refinement mapping: the log of AppendLog is the sequence of records
\* the catalog database indexes, Indexed(LoadChunks) read off in chunk ID
\* order (a chunk without entry contributes its first 0 records).
IndexedRecords ==
    FlattenSeq([c \in ChunkIds |-> SubSeq(data[c], 1, catalog[c].cnt)])

AL == INSTANCE AppendLog WITH log <- IndexedRecords

(* localLog implements AppendLog: the records the catalog indexes only ever *)
(* grow by one AppendRecords' written prefix of its batch, appended in      *)
(* ascending ID order by UpsertChunkInfos, whatever writes, failures and    *)
(* new chunks happened before; no step loses, reorders or changes an        *)
(* indexed record.                                                          *)
AppendLogRefined == AL!Spec

(* Every record an AppendRecords call returned as Added stays indexed: the  *)
(* catalog's RecordsCount of its chunk covers it, so CountRecords counts it *)
(* and GetChunks lists its chunk, whatever later appends, failures and      *)
(* panics happen.                                                           *)
AckedIndexed == \A id \in acked : \E i \in DOMAIN IndexedRecords : IndexedRecords[i].id = id

(* Every AppendRecords call returns (or the process panics): the log lock   *)
(* is released on every path and no appender waits on it forever.           *)
AppendTerminates ==
    \A a \in Appenders : ap[a].pc # "idle" ~> (ap[a].pc = "idle" \/ crash # "none")

(* CountRecords counts exactly (spec 8): on a log that holds only indexed  *)
(* records and is not written while the call runs, count is the number of *)
(* records on the requested side of StartID, the number an unlimited       *)
(* QueryRecords from the same start would return.                          *)
CountExact ==
    \A r \in Readers : DoneCount(r) /\ rd[r].stable =>
        rd[r].count = Len(SelectSeq(PhysRecs, LAMBDA x : OnSide(rd[r], x)))

(* CountRecords returns as total every record of the log, whatever the     *)
(* start ID (spec 4.3: "total: all records in the log unconditionally").   *)
CountTotalIsAll ==
    \A r \in Readers : DoneCount(r) /\ rd[r].stable =>
        rd[r].total = Len(PhysRecs)

(* CountRecords never reports more records after the start than in total   *)
(* (spec 4.3 and 8: count <= total always holds), also while appends run.  *)
CountWithinTotal ==
    \A r \in Readers : DoneCount(r) => rd[r].count <= rd[r].total

(* A client canceling its AppendRecords never makes the process panic: the *)
(* comment before UpsertChunkInfos says context.Background is used so that *)
(* a closed ctx cannot fail the index update after data was written.       *)
NoPanicOnCancel == crash # "ctx"

(* When QueryRecords says more, it returned at least one record: the       *)
(* service takes res[len(res)-1].ID as the next page's start.              *)
MoreHasRecords ==
    \A r \in Readers : DoneQuery(r) /\ rd[r].more => rd[r].res # <<>>

=============================================================================
