------------------------------- MODULE Service -------------------------------
(***************************************************************************)
(* The api Service's record paging (src/pkg/ql/intervalbuilder_test.go,    *)
(* which holds the Service code): QueryRecords over one log or several,    *)
(* the NextPageID it returns, and a client that follows NextPageID as the  *)
(* startRecordID of its next request, while AppendRecords add records.     *)
(*                                                                         *)
(* The proto (solaris.proto, QueryRecordsRequest) says the start is        *)
(* inclusive: IDs equal or greater when ascending, equal or lower when     *)
(* descending.  localLog.QueryRecords on a log whose catalog matches its   *)
(* chunk files (what LocalLog checks) is taken as one step: the records    *)
(* from the start, in the direction, as many as its limit and byte budget  *)
(* take.  Record IDs are minted in increasing order across all logs, as    *)
(* ULIDs are; 0 stands for the empty ID "".                                *)
(***************************************************************************)
EXTENDS Naturals, Sequences, SequencesExt, FiniteSets

CONSTANTS
    Logs,            \* the log IDs that exist
    Sizes,           \* payload sizes of appended records
    MaxRecords,      \* bound: records appended over a behaviour
    MaxRecordsLimit, \* localLog Config.MaxRecordsLimit
    MaxBunchSize,    \* localLog Config.MaxBunchSize
    MaxLogsToMerge,  \* maxLogsToMerge (1000 in the code), scaled down
    Requests         \* the requests a client may page with:
                     \* [ids : nonempty set of logs, desc : BOOLEAN, lim : Nat]

VARIABLES
    logs,    \* log ID -> its records [id, size], in ascending ID order
    nextId,  \* the next record ID minted
    cl       \* the paging client: its request, start, pc and what it got

vars == <<logs, nextId, cl>>

Rec == [id : 1..MaxRecords, size : Sizes]

-----------------------------------------------------------------------------
(* localLog.QueryRecords on a settled log *)

Directed(s, desc) == IF desc THEN Reverse(s) ELSE s

\* The records from the start ID on: SetStartID of the first chunk reader,
\* after the chunk search (later chunks lie wholly past the start).
From(s, desc, start) ==
    IF start = 0 THEN s
    ELSE SelectSeq(s, LAMBDA r : IF desc THEN r.id <= start ELSE r.id >= start)

\* readRecords: take while fewer than lim are taken and the payload read so
\* far is below MaxBunchSize.
RECURSIVE Taken(_, _, _)
Taken(s, lim, size) ==
    IF s = <<>> \/ lim <= 0 \/ size >= MaxBunchSize THEN 0
    ELSE 1 + Taken(Tail(s), lim - 1, size + Head(s).size)

PayloadOf(s) == FoldLeft(LAMBDA acc, r : acc + r.size, 0, s)

\* Bug variant: more ignores the byte budget.
StorageMoreNoBudget(res, limit) == Len(res) >= limit

\* The more result of QueryRecords: the limit or the byte budget was hit.
StorageMore(res, limit) == Len(res) >= limit \/ PayloadOf(res) >= MaxBunchSize

\* localLog.QueryRecords(LogID l, Descending, StartID, Limit): an empty
\* chunk list gives (nil, false); otherwise the limit is capped to
\* MaxRecordsLimit and the chunks are read in turn.
StorageQuery(l, desc, start, lim) ==
    LET s     == From(Directed(logs[l], desc), desc, start)
        limit == IF lim > MaxRecordsLimit THEN MaxRecordsLimit ELSE lim
        res   == SubSeq(s, 1, Taken(s, limit, 0))
    IN  [res |-> res, more |-> logs[l] # <<>> /\ StorageMore(res, limit)]

-----------------------------------------------------------------------------
(* Service.QueryRecords *)

\* ulidutils.NextID: the ID right after id.
NextID(id) == id + 1

\* Bug variant: the next page starts at the last record returned.
SinglePageNoNext(q) == [kind |-> "ok", res |-> q.res,
                        next |-> IF q.more THEN Last(q.res).id ELSE 0]

\* One log: nextID = NextID(res[len(res)-1].ID) when more.  With more and
\* no records the index is out of range: the handler panics ("panic").
SinglePage(q) ==
    IF q.more /\ q.res = <<>> THEN [kind |-> "panic", res |-> <<>>, next |-> 0]
    ELSE [kind |-> "ok", res |-> q.res, next |-> IF q.more THEN NextID(Last(q.res).id) ELSE 0]

\* newMixer (not in the repository): the records of all the logs from the
\* start on, merged in the direction of the request.
Mixer(ids, desc, start) ==
    From(Directed(SetToSortSeq(UNION {ToSet(logs[l]) : l \in ids},
                               LAMBDA x, y : x.id < y.id), desc), desc, start)

\* Bug variant: the next page starts at the last record taken.
MixerPageLastTaken(m, lim) ==
    LET k == IF Len(m) < lim THEN Len(m) ELSE lim IN
    [kind |-> "ok", res |-> SubSeq(m, 1, k), next |-> IF Len(m) > lim /\ k > 0 THEN m[k].id ELSE 0]

\* Several logs: take records while mx.HasNext() and lim > 0; nextID is the
\* ID of the record the mixer yields next, if any.
MixerPage(m, lim) ==
    LET k == IF Len(m) < lim THEN Len(m) ELSE lim IN
    [kind |-> "ok", res |-> SubSeq(m, 1, k), next |-> IF Len(m) > lim THEN m[lim + 1].id ELSE 0]

\* The result of one Service.QueryRecords: ErrExhausted beyond
\* maxLogsToMerge, else the one-log or the merged page.
Page(rq, start) ==
    IF Cardinality(rq.ids) > MaxLogsToMerge
    THEN [kind |-> "exhausted", res |-> <<>>, next |-> 0]
    ELSE IF Cardinality(rq.ids) = 1
         THEN SinglePage(StorageQuery(CHOOSE l \in rq.ids : TRUE, rq.desc, start, rq.lim))
         ELSE MixerPage(Mixer(rq.ids, rq.desc, start), rq.lim)

IdsOf(s) == [i \in 1..Len(s) |-> s[i].id]

-----------------------------------------------------------------------------
(* The steps *)

\* Service.AppendRecords: GetLogByID finds the log, and localLog appends.
AppendRecords(l, sz) ==
    /\ nextId <= MaxRecords
    /\ logs' = [logs EXCEPT ![l] = Append(@, [id |-> nextId, size |-> sz])]
    /\ nextId' = nextId + 1
    /\ UNCHANGED cl

\* A client starts paging: the records then in its logs are those it must
\* read ("owed").
StartPaging(rq) ==
    /\ cl.pc = "idle"
    /\ cl' = [pc |-> "paging", rq |-> rq, start |-> 0, got |-> {}, prev |-> 0, page |-> <<>>,
              owed |-> {r.id : r \in UNION {ToSet(logs[l]) : l \in rq.ids}}]
    /\ UNCHANGED <<logs, nextId>>

\* One Service.QueryRecords call with startRecordID = the client's start;
\* the client keeps the records and follows NextPageID until it is "".
\* It remembers the IDs it read, the last ID before the latest page, and
\* the latest page.
QueryRecords ==
    LET p == Page(cl.rq, cl.start) IN
    /\ cl.pc = "paging"
    /\ cl' = CASE p.kind = "exhausted" -> [cl EXCEPT !.pc = "failed"]
               [] p.kind = "panic"     -> [cl EXCEPT !.pc = "panic"]
               [] OTHER -> [cl EXCEPT !.got = @ \cup ToSet(IdsOf(p.res)),
                                      !.prev = IF cl.page = <<>> THEN @ ELSE Last(cl.page),
                                      !.page = IdsOf(p.res), !.start = p.next,
                                      !.pc = IF p.next = 0 THEN "done" ELSE "paging"]
    /\ UNCHANGED <<logs, nextId>>

\* Nothing is left to do: the client stopped and no more records come.
Quiescent ==
    /\ cl.pc \in {"done", "failed", "panic"}
    /\ nextId > MaxRecords
    /\ UNCHANGED vars

Init ==
    /\ logs = [l \in Logs |-> <<>>]
    /\ nextId = 1
    /\ cl = [pc |-> "idle", rq |-> CHOOSE rq \in Requests : TRUE, start |-> 0,
             got |-> {}, prev |-> 0, page |-> <<>>, owed |-> {}]

Next ==
    \/ \E l \in Logs, sz \in Sizes : AppendRecords(l, sz)
    \/ \E rq \in Requests : StartPaging(rq)
    \/ QueryRecords
    \/ Quiescent

\* The client keeps following NextPageID; appends are not forced.
Spec == Init /\ [][Next]_vars /\ WF_vars(QueryRecords)

-----------------------------------------------------------------------------
TypeOK ==
    /\ logs \in [Logs -> Seq(Rec)]
    /\ nextId \in 1..(MaxRecords + 1)
    /\ cl.pc \in {"idle", "paging", "done", "failed", "panic"}
    /\ cl.rq \in Requests
    /\ cl.start \in 0..(MaxRecords + 1)
    /\ cl.got \subseteq 1..MaxRecords
    /\ cl.prev \in 0..MaxRecords
    /\ cl.page \in Seq(1..MaxRecords)

\* Following NextPageID reads each record once and in order: the IDs of the
\* latest page, after the last ID read before it, are strictly ascending
\* (descending for a descending request).  Single-log pages start at NextID(last), the
\* merged ones at the next record itself; both must skip exactly the
\* records already returned, whatever AppendRecords do in between.
PagesInOrder ==
    LET s == IF cl.prev = 0 THEN cl.page ELSE <<cl.prev>> \o cl.page IN
    \A i \in 1..(Len(s) - 1) : IF cl.rq.desc THEN s[i] > s[i + 1] ELSE s[i] < s[i + 1]

\* A client that reaches an empty NextPageID has read every record its logs
\* held when it started: a page cut short by the limit or by MaxBunchSize
\* always reports more.
PagesComplete ==
    cl.pc = "done" => cl.owed \subseteq cl.got

\* A client that follows NextPageID eventually gets an empty one.
PagingTerminates == cl.pc = "paging" ~> cl.pc # "paging"

\* No QueryRecords request makes the handler panic.
NoPanic == cl.pc # "panic"

====
