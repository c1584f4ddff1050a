----------------------------- MODULE MetricsAPI -----------------------------
(***************************************************************************)
(* The metrics service (cmd/metrics, internal/metrics) and the queries of  *)
(* internal/storage it sends to MongoDB, while consumers keep inserting    *)
(* documents into the same collection.                                     *)
(*                                                                         *)
(* A member of Requests is one HTTP request and the goroutine net/http     *)
(* serves it with.  Requests share nothing but the collection, and every   *)
(* command MongoDB executes is a step of its own: GET /gpus asks for the   *)
(* distinct uuids and then, perhaps, for the distinct gpu_ids; GET         *)
(* /gpus/{id}/telemetry counts the matching documents and then fetches one *)
(* page of them.  What a handler computes from its own request in between  *)
(* belongs to the step before it.                                          *)
(*                                                                         *)
(* Identifiers are numbers, so that they can be sorted; None stands for a  *)
(* field a document lacks and for an empty path segment.  A query          *)
(* parameter is <<>> (absent) or <<n>>: text that strconv.Atoi refuses is  *)
(* any n outside the range of int, text that is no time is any n < 0.      *)
(* int goes from -MaxInt - 1 to MaxInt.                                    *)
(***************************************************************************)
EXTENDS Integers, Sequences, FiniteSets, SequencesExt

CONSTANTS
  Requests,      (* HTTP requests                                          *)
  Documents,     (* the documents consumers may insert; each at most once  *)
  Asked,         (* the identifiers, or None, clients ask telemetry for    *)
  LimitTexts,    (* what clients send as limit,                            *)
  PageTexts,     (* as page,                                               *)
  TimeTexts,     (* and as start_time and end_time                         *)
  DefaultLimit,  (* DEFAULT_PAGE_SIZE                                      *)
  MaxInt         (* the largest int: 2^63 - 1 in the builds                *)

None == 0

ASSUME MetricsAssumption ==
  /\ MaxInt \in Nat
  /\ DefaultLimit \in 1..MaxInt
  /\ Asked \subseteq Nat
  /\ \A d \in Documents : d.uuid \in Nat /\ d.gpu_id \in Nat /\ d.timestamp \in Nat
  /\ \A t \in LimitTexts \cup PageTexts \cup TimeTexts : t = <<>> \/ t[1] \in Int

Identifiers(field) == {d[field] : d \in Documents} \ {None}

\* The slice ListGPUs builds fits into memory: it has fewer items than half of
\* the ints, so that the end of a page that begins inside it is an int.
ASSUME SliceAssumption ==
  \A field \in {"uuid", "gpu_id"} :
    /\ IsFiniteSet(Identifiers(field))
    /\ 2 * Cardinality(Identifiers(field)) <= MaxInt

\* A gpu_id is an index on its host ("0"), never the uuid of a GPU ("GPU-...").
ASSUME NamesAssumption ==
  Identifiers("uuid") \cap Identifiers("gpu_id") = {}

VARIABLES
  docs,    (* the collection                                               *)
  server,  (* the process: serving -> draining -> exited                   *)
  pc,      (* where each request is                                        *)
  query,   (* path and parameters of each request                          *)
  found,   (* ListGPUs: ids, the identifiers found                         *)
  total,   (* QueryTelemetry: what CountDocuments returned                 *)
  reply,   (* the answer: status, items, error                             *)
  before,  (* history: the collection when a list request arrived          *)
  fetched  (* history: the collection when Find ran                        *)

local == <<found, total, before, fetched>>
vars == <<docs, server, pc, query, reply, local>>

ListQuery ==
  [path: {"gpus"}, limit: LimitTexts, page: PageTexts, asc: BOOLEAN]
TelemetryQuery ==
  [path: {"telemetry"}, gpu: Asked, start: TimeTexts, end: TimeTexts,
   limit: LimitTexts, page: PageTexts, asc: BOOLEAN]
NoQuery == [path |-> "none"]

Answer(status, items, error) == [status |-> status, items |-> items, error |-> error]
OK(items) == Answer(200, items, "")
Refused(status) == Answer(status, <<>>, "refused")
StoreFailed == Answer(500, <<>>, "store")
Recovered == Answer(500, <<>>, "panic")   \* gin.Recovery
NoReply == Answer(0, <<>>, "")

Init ==
  /\ docs = {}
  /\ server = "serving"
  /\ pc = [r \in Requests |-> "new"]
  /\ query = [r \in Requests |-> NoQuery]
  /\ reply = [r \in Requests |-> NoReply]
  /\ found = [r \in Requests |-> {}]
  /\ total = [r \in Requests |-> 0]
  /\ before = [r \in Requests |-> {}]
  /\ fetched = [r \in Requests |-> {}]

-----------------------------------------------------------------------------
(* Parameters and pages, in Go's int.                                      *)

\* The int that n wraps around to.
Wrap(n) == ((n + MaxInt + 1) % (2 * (MaxInt + 1))) - (MaxInt + 1)

ParseInt(values, default) ==
  IF values # <<>> /\ values[1] \in 1..MaxInt THEN values[1] ELSE default

Limit(q) == ParseInt(q.limit, DefaultLimit)
Page(q) == ParseInt(q.page, 1)
Validate(q) == Limit(q) > 0 /\ Page(q) > 0

ParsesTime(values) == values # <<>> => values[1] >= 0

OffsetFromZero(page, limit) == Wrap(page * limit)
CalculateOffset(page, limit) == Wrap((page - 1) * limit)

UpTo(end, len) == IF end > len THEN len ELSE end
EndOneMore(offset, limit, len) == UpTo(Wrap(offset + limit + 1), len)
PageEnd(offset, limit, len) == UpTo(Wrap(offset + limit), len)

\* items[offset:end], which panics unless 0 <= offset <= end.
PaginateSlice(items, offset, limit) ==
  LET end == PageEnd(offset, limit, Len(items)) IN
  CASE offset >= Len(items) -> OK(<<>>)
    [] offset < Len(items) /\ offset \in 0..end -> OK(SubSeq(items, offset + 1, end))
    [] OTHER -> Recovered

\* The one sequence of ids in the order asked for.
SortStrings(ids, asc) ==
  {s \in SetToSeqs(ids) :
     \A i, j \in DOMAIN s : i < j => IF asc THEN s[i] < s[j] ELSE s[i] > s[j]}

-----------------------------------------------------------------------------
(* The collection.                                                         *)

\* StoreMetric, in a consumer process: one InsertOne.
StoreMetric ==
  /\ \E d \in Documents \ docs : docs' = docs \cup {d}
  /\ UNCHANGED <<server, pc, query, reply, local>>

\* Distinct values of a field; the empty ones are left out.
Distinct(field) == {d[field] : d \in docs} \ {None}

Matches(d, q) ==
  /\ q.gpu \in {d.uuid, d.gpu_id}
  /\ q.start # <<>> => d.timestamp >= q.start[1]
  /\ q.end # <<>> => d.timestamp <= q.end[1]
Matching(D, q) == {d \in D : Matches(d, q)}

\* SetSkip: its conversion to int64 keeps the wrapped value.
SkipFromZero(page, limit) == Wrap(page * limit)
Skip(page, limit) == IF page <= 1 THEN 0 ELSE Wrap((page - 1) * limit)

\* d may come before e in the result of Find: equal timestamps come as they may.
NewestFirst(d, e, asc) == d.timestamp >= e.timestamp
SortedBefore(d, e, asc) ==
  IF asc THEN d.timestamp <= e.timestamp ELSE d.timestamp >= e.timestamp

Orders(D, asc) ==
  {s \in SetToSeqs(D) : \A i, j \in DOMAIN s : i < j => SortedBefore(s[i], s[j], asc)}

-----------------------------------------------------------------------------
(* Requests.                                                               *)

Reply(r, answer) ==
  /\ pc' = [pc EXCEPT ![r] = "answered"]
  /\ reply' = [reply EXCEPT ![r] = answer]

ListResponse(r, ids) ==
  LET q == query[r] IN
  \E s \in SortStrings(ids, q.asc) :
    Reply(r, PaginateSlice(s, CalculateOffset(Page(q), Limit(q)), Limit(q)))

Arrive(r) ==
  /\ server = "serving"
  /\ pc[r] = "new"
  /\ UNCHANGED <<docs, server, found, total, fetched>>

\* OPTIONS is answered by the CORS middleware, ahead of authentication (204);
\* with AUTH_TOKEN set, a missing or different bearer token is refused (401).
StopInMiddleware(r) ==
  /\ Arrive(r)
  /\ \E status \in {204, 401} : Reply(r, Refused(status))
  /\ UNCHANGED <<query, before>>

ListGPUs(r) ==
  /\ Arrive(r)
  /\ \E q \in ListQuery :
       /\ query' = [query EXCEPT ![r] = q]
       /\ \/ /\ ~Validate(q)
             /\ Reply(r, Refused(400))
          \/ /\ Validate(q)
             /\ pc' = [pc EXCEPT ![r] = "distinct uuid"]
             /\ UNCHANGED reply
  /\ before' = [before EXCEPT ![r] = docs]

QueryGPUTelemetry(r) ==
  /\ Arrive(r)
  /\ \E q \in TelemetryQuery :
       LET valid == /\ q.gpu # None
                    /\ ParsesTime(q.start) /\ ParsesTime(q.end)
                    /\ Validate(q)
       IN /\ query' = [query EXCEPT ![r] = q]
          /\ \/ /\ ~valid
                /\ Reply(r, Refused(400))
             \/ /\ valid
                /\ pc' = [pc EXCEPT ![r] = "count"]
                /\ UNCHANGED reply
  /\ UNCHANGED before

AlwaysFallsBack(ids) == TRUE
FallsBack(ids) == ids = {}

DistinctUUID(r) ==
  LET ids == Distinct("uuid") IN
  /\ server # "exited"
  /\ pc[r] = "distinct uuid"
  /\ found' = [found EXCEPT ![r] = ids]
  /\ \/ /\ FallsBack(ids)
        /\ pc' = [pc EXCEPT ![r] = "distinct gpu_id"]
        /\ UNCHANGED reply
     \/ /\ ~FallsBack(ids)
        /\ ListResponse(r, ids)
  /\ UNCHANGED <<docs, server, query, total, before, fetched>>

DistinctGPUID(r) ==
  LET ids == found[r] \cup Distinct("gpu_id") IN
  /\ server # "exited"
  /\ pc[r] = "distinct gpu_id"
  /\ found' = [found EXCEPT ![r] = ids]
  /\ ListResponse(r, ids)
  /\ UNCHANGED <<docs, server, query, total, before, fetched>>

CountDocuments(r) ==
  /\ server # "exited"
  /\ pc[r] = "count"
  /\ total' = [total EXCEPT ![r] = Cardinality(Matching(docs, query[r]))]
  /\ pc' = [pc EXCEPT ![r] = "find"]
  /\ UNCHANGED <<docs, server, query, reply, found, before, fetched>>

\* The server refuses a negative skip.
Find(r) ==
  LET q == query[r]
      skip == Skip(Page(q), Limit(q))
  IN
  /\ server # "exited"
  /\ pc[r] = "find"
  /\ \/ /\ skip < 0
        /\ Reply(r, StoreFailed)
     \/ /\ skip >= 0
        /\ \E s \in Orders(Matching(docs, q), q.asc) :
             Reply(r, OK(SubSeq(s, skip + 1, UpTo(skip + Limit(q), Len(s)))))
  /\ fetched' = [fetched EXCEPT ![r] = docs]
  /\ UNCHANGED <<docs, server, query, found, total, before>>

\* Any of the four commands may fail, or the cursor of Find.
StoreError(r) ==
  /\ server # "exited"
  /\ pc[r] \in {"distinct uuid", "distinct gpu_id", "count", "find"}
  /\ Reply(r, StoreFailed)
  /\ UNCHANGED <<docs, server, query, local>>

-----------------------------------------------------------------------------
(* The process.                                                            *)

\* SIGINT or SIGTERM: srv.Shutdown stops listening and waits for the requests
\* in flight,
StopSignal ==
  /\ server = "serving"
  /\ server' = "draining"
  /\ UNCHANGED <<docs, pc, query, reply, local>>

\* until they are answered or five seconds have passed; then main closes the
\* store and returns, and whoever is still in flight gets no answer.
Exit ==
  /\ server = "draining"
  /\ server' = "exited"
  /\ UNCHANGED <<docs, pc, query, reply, local>>

Next ==
  \/ \E r \in Requests :
       \/ StopInMiddleware(r) \/ ListGPUs(r) \/ QueryGPUTelemetry(r)
       \/ DistinctUUID(r) \/ DistinctGPUID(r)
       \/ CountDocuments(r) \/ Find(r) \/ StoreError(r)
  \/ StoreMetric \/ StopSignal \/ Exit

Spec == Init /\ [][Next]_vars

-----------------------------------------------------------------------------
(* Properties.                                                             *)

\* What is asked of an answer that takes its items from S.
Typed(a, S, limit) ==
  /\ a = Answer(a.status, a.items, a.error)
  /\ a.status \in {0, 200, 204, 400, 401, 500}
  /\ a.items \in Seq(S)
  /\ a.items # <<>> => Len(a.items) <= limit

\* What the items of the answer to q are.
Items(q) == IF q.path = "telemetry" THEN Documents ELSE Nat

\* Every variable keeps its type; no answer holds more items than the limit.
TypeOK ==
  /\ docs \subseteq Documents /\ IsFiniteSet(docs)
  /\ server \in {"serving", "draining", "exited"}
  /\ pc \in [Requests -> {"new", "distinct uuid", "distinct gpu_id", "count",
                          "find", "answered"}]
  /\ query \in [Requests -> {NoQuery} \cup ListQuery \cup TelemetryQuery]
  /\ found \in [Requests -> SUBSET Nat]
  /\ total \in [Requests -> 0..Cardinality(docs)]
  /\ before \in [Requests -> SUBSET docs]
  /\ fetched \in [Requests -> SUBSET docs]
  /\ DOMAIN reply = Requests
  /\ \A r \in Requests : Typed(reply[r], Items(query[r]), Limit(query[r]))

Smaller(a, b) == IF a < b THEN a ELSE b
Skipped(q) == (Page(q) - 1) * Limit(q)

\* r was answered on path, and its offset is an int.
AnsweredPage(r, path) ==
  /\ pc[r] = "answered"
  /\ query[r].path = path
  /\ reply[r].error # "refused"
  /\ Skipped(query[r]) <= MaxInt

\* items is the page of ids that q asks for.
PageOfIds(q, ids, items) ==
  LET Ahead(id) == {x \in ids : IF q.asc THEN x < id ELSE x > id} IN
  /\ Len(items) >= Smaller(Limit(q), Cardinality(ids) - Skipped(q))
  /\ \A k \in DOMAIN items :
       /\ items[k] \in ids
       /\ Cardinality(Ahead(items[k])) = Skipped(q) + k - 1

IdsRight(r) ==
  AnsweredPage(r, "gpus") /\ reply[r].error # "store" =>
    /\ reply[r].status = 200
    /\ PageOfIds(query[r], found[r], reply[r].items)

\* Unless the offset overflows int, listing GPUs never panics, and page n is
\* the n-th run of limit identifiers of all that were found: the k-th item has
\* exactly (n - 1) * limit + k - 1 of them ahead of it, and the page is as
\* long as they allow (service.ListGPUs, PaginateSlice).
ListPageRight == \A r \in Requests : IdsRight(r)

ListedOnce(r) ==
  AnsweredPage(r, "gpus") /\ reply[r].error # "store" =>
    /\ {d.uuid : d \in before[r]} \ {None} \subseteq found[r]
    /\ \A d \in docs : {d.uuid, d.gpu_id} \subseteq found[r] => d.uuid = d.gpu_id

\* Although ListGPUs asks MongoDB twice while documents come in, its list
\* holds every uuid stored before the request, and no GPU twice, once by its
\* uuid and once by its gpu_id.
GPUsListedOnce == \A r \in Requests : ListedOnce(r)

CoversCount(r) ==
  AnsweredPage(r, "telemetry") /\ reply[r].status = 200 =>
    Len(reply[r].items) >= Smaller(Limit(query[r]), total[r] - Skipped(query[r]))

\* Count and Find see different collections; still a page never shows fewer
\* documents than the total it reports calls for.
PageCoversCount == \A r \in Requests : CoversCount(r)

\* items may be the page of the documents all that q asks for.
PageOfDocuments(q, all, items) ==
  LET Later(d) == {e \in all : IF q.asc THEN e.timestamp > d.timestamp
                                        ELSE e.timestamp < d.timestamp}
      Earlier(d) == {e \in all : IF q.asc THEN e.timestamp < d.timestamp
                                          ELSE e.timestamp > d.timestamp}
  IN /\ IsInjective(items)
     /\ \A k \in DOMAIN items :
          /\ items[k] \in all
          /\ Cardinality(Earlier(items[k])) < Skipped(q) + k
          /\ Skipped(q) + k <= Cardinality(all) - Cardinality(Later(items[k]))

DocumentsRight(r) ==
  AnsweredPage(r, "telemetry") =>
    PageOfDocuments(query[r], Matching(fetched[r], query[r]), reply[r].items)

\* Unless the offset overflows, the k-th document of a page matches the query
\* and takes place (page - 1) * limit + k in the requested order of all
\* matching documents, up to equal timestamps; and no document is shown twice.
TelemetryPageRight == \A r \in Requests : DocumentsRight(r)

=============================================================================
