# A TLA+ verification of the message-streaming application

This directory models the Go program of this repository in TLA+, checks the
models with TLC and proves their safety properties with the TLA+ proof system.
Module names and definitions keep the names of the source.

## 1. The system

GPU metrics in a CSV file are streamed by *producers* over TCP to a *message
queue* (the broker), which passes them to *consumers*, which insert them into
MongoDB; a *metrics API* answers HTTP queries from there.

| Component | Source | State | Operations | Talks to |
|---|---|---|---|---|
| Broker, broadcast mode | `internal/broker/broker.go`, `consumer_registry.go` | `BroadcastRegistry.consumers` under an RWMutex, one channel and one handler goroutine per consumer, one 64 KiB read buffer per producer handler | accept, read role, `RegisterConsumer`, `UnregisterConsumer`, `BroadcastMessage`, range over the channel and `WriteFrame`, `Close` | TCP peers; handlers share the registry and the channels |
| Broker, queue mode | `broker.go`, `memory_queue.go` | one buffered channel in the unsynchronised field `q.queue` | `Enqueue`, `Dequeue` (neither blocks), `Close` | the same peers |
| Broker main | `cmd/message_queue/main.go` | serving / stopping | accept loop; on a signal: close the listener, stop the health server, `Broker.Close`, sleep 1 s, return | kills every handler by returning |
| Wire protocol | `internal/protocol/frame.go`, `HandleConn` | per connection: the handler's `bufio.Reader`, the frame being read | role line, then length-prefixed `WriteFrame` / `ReadFrame`, frames up to 1 MiB | all TCP peers |
| Producer | `cmd/producer`, `internal/producer` | `csv.Reader` position, error flag, row counter | dial, role line, read/transform/write one row at a time, exit 0 or 1 | broker; the CronJob's pods restart it on failure |
| Consumer | `cmd/consumer` | connection, read buffer | dial, role line, connect to MongoDB, read a frame, `StoreMessage`, go on | broker, MongoDB; its Deployment restarts it |
| Storage | `internal/storage/mongodb.go` | the `metrics` collection (in MongoDB) | `StoreMessage`/`StoreMetric` (one insert), `ListGPUs` (one or two `Distinct`), `QueryTelemetry` (`CountDocuments`, then `Find`) | MongoDB |
| Metrics API | `cmd/metrics`, `internal/metrics` | per request only | CORS, bearer token, `GET /gpus`, `GET /gpus/{id}/telemetry`, graceful shutdown | storage |
| Row transformation and labels | `internal/producer/transformers.go`, `csv_reader.go` | column indices | row map, `TransformRow`, `TransformRowWithRaw`, `ParseLabels` | the producer's loop |
| Message format | `internal/message` | none | `New`, `MarshalJSON`, `UnmarshalJSON` | producer, consumer, storage |
| Configuration, logging, charts | `internal/common`, `charts/` | none | | |

What is hard here, and what makes each part correct:

* **Broadcast.** `BroadcastMessage` copies the registered channels under the
  lock and sends after releasing it, so it interleaves with registration, with
  disconnecting consumers (which close their channel), with other producers and
  with `Close`. Every frame is read into the same buffer, so each send needs its
  own copy. Correct means: each consumer gets each producer's frames in order
  and at most once; nothing is lost but by a full channel; no channel is closed
  twice; what a closed channel still buffers is written; a slow consumer never
  holds up a producer.
* **Queue.** Competing consumers take from one channel, an empty queue drops
  the consumer's connection, a frame whose write fails is gone, and `Close`
  races `Enqueue` and `Dequeue` on an unprotected field. Correct means: each
  accepted frame is in exactly one place, frames leave in order of acceptance,
  full queues do not block producers.
* **Connection.** TCP cuts the bytes anywhere, the handler reads ahead of the
  role line, a frame takes two writes, and either end may die between any two
  bytes. Correct means: frames arrive whole, in order and once, and a reader that
  ends by itself has left none behind.
* **Rows.** A labels text quotes and escapes its separators; columns may share a
  name, differ in case or have none; a message's timestamp may be missing.
  Correct means: labels are the pairs the quoting says, cells that are not empty
  reach the document unchanged (all but that of an unnamed column, see
  `row_labels`), nothing else does, and a document's timestamp is a time.
* **Pipeline.** Processes die and start over, a producer from the first row;
  rows may be malformed; an insert that has timed out may take effect all the
  same, also after the inserts that follow it. Correct means: a completed pod sent
  the whole file, a consumer stores nothing twice and out of order only what it
  was told had failed, and duplicates come from restarts only, also when
  consumers compete for one queue.
* **Metrics API.** Each answer is computed from two commands, between which
  consumers insert; page arithmetic is done in wrapping ints. Correct means:
  pages partition the result, an answer's page and total fit together, every GPU
  is listed once.

The complete list of hazards, each at its line, is in `PROJECT.json`.

## 2. The modules

| Module | What it is |
|---|---|
| `Induction` | induction and recursion up to a bound, for the proofs about loops |
| `Frames`, `FrameLemmas` | order of frames in a sequence, shared by the others, and what is proved about it |
| `FanOut` | abstract: what broadcast delivery promises, a lossy first-in first-out stream per consumer |
| `BroadcastBroker` | the broker process in broadcast mode, handler by handler |
| `BroadcastProofs` | theorems about `BroadcastBroker`, and that it implements `FanOut` |
| `WorkQueue` | abstract: what queue delivery promises, one line, at-most-once delivery |
| `QueueBroker` | the broker process in queue mode |
| `QueueProofs` | theorems about `QueueBroker`, and that it implements `WorkQueue` |
| `FrameStream` | abstract: what frames over one connection promise |
| `Connection` | role line and frames over one TCP connection, byte by byte |
| `ConnectionProofs` | theorems about `Connection`, and that it implements `FrameStream` |
| `RowTransform` | one CSV record on its way to a MongoDB document |
| `RowProofs` | theorems about `RowTransform` |
| `Pipeline` | producer and consumer processes composed with the broker that `FanOut` or, by delivery mode, `WorkQueue` promises |
| `PipelineProofs` | theorems about `Pipeline` |
| `MetricsAPI` | requests of the metrics API and the commands they send to MongoDB, against concurrent inserts |
| `MetricsProofs` | theorems about `MetricsAPI` |
| `MC*` | instances for TLC |

### BroadcastBroker

A producer or consumer is a TCP connection and its `HandleConn` goroutine; `ppc`
and `cpc` say where the goroutine is. One action is one stretch of code whose
middle no other goroutine sees: a critical section of the registry's mutex, one
channel operation, one read or write of a connection. `BroadcastMessage` is
therefore `BroadcastSnapshot` (the part under the lock) followed by one
`BroadcastSend` per channel still in `todo`: `SendOK`, `SendFull` (the method
returns, and the rest of the snapshot gets nothing) or `SendClosed` (the process
panics). `RangeMsg`, `WriteFrame`, `RangeEnd` and `UnregisterConsumer` are the
loop of `handleConsumerBroadcast` and its deferred call; `StopSignal`,
`CloseBroker` and `Exit` are the end of `main`. A slice that shared the handler's
read buffer would be marked `Shared` and read as whatever the buffer holds by
then; `MsgCopy` never produces one, which is what the copy in the code is for.
`audience`, `overflow` and `written` are history variables.

### QueueBroker

The same handlers around `MemoryMessageQueue`. `EnqueueCheck`/`DequeueCheck` are
the nil check, `EnqueueSend`, `EnqueueFull`, `EnqueueClosed`, `DequeueReceive`
and `DequeueError` the select that follows. `Close` is two steps, `CloseChannel`
and `CloseNil`: nothing protects `q.queue`, so an operation that already passed
its check either uses the channel it read or reads the field again, and both are
allowed. Consumers reconnect, as the deployed ones do. A consumer of the model has
one connection at a time; a client whose new connection overlaps with the handler
of its old one, which the accept loop allows, is two consumers.

### Pipeline

A producer or consumer is one run of a container, `<<pod, n>>`; run `n + 1` may
start when run `n` ended in a way the restart policy reacts to (`OnFailure`,
`Always`). `StreamRow`, `ReadRowError` and `Complete` are the three outcomes of a
turn of `StreamCSVMetrics`. Whether a row is malformed is fixed at the start, for
any set of rows. Between the producer's `sent` and the broker's `offered` lies
TCP: frames written by a process that is gone may arrive or be lost. `mode` is
what `ParseDeliveryMode` makes of the setting. The broker's variables change only
by steps of `FanOut` in broadcast mode and of `WorkQueue` in queue mode, the
modules that `BroadcastBroker` and `QueueBroker` are shown to implement; `cut`
holds in both modes the consumers that are sent nothing more. In broadcast mode a
consumer's end cuts its stream; in queue mode its handler goes on taking frames (`Dequeue`, `WriteDequeued`)
until a write fails (`WriteFails`).

`StoreError` is an `InsertOne` that returns an error, and the consumer goes on with
the next frame at once. The five seconds it was given are the client's, so its
document may be in the collection by then, or land at any later time
(`InsertLate`): behind documents of later frames, which travel on other pooled
connections, or when the consumer has ended. The same holds for a consumer killed
in an insert (`KillConsumer`). `failed` has these frames; each lands at most once,
since nothing in the repository asks MongoDB for it twice.

### Connection

The two ends are the client and its handler in the broker; frames go from the
client (a producer) or to it (a consumer). `flight` holds the bytes on their way
in each direction. `WriteHeader` and `WriteBody` are the two writes of
`WriteFrame`, between and within which the writer may be killed (`Kill`) and the
connection may break and lose any suffix of what is in flight (`Break`); once the
other end has gone a write is lost or fails (`WriteError`). `Fill` is the
`bufio.Reader` reading ahead by any number of bytes, `ReadRole` takes the first
line out of it, and `partial` is what `ReadFrame` has collected: the handler takes
from the buffer (`HandlerTakes`), a consumer from the connection (`ClientTakes`).
Lengths are `HeaderLen` digits to the base `Base`, four to the base 256 in the
code. `upto` is a history variable: the bytes of the role line, of it and the first
frame, and so on. The broker modules treat a frame as atomic;
`ImplementsFrameStream` is what allows it.

### RowTransform

A record passes `GetNextRow` (the row map), `TransformRow`, `Stream` (message and
JSON) and `StoreMessage` (JSON, timestamp, `created_at`). Texts are sequences of
characters where `ParseLabels` looks into them. `Scan` is one turn of its loop
over characters, `AddLabel` one of its loop over parts; `Scanned` and `Collected`
are the states of the two loops, turn by turn. The property they are checked
against does not scan but counts the backslashes and quotes in front of each comma. `StreamElsewhere` stands for other
clients of the broker, whose messages may lack a timestamp or have one in another
format.

### MetricsAPI

One step per command MongoDB executes; everything a handler computes on its own
belongs to the step before. Integers wrap beyond `MaxInt` (`Wrap`), Go's slice
panics are answers with error `"panic"` (gin.Recovery turns them into a 500), and
`Find` may return documents with equal timestamps in any order. `before` and
`fetched` are history variables. What is outside the repository, and modelled
from how it is used: MongoDB's filter, distinct and sort, and that it refuses a
negative skip.

## 3. The runs

All runs use `CHECK_DEADLOCK FALSE`: every process here may stop, by a signal, by
exiting or by a panic.

| Run | Instance | Shows |
|---|---|---|
| `broadcast_safety` | 2 producers, 2 consumers, 2 frames each, channels of 1; symmetric | order and no duplicates, loss only by overflow, single close, draining, types |
| `broadcast_progress` | 1 producer, 2 consumers of which one keeps reading, 3 frames, channels of 1 | refinement of `FanOut`; producers never held up; buffered frames reach a reading peer; handlers of closed channels finish |
| `queue_safety` | 2 producers, 2 consumers, 2 frames, queue of 2; symmetric | each accepted frame is in one place, order, refinement of `WorkQueue`, types |
| `queue_progress` | 1 producer, 2 consumers, 3 frames, queue of 2 | queued frames are taken although consumers are dropped each time the queue is empty; a full queue does not block |
| `pipeline_restarts` | both delivery modes, 1 producer pod and 1 consumer pod with 2 runs each, 2 rows, any of them malformed, 1 failed insert (states with 2 are checked and not continued) | completed means whole, documents out of order only after a failed insert, none twice, duplicates only from restarts, types |
| `connection_frames` | 5 role lines, 2 frames of 4 bodies, 4 bytes, headers of 2, frames of at most 2 | refinement of `FrameStream`, nothing left behind, frames arrive, types |
| `row_transform` | all 55 987 labels texts of up to 6 of 6 characters; all tables of up to 3 of 5 columns and 3 cells | where `ParseLabels` splits, against a definition of the separators; what each cell comes to in the document, and the document's timestamp; types |
| `metrics_queries` | 1 request with 4 limits, 4 pages, 3 ids, 3 texts for each time, 5 documents, 4-bit ints | right pages on both endpoints, GPUs listed once, page covers the count, types |

Runs that end in a counterexample, each for one sentence the repository says of
the program:

| Run | The sentence | What the code does |
|---|---|---|
| `broadcast_collateral_loss` | README.md:67: each registered consumer receives every message; a full channel may drop messages | `BroadcastMessage` returns at the first full channel, so consumers with room miss the frame too |
| `broadcast_disconnect_panic` | interfaces.go:67: sends to all registered consumers | it sends to a snapshot; a consumer that left in between has closed its channel, and the broker panics while serving |
| `queue_shutdown_panic` | main.go:74: wait for ongoing handlers to finish | an `Enqueue` past its nil check sends on the closed channel and panics |
| `row_labels` | transformers.go:15: the names of columns to transform | `getColumnNameByIndex` returns `""` for every column: the named ones are stored as they are, and an unnamed one is overwritten with the time |

Smaller disagreements, plain from the code and without a run of their own:

* broker.go:143 says that a consumer handler waits and retries when the queue is
  empty; it returns, which closes the connection (`DequeueError` in
  `QueueBroker`).
* interfaces.go:14 says that in queue mode each message is delivered to exactly
  one consumer; a frame that was dequeued and could not be written is dropped
  (`lost` in `WorkQueue`), so it is at most one.
* docs/metrics_api.md:30 says that invalid pagination parameters are answered
  400; `ParseInt` replaces them by defaults before anything validates them, and
  the first page is returned.
* mongodb.go:140 says that `ListGPUs` falls back to `gpu_id` if `uuid` is missing
  in some documents; it does so only if no document has one.
* producer.go:59 logs that it skips an unreadable row; it returns (`ReadRowError`
  in `Pipeline`).
* producer.go:93 says that `Close` tries to flush; it sets a deadline of now,
  which flushes nothing (and loses nothing, since each write has already
  returned).

**Bounds.** Two producers are what it takes to mix streams in one channel, two
consumers what it takes for one to be full, gone or closed while another is
served. Two frames per producer with channels of one make full channels, reuse
of the read buffer and reordering possible; `broadcast_progress` has three, so that a
consumer that stops reading holds one frame, buffers one and stays full for the third.
Two rows and two runs per container
allow a stream that stops in the middle and is repeated; one failed insert
(`MaxFailed`, the constraint `FewFailures`) is what it takes for a document to
land behind the next one or after its consumer's end, and a second adds nothing
but another such document. In `connection_frames`
two frames are enough for the second to suffer from whatever the reader did with
the first; line feeds occur in the header of one frame and in the body of
others, and one frame is over the limit, one at it and one empty. Six characters
hold two pairs, a quoted separator and an escaped quote. In `metrics_queries`
five documents give up to three identifiers, ties in time and a document without
uuid; 4-bit integers let `(page - 1) * limit` overflow for page 3 of 4. Requests
share nothing but the collection, whose inserts interleave with the one request
in every way, so a second request adds no new observation.

**Fairness.** `HandlerFairness` is weak fairness of each handler's own steps: the
Go scheduler runs every goroutine that can run. Not fair are: signals,
disconnects, new connections, frames from producers, and `WriteFrame` towards a
consumer that is not in `Readers` (TCP blocks when the peer stops reading). In
queue mode consumers are taken to reconnect, since Kubernetes restarts them.
In `Connection` the steps of whoever reads are fair (`ReadStep`) and nothing
else: neither writing nor closing. Panics and exits are steps, never excluded by fairness: the liveness properties
end in "or the process has ended".

**Mutants.** For each checked property `PROJECT.json` names a small change of the
model that a plausible bug would make (no copy, no clearing of the registry, an
off-by-one, a retry after a failed insert...) and under which the property fails.

## 4. The theorems

TLC checks instances; the theorems hold for every value of the constants that
the assumptions allow: any sets of connections, pods, requests, documents and
texts, finite or not, any number of frames, rows and runs, any capacity and any
width of integers. Each module of theorems first proves type correctness, then
an invariant `IInv` that is inductive, part by part, each part on top of those
before it. The parts are defined where the proofs are, each with a comment that
says what it means; a part has an `...Init` lemma and an `...Step` lemma with one
step per action. `IInv` can be checked like any invariant, by a module that extends
the MC module and the module of theorems; on the instances of section 3 it holds.

| Module | Theorems | Assumed of the constants |
|---|---|---|
| `BroadcastProofs` | `TypeCorrect`, `ChannelsClosedOnce`, `ChannelsDrained`, `FramesInProducerOrder`, `FramesLostOnlyByOverflow`, `Invariance`, `BroadcastIsFanOut` | `BroadcastAssumption`: a capacity of at least one (the default is 10000); `Readers` are consumers |
| `QueueProofs` | `TypeCorrect`, `FramesInProducerOrder`, `FramesInOnePlace`, `Invariance`, `QueueIsWorkQueue` | `QueueAssumption`: a capacity of at least one |
| `PipelineProofs` | `TypeCorrect`, `CompletedPodsWroteTheFile`, `AcknowledgedInOrder`, `RowsStoredOncePerRun`, `Invariance` | `PipelineAssumption`: numbers are natural |
| `ConnectionProofs` | `TypeCorrect`, `NothingIsLeftBehind`, `Invariance`, `ConnectionIsFrameStream`, `FramesReadAreFramesWritten` | `ConnectionAssumption`: a length prefix has at least one byte, a role line one line feed, at its end; `HeaderAssumption`, see below |
| `RowProofs` | `TypeCorrect`, `LabelsRight`, `DocumentsFromRecords`, `TimestampsAreTimes`, `Invariance` | `RowAssumption`: a header is a sequence of strings, a record has as many cells as the header has columns, which `csv.Reader` enforces, and its cells are sequences of characters |
| `MetricsProofs` | `TypeCorrect`, `PagesOfIds`, `NoGPUTwice`, `PageFillsTotal`, `PagesOfDocuments`, `Invariance` | `MetricsAssumption`, `SliceAssumption`, `NamesAssumption`, see below |

### Loops

`ParseLabels` and the conversion of a length to and from its header are loops, in
the model recursive functions of the number of turns. What they compute for a text
or a header of any length is shown by induction over the turns. `Induction` has what
this takes: every set of naturals has a least element (from the library's theorem
that `<` is well-founded on `Nat`), so what holds at 0 and is handed on by each turn
holds after every turn (`UpTo`, where the induction hypothesis is a set of numbers),
and a loop has a run at all (`Recursion`: were there a first number of turns without
one, the run for one turn less could be continued). From the latter follow the
equations of `Scanned`, `Collected`, `Shifted` and `Uint` (`...Step`).

### Broadcast

1. `Ownership`: a registered channel is open and its handler is between
   registering and unregistering; a snapshot only names channels that are
   registered or closed. Without it the second close cannot be excluded.
2. `Handover`: where a handler may hold a frame, and that it leaves an unbroken
   connection only with a closed, empty channel. It gives `DrainBeforeLeave`.
3. `StreamOrder`: what was written, what the handler holds and what the channel
   buffers form one ordered stream, and no part of it contains the frame its
   producer has still to send there (`Owes`). Order of `written` alone says
   nothing about what is about to be written.
4. `Accounted`: each consumer of a snapshot holds the frame, is still to get it,
   or some channel of the snapshot was full. It gives `LossOnlyByOverflow`.

`BroadcastIsFanOut` maps a consumer's stream to what was written to it, what is
pending to what the handler holds followed by what the channel buffers, and calls
the stream cut once its connection is broken or its handler has left. Each action
is a step of `FanOut` or a stutter.

### Queue

1. `NotAhead`: an accepted frame is not the one its producer's handler is about
   to enqueue, so what is enqueued is new and the greatest of its producer.
2. `LineOrder`: for each consumer, what was written to it, what its handlers hold
   and the queue are one ordered stream. It gives `ProducerOrder`.
3. `Places`: queue, losses and what each consumer has taken are disjoint and make
   up what was accepted. `OnePlaceEach`, which counts copies, follows once the
   order says that no place holds a frame twice.
4. `LastIsGreatest`: the number that `WorkQueue` keeps for each producer is the
   greatest accepted. `QueueIsWorkQueue` needs it for the mapping.

### Pipeline

1. `WritesFile`, `RunsInTurn`: a producer has written the beginning of the file,
   all of it if it completed; only the last run started may not have failed.
2. `OneMode`: the broker works in one delivery mode and accepts, in turn, what it
   was offered.
3. `OnTheWay`: for each consumer, what was delivered, what its handler took and
   what waits are one ordered stream.
4. `Apart`: consumers that compete for the queue have no frame in common.
5. `StoresWhatItReads`: what a consumer has tried to insert (`Tried`: its documents
   and its failed inserts, which may still land) was delivered to it, and is older
   than what it has still to read or to insert. So a first insert extends the
   documents in order, and one that lands late is of a failed frame
   (`LandsRight`); that it lands once is `Unsettled`, whose size `TypeOK` bounds
   together with the documents by the number of frames read (`UnsettledCount`).

`RowsStoredOncePerRun` follows: two documents of one row and one pod come from two
runs of the producer, or, in broadcast mode, were inserted by two consumers.

### Connection

1. `Positions`: `upto` is what it is meant to be.
2. `RoleFirst`: nothing is sent before the role line and no frame is sent or read
   by a handler that has not read it.
3. `Collecting`: what `ReadFrame` has collected is the beginning of the frame that
   is due. The size it reads is therefore that frame's, and `io.ReadFull` never
   asks for a byte behind it.
4. `Carried`: until the reader leaves, the bytes it has used, as role line and as
   frames, followed by those still unread, collected, buffered or on their way, are
   the beginning of what was written; on an unbroken connection they are all that
   was sent, and include every frame whose `WriteFrame` returned. A step of the
   reader moves a piece from one place to the next, the writer's steps add a piece
   at the end, a break takes one away.
5. `Ended`: a reader that ended by itself has returned all of them, or stands
   before a frame that is too large. In `ReadError` no byte is on its way and some
   are missing, so the used bytes end where the last complete frame does; in
   `RoleError` there is no line feed, so not even the role line was sent whole.

`ConnectionIsFrameStream` maps the connection to the frames whose writing began,
those that were returned, and whether the reader has left: `WriteHeader` is
`Write`, `ReadFrame` is `Read`, a reader that leaves is `End`, and all else
stutters. `FramesReadAreFramesWritten` says what this means: what was returned are
the first frames that were written. `HeaderAssumption` says that a frame's length
fits the header, as lengths below 2^32 fit four bytes: nothing is left of it when
all its bytes are shifted out. That such a length is read back from its header
(`HeaderReadsBack`) is proved for headers of any number of bytes of any base: after
`k` bytes `Uint` has what is left of the length without its last `HeaderLen - k`.

### Rows

`RowFromRecord`, `PayloadFromRow` and `DocFromPayload` say what each stage makes of
the one before. `DocumentsFromRecords` says what becomes of each cell whose column
shares its name with no other (of columns with one name the row map has only the
last, so nothing is claimed about them): a cell that is not empty is in the
document as text, that of `labels_raw` too, because the only column TransformRow
ever transforms is the one without a name. That column's cell is replaced by the
time if the file has a timestamp column, or else by its parsed labels if it has a
`labels_raw` column. `timestamp` and `created_at` are set by the store, whatever
the file has there; `TimestampsAreTimes` is about the former.

`LabelsRight` is about texts of any length over any characters. After `n` characters

1. the flags of the loop say whether the next character is escaped and whether an
   odd number of unescaped quotes precedes it (`FlagsRight`), so the loop ends a part
   exactly at the separators (`EndsAtSeparators`);
2. the current part begins behind the last separator so far, and the parts before it
   yield, of each key, the last pair (`PartsRight`, by `LastPartWins` for each part).

At the end of the text the current part is added if it is not empty; an empty one
is no pair. How a part is cut into key and value (`TrimSpace`, the first `=`, the
quotes around a value) is the same on both sides: neither the theorem nor the run
says anything about it.

### Metrics API

1. `Dispatched`: a command belongs to a request of its path that has no answer.
2. `OneField`: what was found are values of one field.
3. `FellBack`: when `gpu_id`s are asked for, no document that was there at the
   start has a `uuid`. This is what makes `GPUsListedOnce` true of two commands
   that see two different states of the collection.
4. `StillThere`: the documents that were counted are still there for `Find`.

The rest is the arithmetic of pages, for integers of any width: `(page - 1) *
limit` may wrap. `TypeCorrect` shows that even then no answer holds more than its
limit; the theorems about pages speak of offsets that fit an int. `SliceAssumption` says that twice the number of
identifiers is an `int`: they are a slice in memory, of 16-byte strings, so in
Go this always holds, and without it the end of a page inside the slice could
overflow. `NamesAssumption` says that no `gpu_id` is also a `uuid`, as in the
files under `internal/data`; without it one identifier could name two GPUs.

### Only model-checked

* All liveness (`FrameArrives` and the properties of the `progress` runs):
  fairness and `ENABLED` are beyond the prover.

## 5. What is not modelled

* In the broker modules a frame arrives whole or its read fails; `Connection` has
  the bytes. Frames over 1 MiB are one way for the read to fail.
* JSON as text, invalid UTF-8, and characters beyond the six `ParseLabels` tells
  apart (of white space only the blank). Message id, type and source, which
  nothing reads.
* `GetRawRow`, `RowCount` and `IsValid`, which no process calls.
* Identifiers other than texts: a `gpu_id` another client stored as a number is
  not told apart from its text.
* MongoDB, TCP, Kubernetes and gin, beyond what is stated above. A cursor that
  fetches a page in several batches is one step.
* Health and documentation routes, logging, configuration lookups, charts.
* The role of `MAX_CONSUMERS`, a size hint of a map.

## 6. Plan

Done: every component of the table in section 1 that is modelled is checked, and
every safety property the passing runs check is proved for all values of the
constants.

Next: a model of what a handler does that registers after `Close`
(consumer_registry.go:33), which no property covers yet.
