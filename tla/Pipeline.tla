------------------------------ MODULE Pipeline ------------------------------
(***************************************************************************)
(* A CSV file on its way into MongoDB: producer processes (cmd/producer,   *)
(* internal/producer) stream its rows to the broker, the broker passes     *)
(* them on, and consumer processes (cmd/consumer, internal/storage) insert *)
(* one document per frame.                                                 *)
(*                                                                         *)
(* In broadcast mode the broker is what FanOut promises and                *)
(* BroadcastBroker implements, in queue mode what WorkQueue promises and   *)
(* QueueBroker implements.                                                 *)
(* The processes are containers in Kubernetes pods: a producer that exits  *)
(* with an error is started again (the Job's restartPolicy is OnFailure),  *)
(* a consumer whenever it ends.  A producer (consumer) is one run of such  *)
(* a container, <<pod, n>>, with the connection it opens.                  *)
(***************************************************************************)
EXTENDS Frames, Functions, FiniteSets

CONSTANTS
  ProducerPods, ConsumerPods,
  ProducerRuns, ConsumerRuns, (* runs of each container; bound the model   *)
  Rows,        (* data rows in the CSV file                                *)
  Settings     (* the values DELIVERY_MODE may have                        *)

ASSUME PipelineAssumption == {ProducerRuns, ConsumerRuns, Rows} \subseteq Nat

Producers == ProducerPods \X (1..ProducerRuns)
Consumers == ConsumerPods \X (1..ConsumerRuns)

\* The frame of row number seq of the file, sent by the producer from.
Message == [from: Producers, seq: 1..Rows]

VARIABLES
  malformed,  (* the rows of the file that csv.Reader refuses              *)
  mode,       (* the broker's delivery mode                                *)
  offered, delivered,          (* the broker, see FanOut and WorkQueue     *)
  pending, cut,                (* see FanOut; cut in both modes            *)
  last, waiting, taken, lost,  (* see WorkQueue                            *)
  ppc,        (* where each producer is: ends in "completed" or "failed"   *)
  row,        (* how many records its csv.Reader has consumed              *)
  sent,       (* the rows it has written to its connection, in order       *)
  cpc,        (* where each consumer is: ends in "ended"                   *)
  received,   (* how many frames it has read from its connection           *)
  hand,       (* its msg variable: <<>> or one frame                       *)
  failed,     (* the frames whose insert failed, or was cut off by a kill  *)
  stored      (* the frames whose documents are in MongoDB, as they landed *)

fanOut == <<offered, pending, delivered, cut>>
workQueue == <<offered, last, waiting, taken, delivered, lost>>
broker == <<fanOut, workQueue>>
producer == <<ppc, row, sent>>
consumer == <<cpc, received, hand, failed, stored>>
environment == <<malformed, mode>>
vars == <<environment, broker, producer, consumer>>

Broadcast == INSTANCE FanOut
Queue == INSTANCE WorkQueue

ParseDeliveryMode(s) == IF s = "queue" THEN "queue" ELSE "broadcast"

Init ==
  /\ malformed \in SUBSET (1..Rows)
  /\ mode \in {ParseDeliveryMode(s) : s \in Settings}
  /\ Broadcast!Init
  /\ Queue!Init
  /\ ppc = [p \in Producers |-> "new"]
  /\ row = [p \in Producers |-> 0]
  /\ sent = [p \in Producers |-> <<>>]
  /\ cpc = [c \in Consumers |-> "new"]
  /\ received = [c \in Consumers |-> 0]
  /\ hand = [c \in Consumers |-> <<>>]
  /\ failed = [c \in Consumers |-> {}]
  /\ stored = [c \in Consumers |-> <<>>]

\* Whether the container of x may run (again): its previous run, if it had
\* one, ended in a way the restart policy reacts to.
EndedRuns(pc, x) == x[2] > 1 => pc[<<x[1], x[2] - 1>>] \in {"completed", "failed"}
OnFailure(pc, x) == x[2] > 1 => pc[<<x[1], x[2] - 1>>] = "failed"
Always(pc, x) == x[2] > 1 => pc[<<x[1], x[2] - 1>>] = "ended"

-----------------------------------------------------------------------------
(* Producer processes.                                                     *)

\* The file may be missing, or its header unreadable or empty.
NewMetricsCSVReader == {"streaming", "failed"}

\* net.Dial, the role line Start writes, the CSV file: main gives up at
\* whatever of these fails.
StartProducer(p) ==
  /\ ppc[p] = "new"
  /\ OnFailure(ppc, p)
  /\ \E next \in NewMetricsCSVReader : ppc' = [ppc EXCEPT ![p] = next]
  /\ UNCHANGED <<environment, broker, row, sent, consumer>>

\* GetNextRow: the next record, or io.EOF, or an error.
NextRow(p) == row[p] + 1
GetsRow(p) == NextRow(p) \in (1..Rows) \ malformed
GetsEOF(p) == NextRow(p) > Rows

\* One turn of the loop: transform the row, make a message, write the frame.
StreamRow(p) ==
  /\ ppc[p] = "streaming"
  /\ GetsRow(p)
  /\ row' = [row EXCEPT ![p] = NextRow(p)]
  /\ \/ /\ sent' = [sent EXCEPT ![p] = Append(@, NextRow(p))]
        /\ UNCHANGED ppc
     \/ /\ ppc' = [ppc EXCEPT ![p] = "failed"]      \* the write failed
        /\ UNCHANGED sent
  /\ UNCHANGED <<environment, broker, consumer>>

\* The reader accepts no further call and main exits with status 1.
SkipRow(p) == "streaming"
ReturnError(p) == "failed"

ReadRowError(p) ==
  /\ ppc[p] = "streaming"
  /\ ~GetsRow(p)
  /\ ~GetsEOF(p)
  /\ row' = [row EXCEPT ![p] = NextRow(p)]
  /\ ppc' = [ppc EXCEPT ![p] = ReturnError(p)]
  /\ UNCHANGED <<environment, broker, sent, consumer>>

\* The end of the file: main closes the connection and exits with status 0.
Complete(p) ==
  /\ ppc[p] = "streaming"
  /\ GetsEOF(p)
  /\ ppc' = [ppc EXCEPT ![p] = "completed"]
  /\ UNCHANGED <<environment, broker, row, sent, consumer>>

-----------------------------------------------------------------------------
(* The broker, through its connections.                                    *)

\* Frames written by a producer that has exited still reach the broker, or
\* are lost with the connection.
BrokerReads(p) ==
  /\ offered[p] < Len(sent[p])
  /\ Broadcast!Offer(p)
  /\ UNCHANGED <<environment, last, waiting, taken, lost, producer, consumer>>

\* The switch of handleProducer.
EitherMode == TRUE
Broadcasts == mode = "broadcast"

Connected(c) == cpc[c] \in {"identified", "reading", "storing"}

BrokerAccepts(p, c) ==
  /\ Broadcasts
  /\ Connected(c)
  /\ Broadcast!Accept(p, c)
  /\ UNCHANGED <<environment, workQueue, producer, consumer>>

BrokerWrites(c) ==
  /\ Broadcasts
  /\ Connected(c)
  /\ Broadcast!Deliver(c)
  /\ UNCHANGED <<environment, last, waiting, taken, lost, producer, consumer>>

\* The handler has left: after a failed write, at the end of its channel, or at
\* an empty queue.
BrokerCuts(c) ==
  /\ Connected(c)
  /\ taken[c] = <<>>
  /\ Broadcast!Cut(c)
  /\ UNCHANGED <<environment, workQueue, producer, consumer>>

Enqueue(p) ==
  /\ mode = "queue"
  /\ Queue!Accept(p)
  /\ UNCHANGED <<environment, fanOut, producer, consumer>>

\* The handler of a consumer that has ended goes on with the queue until one of
\* its writes fails.
Dequeue(c) ==
  /\ mode = "queue"
  /\ cpc[c] # "new" /\ c \notin cut
  /\ Queue!Take(c)
  /\ UNCHANGED <<environment, fanOut, producer, consumer>>

WriteDequeued(c) ==
  /\ Queue!Deliver(c)
  /\ UNCHANGED <<environment, pending, cut, producer, consumer>>

WriteFails(c) ==
  /\ Queue!Lose(c)
  /\ cut' = cut \cup {c}
  /\ UNCHANGED <<environment, pending, producer, consumer>>

-----------------------------------------------------------------------------
(* Consumer processes.                                                     *)

\* The connection ends with the process.  In queue mode the handler finds out
\* when a write fails.
Disconnect(c) ==
  IF Broadcasts /\ c \notin cut THEN Broadcast!Cut(c) ELSE UNCHANGED fanOut

\* net.Dial and the role line; main panics if either fails.
StartConsumer(c) ==
  /\ cpc[c] = "new"
  /\ Always(cpc, c)
  /\ \/ cpc' = [cpc EXCEPT ![c] = "identified"] /\ UNCHANGED fanOut
     \/ cpc' = [cpc EXCEPT ![c] = "ended"] /\ Broadcast!Cut(c)
  /\ UNCHANGED <<environment, workQueue, producer, received, hand, failed, stored>>

\* Only now does it connect to MongoDB, and panics if it cannot.
NewMongoStore(c) ==
  /\ cpc[c] = "identified"
  /\ \/ cpc' = [cpc EXCEPT ![c] = "reading"] /\ UNCHANGED fanOut
     \/ cpc' = [cpc EXCEPT ![c] = "ended"] /\ Disconnect(c)
  /\ UNCHANGED <<environment, workQueue, producer, received, hand, failed, stored>>

ReadFrame(c) ==
  /\ cpc[c] = "reading"
  /\ received[c] < Len(delivered[c])
  /\ received' = [received EXCEPT ![c] = @ + 1]
  /\ hand' = [hand EXCEPT ![c] = <<delivered[c][received[c] + 1]>>]
  /\ cpc' = [cpc EXCEPT ![c] = "storing"]
  /\ UNCHANGED <<environment, broker, producer, failed, stored>>

\* The connection is gone: main returns.
ReadError(c) ==
  /\ cpc[c] = "reading"
  /\ c \in cut
  /\ received[c] = Len(delivered[c])
  /\ cpc' = [cpc EXCEPT ![c] = "ended"]
  /\ UNCHANGED <<environment, broker, producer, received, hand, failed, stored>>

NextTurn(c) ==
  /\ hand' = [hand EXCEPT ![c] = <<>>]
  /\ cpc' = [cpc EXCEPT ![c] = "reading"]
Insert(c, m) == stored' = [stored EXCEPT ![c] = Append(@, m)]
Fail(c) == failed' = [failed EXCEPT ![c] = @ \cup Range(hand[c])]

StoreMessage(c) ==
  /\ cpc[c] = "storing"
  /\ Insert(c, Head(hand[c]))
  /\ NextTurn(c)
  /\ UNCHANGED <<environment, broker, producer, received, failed>>

TryAgain(c) == UNCHANGED <<hand, cpc>>
AfterStoreError(c) == NextTurn(c)

\* InsertOne fails, although the document may be in the collection, and the
\* consumer goes on.
StoreError(c) ==
  /\ cpc[c] = "storing"
  /\ Insert(c, Head(hand[c])) \/ UNCHANGED stored
  /\ Fail(c)
  /\ AfterStoreError(c)
  /\ UNCHANGED <<environment, broker, producer, received>>

\* The five seconds are the client's: the server may carry out, once, an insert
\* that the client has given up on, at any later time or never.
Unsettled(c) == failed[c] \ Range(stored[c])
InsertLate(c) ==
  /\ \E m \in Unsettled(c) : Insert(c, m)
  /\ UNCHANGED <<environment, broker, producer, cpc, received, hand, failed>>

-----------------------------------------------------------------------------
(* Containers are killed at any time.                                      *)

KillProducer(p) ==
  /\ ppc[p] = "streaming"
  /\ ppc' = [ppc EXCEPT ![p] = "failed"]
  /\ UNCHANGED <<environment, broker, row, sent, consumer>>

KillConsumer(c) ==
  /\ Connected(c)
  /\ cpc' = [cpc EXCEPT ![c] = "ended"]
  /\ hand' = [hand EXCEPT ![c] = <<>>]
  /\ Fail(c)
  /\ Disconnect(c)
  /\ UNCHANGED <<environment, workQueue, producer, received, stored>>

ProducerStep(p) ==
  \/ StartProducer(p) \/ StreamRow(p) \/ ReadRowError(p) \/ Complete(p) \/ KillProducer(p)

ConsumerStep(c) ==
  \/ StartConsumer(c) \/ NewMongoStore(c) \/ ReadFrame(c) \/ ReadError(c)
  \/ StoreMessage(c) \/ StoreError(c) \/ InsertLate(c) \/ KillConsumer(c)

Next ==
  \/ \E p \in Producers :
       \/ ProducerStep(p) \/ BrokerReads(p) \/ Enqueue(p)
       \/ \E c \in Consumers : BrokerAccepts(p, c)
  \/ \E c \in Consumers :
       \/ ConsumerStep(c) \/ BrokerWrites(c) \/ BrokerCuts(c)
       \/ Dequeue(c) \/ WriteDequeued(c) \/ WriteFails(c)

Spec == Init /\ [][Next]_vars

-----------------------------------------------------------------------------
(* Properties.                                                             *)

ProducersOK ==
  /\ ppc \in [Producers -> {"new", "streaming", "completed", "failed"}]
  /\ row \in [Producers -> 0..Rows]
  /\ sent \in [Producers -> Seq(1..Rows)]
  /\ \A p \in Producers : Len(sent[p]) <= row[p]

BrokerOK ==
  /\ mode \in {"broadcast", "queue"}
  /\ offered \in [Producers -> 0..Rows]
  /\ last \in [Producers -> 0..Rows]
  /\ waiting \in Seq(Message)
  /\ pending \in [Consumers -> Seq(Message)]
  /\ delivered \in [Consumers -> Seq(Message)]
  /\ taken \in [Consumers -> Seq(Message)]
  /\ \A c \in Consumers : Len(taken[c]) <= 1
  /\ cut \subseteq Consumers
  /\ lost \subseteq Message

ConsumersOK ==
  /\ cpc \in [Consumers -> {"new", "identified", "reading", "storing", "ended"}]
  /\ received \in [Consumers -> Nat]
  /\ hand \in [Consumers -> Seq(Message)]
  /\ failed \in [Consumers -> SUBSET Message]
  /\ stored \in [Consumers -> Seq(Message)]
  /\ \A c \in Consumers :
       /\ received[c] <= Len(delivered[c])
       /\ Len(hand[c]) = IF cpc[c] = "storing" THEN 1 ELSE 0
       /\ IsFiniteSet(failed[c])
       /\ Len(stored[c]) + Cardinality(Unsettled(c)) + Len(hand[c]) <= received[c]

\* Every variable keeps its type, the broker reads no frame that was not
\* written, and of the frames a consumer has read each is in its hand, in MongoDB,
\* perhaps on its way there, or lost: never in two of these places.
TypeOK ==
  /\ malformed \subseteq 1..Rows
  /\ ProducersOK /\ BrokerOK /\ ConsumersOK
  /\ \A p \in Producers : offered[p] <= Len(sent[p])

\* A pod whose container exited with status 0, and which Kubernetes therefore
\* counts as completed, has written every row of the file: a row that cannot
\* be read is never passed over (StreamCSVMetrics returns at it).
CompletedMeansWhole ==
  \A p \in Producers : ppc[p] = "completed" => sent[p] = [n \in 1..Rows |-> n]

\* However many inserts fail, and however late some of those land, none of a
\* consumer's documents lands twice, and one lands behind the document of a later
\* row only if its own insert failed (StoreMessage returned an error, or the
\* consumer was killed in it): the documents whose inserts succeeded are behind
\* no later row of their producer's run.
LateFailed(docs, failures) ==
  \A i, j \in DOMAIN docs :
    i < j /\ docs[i].from = docs[j].from =>
      \/ docs[i].seq < docs[j].seq
      \/ docs[i].seq > docs[j].seq /\ docs[j] \in failures
LateOnlyIfFailed == \A c \in Consumers : LateFailed(stored[c], failed[c])

RowOf(m) == sent[m.from][m.seq]

\* When a row is inserted twice on behalf of one pod, by one consumer in
\* broadcast mode or by whichever consumers in queue mode, the pod's earlier run
\* had failed and its container started over: competing consumers that come and
\* go never store one frame between them twice.
DuplicatesOnlyFromRestarts ==
  \A c, d \in Consumers : c = d \/ mode = "queue" =>
    \A i \in DOMAIN stored[c], j \in DOMAIN stored[d] :
      LET m == stored[c][i]
          n == stored[d][j]
      IN <<c, i>> # <<d, j>> /\ RowOf(m) = RowOf(n) /\ m.from[1] = n.from[1] =>
           /\ m.from # n.from
           /\ m.from[2] < n.from[2] => ppc[m.from] = "failed"

=============================================================================
