----------------------------- MODULE QueueBroker -----------------------------
(***************************************************************************)
(* The message-queue process in queue mode: producer handlers that Enqueue *)
(* into the one MemoryMessageQueue, consumer handlers that Dequeue from it *)
(* and forward, and the shutdown sequence of main.                         *)
(*                                                                         *)
(* MemoryMessageQueue has no lock.  Its field q.queue is read, twice per   *)
(* Enqueue or Dequeue, while Close may be writing it: a data race.  The    *)
(* channel an operation ends up using is either the one it checked against *)
(* nil, if the compiler keeps that read, or what the field holds when it   *)
(* is read again.                                                          *)
(***************************************************************************)
EXTENDS Frames, FiniteSets, Functions

CONSTANTS
  Producers,   (* producer connections                                     *)
  Consumers,   (* consumers: connections that follow one another           *)
  MaxFrames,   (* frames each producer sends; bounds the model             *)
  QueueCap     (* the size given to NewMemoryMessageQueue (10000)          *)

ASSUME QueueAssumption ==
  /\ MaxFrames \in Nat
  /\ QueueCap \in Nat \ {0}

VARIABLES
  life,      (* serving -> stopping -> closing -> closed -> exited, or a   *)
             (* panic in any goroutine, which ends the process             *)
  queue,     (* what the channel buffers                                   *)
  chclosed,  (* the channel has been closed                                *)
  qnil,      (* the field q.queue is nil                                   *)
  ppc,       (* where each producer handler is                             *)
  buf,       (* the frame last read into the handler's 64 KiB buffer       *)
  cpc,       (* where the handler of each consumer's connection is         *)
  hand,      (* that handler's msg variable: <<>> or one message           *)
  written,   (* history: the frames written to each consumer               *)
  lost,      (* history: the frames dequeued and not written               *)
  accepted   (* history: the frames Enqueue returned nil for, in order     *)

qvars == <<queue, chclosed, qnil>>
pvars == <<ppc, buf>>
cvars == <<cpc, hand, written, lost>>
vars == <<life, qvars, pvars, cvars, accepted>>

Message == [from: Producers, seq: 1..MaxFrames]

\* A slice that shares its handler's read buffer holds whatever frame that
\* buffer holds now; seq = Shared marks it.
Shared == 0
Bytes(s) == IF s.seq = Shared THEN [s EXCEPT !.seq = buf[s.from]] ELSE s

Alive == life \in {"serving", "stopping", "closing", "closed"}

Init ==
  /\ life = "serving"
  /\ queue = <<>>
  /\ chclosed = FALSE
  /\ qnil = FALSE
  /\ ppc = [p \in Producers |-> "new"]
  /\ buf = [p \in Producers |-> 0]
  /\ cpc = [c \in Consumers |-> "idle"]
  /\ hand = [c \in Consumers |-> <<>>]
  /\ written = [c \in Consumers |-> <<>>]
  /\ lost = {}
  /\ accepted = <<>>

-----------------------------------------------------------------------------
(* Connections, until HandleConn has read the role line.                   *)

AcceptProducer(p) ==
  /\ life = "serving"
  /\ ppc[p] = "new"
  /\ ppc' = [ppc EXCEPT ![p] = "role"]
  /\ UNCHANGED <<life, qvars, buf, cvars, accepted>>

\* A connection that overlaps with the handler of the client's previous one is
\* another consumer here.
AcceptConsumer(c) ==
  /\ life = "serving"
  /\ cpc[c] = "idle"
  /\ cpc' = [cpc EXCEPT ![c] = "role"]
  /\ UNCHANGED <<life, qvars, pvars, hand, written, lost, accepted>>

\* The role line may also never arrive, or be unknown: the handler returns.
HandleProducerConn(p) ==
  /\ Alive
  /\ ppc[p] = "role"
  /\ \E next \in {"read", "done"} : ppc' = [ppc EXCEPT ![p] = next]
  /\ UNCHANGED <<life, qvars, buf, cvars, accepted>>

HandleConsumerConn(c) ==
  /\ Alive
  /\ cpc[c] = "role"
  /\ \E next \in {"dequeue", "idle"} : cpc' = [cpc EXCEPT ![c] = next]
  /\ UNCHANGED <<life, qvars, pvars, hand, written, lost, accepted>>

-----------------------------------------------------------------------------
(* handleProducer and Enqueue.                                             *)

ReadFrame(p) ==
  /\ Alive
  /\ ppc[p] = "read"
  /\ buf[p] < MaxFrames
  /\ buf' = [buf EXCEPT ![p] = @ + 1]
  /\ ppc' = [ppc EXCEPT ![p] = "enqueue"]
  /\ UNCHANGED <<life, qvars, cvars, accepted>>

\* io.EOF, a connection error or an oversized frame: the handler returns.
ReadFrameError(p) ==
  /\ Alive
  /\ ppc[p] = "read"
  /\ ppc' = [ppc EXCEPT ![p] = "done"]
  /\ UNCHANGED <<life, qvars, buf, cvars, accepted>>

\* if q.queue == nil: the frame is dropped with the error "queue is closed".
EnqueueCheck(p) ==
  /\ Alive
  /\ ppc[p] = "enqueue"
  /\ ppc' = [ppc EXCEPT ![p] = IF qnil THEN "read" ELSE "send"]
  /\ UNCHANGED <<life, qvars, buf, cvars, accepted>>

\* append([]byte(nil), msg...): a slice of its own.
MsgCopyMissing(p) == [from |-> p, seq |-> Shared]
MsgCopy(p) == [from |-> p, seq |-> buf[p]]

RoomOffByOne == Len(queue) <= QueueCap
HasRoom == Len(queue) < QueueCap

\* case q.queue <- msgCopy, on the channel that was checked or, as long as
\* the field is not nil, read again.
EnqueueSend(p) ==
  /\ ~chclosed
  /\ HasRoom
  /\ queue' = Append(queue, MsgCopy(p))
  /\ accepted' = Append(accepted, [from |-> p, seq |-> buf[p]])
  /\ ppc' = [ppc EXCEPT ![p] = "read"]
  /\ UNCHANGED <<life, chclosed, qnil, buf, cvars>>

\* default: the channel is full, or the second read of q.queue found nil.
EnqueueBlocks(p) == FALSE
EnqueueFull(p) ==
  /\ qnil \/ (~chclosed /\ ~HasRoom)
  /\ ppc' = [ppc EXCEPT ![p] = "read"]
  /\ UNCHANGED <<life, qvars, buf, cvars, accepted>>

\* A send on a closed channel panics; nothing recovers it.
EnqueueClosed(p) ==
  /\ chclosed
  /\ life' = "send on closed channel"
  /\ UNCHANGED <<qvars, pvars, cvars, accepted>>

Enqueue(p) ==
  /\ Alive
  /\ ppc[p] = "send"
  /\ EnqueueSend(p) \/ EnqueueFull(p) \/ EnqueueClosed(p)

-----------------------------------------------------------------------------
(* handleConsumerQueue and Dequeue.                                        *)

\* if q.queue == nil: the error "queue is closed" ends the handler.
DequeueCheck(c) ==
  /\ Alive
  /\ cpc[c] = "dequeue"
  /\ cpc' = [cpc EXCEPT ![c] = IF qnil THEN "idle" ELSE "recv"]
  /\ UNCHANGED <<life, qvars, pvars, hand, written, lost, accepted>>

\* A receive takes the oldest message out of the channel, for one receiver.
RestPeeked == queue
RestTaken == Tail(queue)

\* case msg, ok := <-q.queue; a closed channel still yields what it buffers.
DequeueReceive(c) ==
  /\ queue # <<>>
  /\ hand' = [hand EXCEPT ![c] = <<Head(queue)>>]
  /\ queue' = RestTaken
  /\ cpc' = [cpc EXCEPT ![c] = "write"]
  /\ UNCHANGED <<life, chclosed, qnil, pvars, written, lost, accepted>>

\* The channel is empty, or closed and drained, or the second read of q.queue
\* found nil: an error in every case, and the handler returns.
DequeueError(c) ==
  /\ qnil \/ queue = <<>>
  /\ cpc' = [cpc EXCEPT ![c] = "idle"]
  /\ UNCHANGED <<life, qvars, pvars, hand, written, lost, accepted>>

Dequeue(c) ==
  /\ Alive
  /\ cpc[c] = "recv"
  /\ DequeueReceive(c) \/ DequeueError(c)

\* The frame goes out, or the write fails and the handler returns.  msg is
\* dead either way, and a frame that was not written is gone.
WriteFrame(c) ==
  /\ Alive
  /\ cpc[c] = "write"
  /\ hand' = [hand EXCEPT ![c] = <<>>]
  /\ \/ /\ written' = [written EXCEPT ![c] = Append(@, Bytes(Head(hand[c])))]
        /\ cpc' = [cpc EXCEPT ![c] = "dequeue"]
        /\ UNCHANGED lost
     \/ /\ lost' = lost \cup {Bytes(Head(hand[c]))}
        /\ cpc' = [cpc EXCEPT ![c] = "idle"]
        /\ UNCHANGED written
  /\ UNCHANGED <<life, qvars, pvars, accepted>>

-----------------------------------------------------------------------------
(* main: SIGTERM closes the listener; Broker.Close; a second later, exit.  *)

StopSignal ==
  /\ life = "serving"
  /\ life' = "stopping"
  /\ UNCHANGED <<qvars, pvars, cvars, accepted>>

\* MemoryMessageQueue.Close: close(q.queue), then q.queue = nil.
CloseChannel ==
  /\ life = "stopping"
  /\ chclosed' = TRUE
  /\ life' = "closing"
  /\ UNCHANGED <<queue, qnil, pvars, cvars, accepted>>

CloseNil ==
  /\ life = "closing"
  /\ qnil' = TRUE
  /\ life' = "closed"
  /\ UNCHANGED <<queue, chclosed, pvars, cvars, accepted>>

Exit ==
  /\ life = "closed"
  /\ life' = "exited"
  /\ UNCHANGED <<qvars, pvars, cvars, accepted>>

-----------------------------------------------------------------------------
Next ==
  \/ \E p \in Producers :
       \/ AcceptProducer(p) \/ HandleProducerConn(p)
       \/ ReadFrame(p) \/ ReadFrameError(p)
       \/ EnqueueCheck(p) \/ Enqueue(p)
  \/ \E c \in Consumers :
       \/ AcceptConsumer(c) \/ HandleConsumerConn(c)
       \/ DequeueCheck(c) \/ Dequeue(c) \/ WriteFrame(c)
  \/ StopSignal \/ CloseChannel \/ CloseNil \/ Exit

Spec == Init /\ [][Next]_vars

\* The Go scheduler runs every handler that can run; the clients of this
\* specification read what they are sent, or break the connection, and a
\* consumer that is dropped connects again and sends its role.
FairSpec ==
  /\ Spec
  /\ \A p \in Producers : WF_vars(EnqueueCheck(p) \/ Enqueue(p))
  /\ \A c \in Consumers :
       /\ WF_vars(AcceptConsumer(c))
       /\ SF_vars(HandleConsumerConn(c) /\ cpc'[c] = "dequeue")
       /\ WF_vars(DequeueCheck(c) \/ Dequeue(c) \/ WriteFrame(c))

-----------------------------------------------------------------------------
(* Properties.                                                             *)

\* Every variable has its type; the channel never buffers more than its
\* capacity, and a consumer handler holds a frame exactly while it writes it.
TypeOK ==
  /\ life \in {"serving", "stopping", "closing", "closed", "exited",
               "send on closed channel"}
  /\ queue \in Seq(Message)
  /\ Len(queue) <= QueueCap
  /\ chclosed \in BOOLEAN
  /\ qnil \in BOOLEAN
  /\ ppc \in [Producers -> {"new", "role", "read", "enqueue", "send", "done"}]
  /\ buf \in [Producers -> 0..MaxFrames]
  /\ \A p \in Producers : ppc[p] \in {"enqueue", "send"} => buf[p] > 0
  /\ cpc \in [Consumers -> {"idle", "role", "dequeue", "recv", "write"}]
  /\ hand \in [Consumers -> Seq(Message)]
  /\ \A c \in Consumers : Len(hand[c]) <= 1 /\ (cpc[c] = "write" <=> hand[c] # <<>>)
  /\ written \in [Consumers -> Seq(Message)]
  /\ lost \subseteq Message
  /\ accepted \in Seq(Message)

\* The places where frame m is.
Queued(m) == {<<"queued", i>> : i \in {j \in DOMAIN queue : Bytes(queue[j]) = m}}
Held(m) ==
  {<<"held", c>> : c \in {d \in Consumers : \E i \in DOMAIN hand[d] : Bytes(hand[d][i]) = m}}
WrittenTo(c, m) == {<<"written", c, i>> : i \in {j \in DOMAIN written[c] : written[c][j] = m}}
Lost(m) == IF m \in lost THEN {<<"lost">>} ELSE {}

Copies(m) == Queued(m) \cup Held(m) \cup Lost(m) \cup UNION {WrittenTo(c, m) : c \in Consumers}

\* Competing consumers: a frame that Enqueue accepted is in exactly one place,
\* the queue, one handler, one consumer's connection, or lost in a failed
\* write; a frame that was not accepted is nowhere.  So no frame goes to two
\* consumers, nor vanishes between Enqueue and WriteFrame, shutdown included.
OnePlaceEach ==
  \A m \in Message :
    Cardinality(Copies(m)) = IF m \in Range(accepted) THEN 1 ELSE 0

\* Each consumer is sent the frames of one producer in the order they were
\* produced, across all of its connections, although it competes for them.
ProducerOrder == \A c \in Consumers : InOrder(written[c])

\* The broker in queue mode implements the abstract work queue.
AcceptedSeqs(p) == {m.seq : m \in {n \in Range(accepted) : n.from = p}}
LastAccepted(p) ==
  CHOOSE s \in AcceptedSeqs(p) \cup {0} : \A t \in AcceptedSeqs(p) : t <= s

BytesOf(s) == [i \in DOMAIN s |-> Bytes(s[i])]
Last == [p \in Producers |-> LastAccepted(p)]
Waiting == BytesOf(queue)
InHand == [c \in Consumers |-> BytesOf(hand[c])]

Line == INSTANCE WorkQueue WITH
  offered <- buf, last <- Last, waiting <- Waiting, taken <- InHand, delivered <- written

ImplementsWorkQueue == Line!Spec

\* A queued frame is taken by some consumer as long as the broker serves and
\* one consumer keeps coming back, although every handler that finds the queue
\* empty hangs up.
QueuedEventuallyTaken ==
  \A m \in Message :
    m \in Range(queue) ~> m \notin Range(queue) \/ life # "serving"

\* A producer's handler is never held up by a full queue or absent consumers.
ProducerNeverBlocked ==
  \A p \in Producers :
    ppc[p] \in {"enqueue", "send"} ~> ppc[p] = "read" \/ ~Alive

-----------------------------------------------------------------------------
(* What a comment says and the code does not do.                           *)

\* main.go:39 and :74: shutdown is graceful and leaves the handlers time to
\* finish.  (An Enqueue that passed its nil check sends on the closed channel.)
GracefulShutdown ==
  [][chclosed => life' # "send on closed channel"]_vars

=============================================================================
