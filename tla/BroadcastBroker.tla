--------------------------- MODULE BroadcastBroker ---------------------------
(***************************************************************************)
(* The message-queue process (internal/broker, cmd/message_queue) running  *)
(* in broadcast mode: the accept loop, one handler goroutine per           *)
(* connection, the registry of consumer channels, and the shutdown         *)
(* sequence of main.                                                       *)
(*                                                                         *)
(* A member of Producers (Consumers) is one TCP connection whose first     *)
(* line is "PRODUCER" ("CONSUMER"), together with the HandleConn goroutine *)
(* that serves it.  A client that reconnects is another member.            *)
(*                                                                         *)
(* One action is one stretch of code no other goroutine can observe the    *)
(* middle of: a critical section of BroadcastRegistry.mu, one channel      *)
(* operation, one call that reads from or writes to a connection.          *)
(* BroadcastMessage is two kinds of step, because it releases the lock     *)
(* before it sends.                                                        *)
(***************************************************************************)
EXTENDS Frames, FiniteSets, Functions

CONSTANTS
  Producers,   (* producer connections                                     *)
  Consumers,   (* consumer connections                                     *)
  Readers,     (* the consumer connections whose peer keeps reading        *)
  MaxFrames,   (* frames each producer sends; bounds the model             *)
  ChanCap      (* CONSUMER_CHANNEL_BUFFER_SIZE                             *)

ASSUME BroadcastAssumption ==
  /\ Readers \subseteq Consumers
  /\ MaxFrames \in Nat
  /\ ChanCap \in Nat \ {0}

VARIABLES
  life,      (* the process: serving -> stopping -> closed -> exited, or a *)
             (* panic in any goroutine, which ends the process             *)
  registry,  (* BroadcastRegistry.consumers: the registered channels       *)
  ppc,       (* where each producer handler is                             *)
  buf,       (* the frame last read into the handler's 64 KiB buffer       *)
  todo,      (* the rest of the snapshot BroadcastMessage iterates over    *)
  cpc,       (* where each consumer handler is                             *)
  chan,      (* buffered contents of each consumer's channel               *)
  closed,    (* the channels that have been closed                         *)
  hand,      (* the handler's msg variable: <<>> or one message            *)
  broken,    (* the connections on which WriteFrame has failed             *)
  written,   (* history: the frames written to each consumer connection    *)
  audience,  (* history: the snapshot taken for each frame                 *)
  overflow   (* history: <<c, m>> when m found c's channel full            *)

pvars == <<ppc, buf, todo>>
cvars == <<cpc, hand, broken, written>>
history == <<audience, overflow>>
vars == <<life, registry, pvars, cvars, chan, closed, history>>

Message == [from: Producers, seq: 1..MaxFrames]

\* The bytes of a slice are those of the frame it was cut from, unless it
\* still shares the read buffer of the handler: then they are whatever frame
\* that buffer holds now.  seq = Shared marks such a slice.
Shared == 0
Bytes(s) == IF s.seq = Shared THEN [s EXCEPT !.seq = buf[s.from]] ELSE s

Alive == life \in {"serving", "stopping", "closed"}

Init ==
  /\ life = "serving"
  /\ registry = {}
  /\ ppc = [p \in Producers |-> "new"]
  /\ buf = [p \in Producers |-> 0]
  /\ todo = [p \in Producers |-> {}]
  /\ cpc = [c \in Consumers |-> "new"]
  /\ chan = [c \in Consumers |-> <<>>]
  /\ closed = {}
  /\ hand = [c \in Consumers |-> <<>>]
  /\ broken = {}
  /\ written = [c \in Consumers |-> <<>>]
  /\ audience = [p \in Producers |-> [n \in 1..MaxFrames |-> {}]]
  /\ overflow = {}

-----------------------------------------------------------------------------
(* Connections: the accept loop, and the role line HandleConn reads.       *)

AcceptProducer(p) ==
  /\ life = "serving"
  /\ ppc[p] = "new"
  /\ ppc' = [ppc EXCEPT ![p] = "role"]
  /\ UNCHANGED <<life, registry, buf, todo, cvars, chan, closed, history>>

AcceptConsumer(c) ==
  /\ life = "serving"
  /\ cpc[c] = "new"
  /\ cpc' = [cpc EXCEPT ![c] = "role"]
  /\ UNCHANGED <<life, registry, pvars, hand, broken, written, chan, closed,
                 history>>

\* The role line may also never arrive, or be unknown: the handler returns.
HandleProducerConn(p) ==
  /\ Alive
  /\ ppc[p] = "role"
  /\ \E next \in {"read", "done"} : ppc' = [ppc EXCEPT ![p] = next]
  /\ UNCHANGED <<life, registry, buf, todo, cvars, chan, closed, history>>

HandleConsumerConn(c) ==
  /\ Alive
  /\ cpc[c] = "role"
  /\ \E next \in {"register", "done"} : cpc' = [cpc EXCEPT ![c] = next]
  /\ UNCHANGED <<life, registry, pvars, hand, broken, written, chan, closed,
                 history>>

-----------------------------------------------------------------------------
(* handleProducer: read a frame, broadcast it, and again.                  *)

\* ReadFrame fills the one buffer of this handler with the next frame.
ReadFrame(p) ==
  /\ Alive
  /\ ppc[p] = "read"
  /\ buf[p] < MaxFrames
  /\ buf' = [buf EXCEPT ![p] = @ + 1]
  /\ ppc' = [ppc EXCEPT ![p] = "broadcast"]
  /\ UNCHANGED <<life, registry, todo, cvars, chan, closed, history>>

\* io.EOF, a connection error or an oversized frame: the handler returns.
ReadFrameError(p) ==
  /\ Alive
  /\ ppc[p] = "read"
  /\ ppc' = [ppc EXCEPT ![p] = "done"]
  /\ UNCHANGED <<life, registry, buf, todo, cvars, chan, closed, history>>

\* BroadcastMessage under RLock: copy the registered channels, then unlock.
BroadcastSnapshot(p) ==
  /\ Alive
  /\ ppc[p] = "broadcast"
  /\ todo' = [todo EXCEPT ![p] = registry]
  /\ audience' = [audience EXCEPT ![p][buf[p]] = registry]
  /\ ppc' = [ppc EXCEPT ![p] = IF registry = {} THEN "read" ELSE "send"]
  /\ UNCHANGED <<life, registry, buf, cvars, chan, closed, overflow>>

\* append([]byte(nil), msg...): a slice of its own.
MsgCopyMissing(p) == [from |-> p, seq |-> Shared]
MsgCopy(p) == [from |-> p, seq |-> buf[p]]

\* The channels still to be served once c has been (range order is random).
RestAfterReturn(p, c) == {}
RestOf(p, c) == todo[p] \ {c}

RoomOffByOne(c) == Len(chan[c]) <= ChanCap
HasRoom(c) == Len(chan[c]) < ChanCap

\* case ch <- msgCopy
SendOK(p, c) ==
  /\ c \notin closed
  /\ HasRoom(c)
  /\ chan' = [chan EXCEPT ![c] = Append(@, MsgCopy(p))]
  /\ todo' = [todo EXCEPT ![p] = RestOf(p, c)]
  /\ ppc' = [ppc EXCEPT ![p] = IF RestOf(p, c) = {} THEN "read" ELSE "send"]
  /\ UNCHANGED <<life, registry, buf, cvars, closed, history>>

\* default: the message is dropped and BroadcastMessage returns an error, so
\* the channels after c in the snapshot are not tried.
SendBlocks(p, c) == FALSE
SendFull(p, c) ==
  /\ c \notin closed
  /\ ~HasRoom(c)
  /\ overflow' = overflow \cup {<<c, [from |-> p, seq |-> buf[p]]>>}
  /\ todo' = [todo EXCEPT ![p] = {}]
  /\ ppc' = [ppc EXCEPT ![p] = "read"]
  /\ UNCHANGED <<life, registry, buf, cvars, chan, closed, audience>>

\* A send on a closed channel panics, full or not; nothing recovers it.
SendClosed(p, c) ==
  /\ c \in closed
  /\ life' = "send on closed channel"
  /\ UNCHANGED <<registry, pvars, cvars, chan, closed, history>>

BroadcastSend(p) ==
  /\ Alive
  /\ ppc[p] = "send"
  /\ \E c \in todo[p] : SendOK(p, c) \/ SendFull(p, c) \/ SendClosed(p, c)

-----------------------------------------------------------------------------
(* handleConsumerBroadcast: register, forward until the channel ends or a  *)
(* write fails, unregister.                                                *)

RegisterConsumer(c) ==
  /\ Alive
  /\ cpc[c] = "register"
  /\ registry' = registry \cup {c}
  /\ cpc' = [cpc EXCEPT ![c] = "recv"]
  /\ UNCHANGED <<life, pvars, hand, broken, written, chan, closed, history>>

\* for msg := range ch, with a message buffered
RangeMsg(c) ==
  /\ Alive
  /\ cpc[c] = "recv"
  /\ chan[c] # <<>>
  /\ hand' = [hand EXCEPT ![c] = <<Head(chan[c])>>]
  /\ chan' = [chan EXCEPT ![c] = Tail(@)]
  /\ cpc' = [cpc EXCEPT ![c] = "write"]
  /\ UNCHANGED <<life, registry, pvars, broken, written, closed, history>>

\* for msg := range ch: the loop ends once the channel is closed and drained
LoopEndsUndrained(c) == c \in closed
LoopNeverEnds(c) == FALSE
LoopEnds(c) == c \in closed /\ chan[c] = <<>>

RangeEnd(c) ==
  /\ Alive
  /\ cpc[c] = "recv"
  /\ LoopEnds(c)
  /\ cpc' = [cpc EXCEPT ![c] = "unregister"]
  /\ UNCHANGED <<life, registry, pvars, hand, broken, written, chan, closed,
                 history>>

WriteFrame(c) ==
  /\ Alive
  /\ cpc[c] = "write"
  /\ \/ /\ written' = [written EXCEPT ![c] = Append(@, Bytes(Head(hand[c])))]
        /\ hand' = [hand EXCEPT ![c] = <<>>]
        /\ cpc' = [cpc EXCEPT ![c] = "recv"]
        /\ UNCHANGED broken
     \/ /\ broken' = broken \cup {c}
        /\ cpc' = [cpc EXCEPT ![c] = "unregister"]
        /\ UNCHANGED <<hand, written>>
  /\ UNCHANGED <<life, registry, pvars, chan, closed, history>>

\* The deferred UnregisterConsumer, then the deferred conn.Close.
UnregisterConsumer(c) ==
  /\ Alive
  /\ cpc[c] = "unregister"
  /\ IF c \in registry
     THEN /\ life' = IF c \in closed THEN "close of closed channel" ELSE life
          /\ closed' = closed \cup {c}
          /\ registry' = registry \ {c}
     ELSE UNCHANGED <<life, closed, registry>>
  /\ cpc' = [cpc EXCEPT ![c] = "done"]
  /\ UNCHANGED <<pvars, hand, broken, written, chan, history>>

-----------------------------------------------------------------------------
(* main: SIGTERM closes the listener; Broker.Close; a second later, exit.  *)

StopSignal ==
  /\ life = "serving"
  /\ life' = "stopping"
  /\ UNCHANGED <<registry, pvars, cvars, chan, closed, history>>

RegistryKept == registry
RegistryCleared == {}

\* BroadcastRegistry.Close, one critical section.
CloseBroker ==
  /\ life = "stopping"
  /\ life' = IF registry \cap closed # {} THEN "close of closed channel"
                                         ELSE "closed"
  /\ closed' = closed \cup registry
  /\ registry' = RegistryCleared
  /\ UNCHANGED <<pvars, cvars, chan, history>>

Exit ==
  /\ life = "closed"
  /\ life' = "exited"
  /\ UNCHANGED <<registry, pvars, cvars, chan, closed, history>>

-----------------------------------------------------------------------------
Next ==
  \/ \E p \in Producers :
       \/ AcceptProducer(p) \/ HandleProducerConn(p)
       \/ ReadFrame(p) \/ ReadFrameError(p)
       \/ BroadcastSnapshot(p) \/ BroadcastSend(p)
  \/ \E c \in Consumers :
       \/ AcceptConsumer(c) \/ HandleConsumerConn(c)
       \/ RegisterConsumer(c) \/ RangeMsg(c) \/ RangeEnd(c)
       \/ WriteFrame(c) \/ UnregisterConsumer(c)
  \/ StopSignal \/ CloseBroker \/ Exit

Spec == Init /\ [][Next]_vars

\* The Go scheduler runs every goroutine that can run.  A WriteFrame returns
\* if the peer is one that reads: it goes out, or the connection breaks.  The
\* other peers may stop reading for ever, and any peer may stop sending.
HandlerFairness ==
  /\ \A p \in Producers : WF_vars(BroadcastSnapshot(p) \/ BroadcastSend(p))
  /\ \A c \in Consumers : WF_vars(RegisterConsumer(c) \/ RangeMsg(c)
                                  \/ RangeEnd(c) \/ UnregisterConsumer(c))
  /\ \A c \in Readers : WF_vars(WriteFrame(c))

FairSpec == Spec /\ HandlerFairness

-----------------------------------------------------------------------------
(* Properties.                                                             *)

States(S) == {"new", "role", "done"} \cup S

\* Every variable has its type, and in particular no channel ever holds more
\* than the capacity it was made with (handleConsumerBroadcast's make).
TypeOK ==
  /\ life \in {"serving", "stopping", "closed", "exited",
               "send on closed channel", "close of closed channel"}
  /\ registry \subseteq Consumers
  /\ ppc \in [Producers -> States({"read", "broadcast", "send"})]
  /\ buf \in [Producers -> 0..MaxFrames]
  /\ \A p \in Producers : ppc[p] \in {"broadcast", "send"} => buf[p] > 0
  /\ todo \in [Producers -> SUBSET Consumers]
  /\ cpc \in [Consumers -> States({"register", "recv", "write", "unregister"})]
  /\ chan \in [Consumers -> Seq(Message)]
  /\ \A c \in Consumers : Len(chan[c]) <= ChanCap
  /\ closed \subseteq Consumers
  /\ hand \in [Consumers -> Seq(Message)]
  /\ \A c \in Consumers : Len(hand[c]) <= 1
  /\ \A c \in Consumers : cpc[c] = "write" => hand[c] # <<>>
  /\ broken \subseteq Consumers
  /\ written \in [Consumers -> Seq(Message)]
  /\ audience \in [Producers -> [1..MaxFrames -> SUBSET Consumers]]
  /\ overflow \subseteq Consumers \X Message

\* Each consumer connection carries the frames of one producer in the order
\* the producer sent them and none of them twice, whatever the interleaving of
\* the producer's reads into its reused buffer, its sends to the channel, the
\* other producers and the consumer's own goroutine.
ProducerOrder == \A c \in Consumers : InOrder(written[c])

\* UnregisterConsumer and BroadcastRegistry.Close may both want to close a
\* channel, from two goroutines; "close(ch); delete" under one lock means
\* that neither ever closes it a second time, which would end the process.
NoDoubleClose == life # "close of closed channel"

\* Where the broker still holds frame m for consumer c, or has written it.
Holds(c, m) == m \in Range(chan[c]) \cup Range(hand[c]) \cup Range(written[c])

\* BroadcastMessage(frame n of p) has been called and has returned.
Returned(p, n) ==
  n < buf[p] \/ (n = buf[p] /\ ppc[p] \notin {"broadcast", "send"})

\* A frame whose broadcast has returned is in the channel of every consumer
\* the snapshot named, or on its way out of it: the broadcast loses a frame
\* for a registered consumer only by finding some channel of that same
\* snapshot full.
LossOnlyByOverflow ==
  \A p \in Producers, n \in 1..MaxFrames :
    LET m == [from |-> p, seq |-> n] IN
    Returned(p, n) =>
      \/ \A c \in audience[p][n] : Holds(c, m)
      \/ \E d \in audience[p][n] : <<d, m>> \in overflow

\* Closing a channel does not discard what it holds: a consumer handler whose
\* connection never failed leaves only after it has written everything that
\* was buffered for it, however the closing of the broker interleaves with it.
DrainBeforeLeave ==
  \A c \in Consumers \ broken :
    cpc[c] = "done" => chan[c] = <<>> /\ hand[c] = <<>>

\* A producer's handler is never held up by its consumers: whatever they do,
\* stop reading included, every BroadcastMessage returns and the handler goes
\* back to its connection, unless the process ends.
ProducerNeverBlocked ==
  \A p \in Producers :
    ppc[p] \in {"broadcast", "send"} ~> ppc[p] = "read" \/ ~Alive

\* A frame in the channel of a consumer that reads is written to its
\* connection, unless that connection breaks or the process ends; consumers
\* that do not read change nothing about it.
BufferedEventuallyWritten ==
  \A c \in Readers, m \in Message :
    m \in Range(chan[c]) ~> m \in Range(written[c]) \/ c \in broken \/ ~Alive

\* The handler of a channel that Close has closed finishes by itself, if its
\* consumer reads.
ClosedConsumerLeaves ==
  \A c \in Readers : c \in closed ~> cpc[c] = "done" \/ ~Alive

\* The broker in broadcast mode implements the abstract fan-out: a consumer's
\* stream is cut when its connection breaks or its handler has left, and until
\* then the frames pending on it are the one its handler holds and then those
\* of its channel.
Cut == broken \cup {c \in Consumers : cpc[c] = "done"}
Held(c) == hand[c] \o chan[c]
Pending == [c \in Consumers |->
              IF c \in Cut THEN <<>>
              ELSE [i \in DOMAIN Held(c) |-> Bytes(Held(c)[i])]]
Stream == INSTANCE FanOut WITH
  offered <- buf,
  pending <- Pending,
  delivered <- written,
  cut <- Cut

ImplementsFanOut == Stream!Spec

-----------------------------------------------------------------------------
(* What the documents and comments say and the code does not do.           *)

\* README.md:67: each registered consumer receives every message, except one
\* whose own channel is full.  (BroadcastMessage stops at the first full one.)
NoCollateralLoss ==
  \A p \in Producers, n \in 1..MaxFrames :
    LET m == [from |-> p, seq |-> n] IN
    Returned(p, n) =>
      \A c \in audience[p][n] : Holds(c, m) \/ <<c, m>> \in overflow

\* interfaces.go:67: BroadcastMessage sends to the registered consumers, so a
\* consumer that leaves while the broker serves does not end it.  (The snapshot
\* may name a channel that has been unregistered, and closed, since.)
SendsToRegistered == [][life = "serving" => life' # "send on closed channel"]_vars

=============================================================================
