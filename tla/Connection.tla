----------------------------- MODULE Connection -----------------------------
(***************************************************************************)
(* One TCP connection between a client and Broker.HandleConn, byte by      *)
(* byte: the role line, then frames from a producer to the broker or from  *)
(* the broker to a consumer (internal/protocol/frame.go).                  *)
(*                                                                         *)
(* TCP delivers the bytes of each direction in order, in pieces of any     *)
(* size.  An end that closes still gets its bytes through; a connection    *)
(* that breaks loses any suffix of what is in flight in either direction.  *)
(***************************************************************************)
EXTENDS Integers, SequencesExt, FiniteSetsExt

CONSTANTS
  Base,                (* bytes are 0..Base-1                              *)
  HeaderLen,           (* bytes of the length prefix                       *)
  LF, CR,              (* two bytes: line feed and carriage return         *)
  PRODUCER, CONSUMER,  (* the role names, as sequences of bytes            *)
  Lines,               (* the role lines clients send                      *)
  Bodies,              (* the frames that are written                      *)
  MaxFrame,            (* maxFrameSize                                     *)
  MaxFrames            (* frames written on the connection; bounds the model *)

Byte == 0..(Base - 1)

ASSUME ConnectionAssumption ==
  /\ {Base, HeaderLen, MaxFrame, MaxFrames} \subseteq Nat
  /\ HeaderLen > 0
  /\ {LF, CR} \subseteq Byte
  /\ \A s \in {PRODUCER, CONSUMER} \cup Lines \cup Bodies : s \in Seq(Byte)
  /\ \A s \in Lines :
       /\ s # <<>>
       /\ \A i \in DOMAIN s : s[i] = LF <=> i = Len(s)

Ends == {"client", "handler"}
Peer(e) == CHOOSE f \in Ends : f # e

VARIABLES
  line,      (* the role line this client sends                            *)
  pc,        (* where each end is                                          *)
  flight,    (* the bytes each end has sent that the other has not read    *)
  broken,    (* whether the connection has broken                          *)
  buffered,  (* what is in the handler's bufio.Reader                      *)
  begun,     (* the frames WriteFrame was called with, in order            *)
  wrote,     (* how many of these calls have returned nil                  *)
  upto,      (* history: the bytes of the role line, of it and the first   *)
             (* frame, of it and the first two, ...                        *)
  partial,   (* the bytes of a frame ReadFrame has collected so far        *)
  got        (* the frames ReadFrame has returned, in order                *)

sending == <<begun, wrote, upto>>
receiving == <<buffered, partial, got>>
vars == <<line, pc, flight, broken, sending, receiving>>

\* trimLine.
TrimLine(s) == SubSeq(s, 1, SelectLastInSeq(s, LAMBDA b : b \notin {LF, CR}))

\* Consumers are written to, everybody else writes.
Writer == IF TrimLine(line) = CONSUMER THEN "handler" ELSE "client"
Reader == Peer(Writer)

Init ==
  /\ line \in Lines
  /\ pc = [client |-> "dialed", handler |-> "role"]
  /\ flight = [e \in Ends |-> <<>>]
  /\ broken = FALSE
  /\ begun = <<>> /\ wrote = 0 /\ upto = <<line>>
  /\ buffered = <<>> /\ partial = <<>> /\ got = <<>>

-----------------------------------------------------------------------------
(* TCP.                                                                    *)

Left(e) == pc[e] \in {"closed", "killed"}

\* Nothing that e sends gets through any more.
Gone(e) == broken \/ Left(Peer(e))

Put(e, bytes) ==
  flight' = IF Gone(e) THEN flight ELSE [flight EXCEPT ![e] = @ \o bytes]

\* e has read all it will ever be sent.
AtEnd(e) == Gone(e) /\ flight[Peer(e)] = <<>>

\* conn.Close, or the end of the process: what e has not read is dropped.
Leave(e, how) ==
  /\ pc' = [pc EXCEPT ![e] = how]
  /\ flight' = [flight EXCEPT ![Peer(e)] = <<>>]

Break ==
  /\ ~broken
  /\ broken' = TRUE
  /\ \E up \in Prefixes(flight["client"]), down \in Prefixes(flight["handler"]) :
       flight' = [client |-> up, handler |-> down]
  /\ UNCHANGED <<line, pc, sending, receiving>>

-----------------------------------------------------------------------------
(* Writing.                                                                *)

\* The client identifies itself in one Write, and does not wait for an answer.
Identify ==
  /\ pc["client"] = "dialed"
  /\ pc' = [pc EXCEPT !["client"] = "open"]
  /\ Put("client", line)
  /\ UNCHANGED <<line, broken, sending, receiving>>

\* encoding/binary: n without its last k bytes; byte by byte; and back.
Shifted(n) ==
  LET rest[k \in 0..HeaderLen] == IF k = 0 THEN n ELSE rest[k - 1] \div Base IN rest
BigEndian(n) == [i \in 1..HeaderLen |-> Shifted(n)[HeaderLen - i] % Base]
Uint(h) ==
  LET n[k \in 0..Len(h)] == IF k = 0 THEN 0 ELSE n[k - 1] * Base + h[k] IN n[Len(h)]

\* The length of a frame fits the header.
ASSUME HeaderAssumption == \A b \in Bodies : Shifted(Len(b))[HeaderLen] = 0

Encoded(b) == BigEndian(Len(b)) \o b

\* The two Writes of WriteFrame.
WriteHeader(e, b) ==
  /\ pc[e] = "open" /\ e = Writer
  /\ wrote = Len(begun) /\ wrote < MaxFrames
  /\ begun' = Append(begun, b)
  /\ upto' = Append(upto, Last(upto) \o Encoded(b))
  /\ Put(e, BigEndian(Len(b)))
  /\ UNCHANGED <<line, pc, broken, wrote, receiving>>

WriteBody(e) ==
  /\ pc[e] = "open" /\ e = Writer
  /\ wrote < Len(begun)
  /\ wrote' = wrote + 1
  /\ Put(e, Last(begun))
  /\ UNCHANGED <<line, pc, broken, begun, upto, receiving>>

\* A Write may fail once the other end has gone: main exits or panics, the
\* handler returns.
WriteError(e) ==
  /\ \/ pc[e] = "open" /\ e = Writer
     \/ pc[e] = "dialed"
  /\ Gone(e)
  /\ Leave(e, "closed")
  /\ UNCHANGED <<line, broken, sending, receiving>>

\* The end of the CSV file; the end of the consumer's channel, or an empty queue.
Finish(e) ==
  /\ pc[e] = "open" /\ e = Writer
  /\ wrote = Len(begun)
  /\ Leave(e, "closed")
  /\ UNCHANGED <<line, broken, sending, receiving>>

\* The process ends at any time, in the middle of a Write as well.
Unwritten(e) ==
  IF pc[e] = "dialed" THEN line
  ELSE IF e = Writer /\ wrote < Len(begun) THEN Last(begun) ELSE <<>>

Kill(e) ==
  /\ ~Left(e)
  /\ pc' = [pc EXCEPT ![e] = "killed"]
  /\ \E bytes \in Prefixes(Unwritten(e)) :
       flight' = [flight EXCEPT ![e] = IF Gone(e) THEN @ ELSE @ \o bytes,
                                ![Peer(e)] = <<>>]
  /\ UNCHANGED <<line, broken, sending, receiving>>

-----------------------------------------------------------------------------
(* Reading.                                                                *)

\* What ReadFrame knows of the frame it is reading.
HasHeader == Len(partial) >= HeaderLen
Size == Uint(SubSeq(partial, 1, HeaderLen))
AtLimit == HasHeader /\ Size >= MaxFrame
TooLarge == HasHeader /\ Size > MaxFrame

\* How many bytes io.ReadFull is still waiting for: of the header at first,
\* of the body once the header says how long it is.
Missing == HeaderLen + (IF HasHeader THEN Size ELSE 0) - Len(partial)
ReadsOnce == HasHeader /\ (Missing = 0 \/ Len(partial) > HeaderLen)
Complete == HasHeader /\ Missing = 0
Wants(e) == pc[e] = "open" /\ e = Reader /\ ~TooLarge

\* bufio reads from the connection when it has nothing that helps: no complete
\* line at first, nothing at all later.
Fill ==
  /\ \/ pc["handler"] = "role" /\ ~Contains(buffered, LF)
     \/ Wants("handler") /\ buffered = <<>> /\ Missing > 0
  /\ \E k \in 1..Len(flight["client"]) :
       /\ buffered' = buffered \o SubSeq(flight["client"], 1, k)
       /\ flight' = [flight EXCEPT !["client"] = SubSeq(@, k + 1, Len(@))]
  /\ UNCHANGED <<line, pc, broken, sending, partial, got>>

\* HandleConn: the role line, and what follows it stays in the same reader
\* for the frames.
NewReader(rest) == <<>>
NewBufferedFrameReader(rest) == rest

ReadRole ==
  /\ pc["handler"] = "role"
  /\ \E end \in DOMAIN buffered :
       LET role == TrimLine(SubSeq(buffered, 1, end)) IN
       /\ buffered[end] = LF
       /\ \A i \in 1..(end - 1) : buffered[i] # LF
       /\ buffered' = NewBufferedFrameReader(SubSeq(buffered, end + 1, Len(buffered)))
       /\ IF role \in {PRODUCER, CONSUMER}
          THEN pc' = [pc EXCEPT !["handler"] = "open"] /\ UNCHANGED flight
          ELSE Leave("handler", "closed")
  /\ UNCHANGED <<line, broken, sending, partial, got>>

RoleError ==
  /\ pc["handler"] = "role"
  /\ ~Contains(buffered, LF)
  /\ AtEnd("handler")
  /\ Leave("handler", "closed")
  /\ UNCHANGED <<line, broken, sending, receiving>>

\* One Read of io.ReadFull: the handler's from the bufio.Reader, which gives
\* what it has; the consumer's straight from the connection.
AllBuffered == Len(buffered)
BufferedRead == Min({Missing, Len(buffered)})

HandlerTakes ==
  LET n == BufferedRead IN
  /\ Wants("handler") /\ n > 0
  /\ partial' = partial \o SubSeq(buffered, 1, n)
  /\ buffered' = SubSeq(buffered, n + 1, Len(buffered))
  /\ UNCHANGED <<line, pc, flight, broken, sending, got>>

ClientTakes ==
  LET bytes == flight["handler"] IN
  /\ Wants("client")
  /\ \E n \in 1..Min({Missing, Len(bytes)}) :
       /\ partial' = partial \o SubSeq(bytes, 1, n)
       /\ flight' = [flight EXCEPT !["handler"] = SubSeq(bytes, n + 1, Len(bytes))]
  /\ UNCHANGED <<line, pc, broken, sending, buffered, got>>

\* ReadFrame returns a frame, or the error that ends its reader.
ReadFrame(e) ==
  /\ Wants(e)
  /\ Complete
  /\ got' = Append(got, SubSeq(partial, HeaderLen + 1, Len(partial)))
  /\ partial' = <<>>
  /\ UNCHANGED <<line, pc, flight, broken, sending, buffered>>

ReadTooLarge(e) ==
  /\ pc[e] = "open" /\ e = Reader
  /\ TooLarge
  /\ Leave(e, "closed")
  /\ UNCHANGED <<line, broken, sending, receiving>>

ReadError(e) ==
  /\ Wants(e)
  /\ Missing > 0
  /\ e = "handler" => buffered = <<>>
  /\ AtEnd(e)
  /\ Leave(e, "closed")
  /\ UNCHANGED <<line, broken, sending, receiving>>

ReadStep ==
  \/ Fill \/ ReadRole \/ HandlerTakes \/ ClientTakes
  \/ \E e \in Ends : ReadFrame(e)

Next ==
  \/ Break \/ Identify \/ RoleError \/ ReadStep
  \/ \E e \in Ends :
       \/ WriteBody(e) \/ WriteError(e) \/ Finish(e) \/ Kill(e)
       \/ ReadTooLarge(e) \/ ReadError(e)
       \/ \E b \in Bodies : WriteHeader(e, b)

Spec == Init /\ [][Next]_vars

\* A reader that can go on does: nothing but input holds up its goroutine.
FairSpec == Spec /\ WF_vars(ReadStep)

-----------------------------------------------------------------------------
(* Properties.                                                             *)

\* Every variable keeps its type; at most one frame is being written, and
\* ReadFrame never collects more than the frame it is reading.
Typed ==
  /\ line \in Lines
  /\ pc \in [Ends -> {"dialed", "role", "open", "closed", "killed"}]
  /\ pc["client"] # "role" /\ pc["handler"] # "dialed"
  /\ flight \in [Ends -> Seq(Byte)]
  /\ broken \in BOOLEAN
  /\ begun \in Seq(Bodies) /\ wrote \in Nat /\ Len(begun) \in wrote..(wrote + 1)
  /\ upto \in Seq(Seq(Byte))
  /\ buffered \in Seq(Byte) /\ partial \in Seq(Byte)
  /\ got \in Seq(Bodies)

TypeOK == Typed /\ (HasHeader /\ ~TooLarge => Missing >= 0)

\* Whatever the segments, cuts and line endings, the connection is a
\* FrameStream: ReadFrame returns whole frames, the ones WriteFrame was called
\* with, in order, none of them larger than maxFrameSize.
Stream == INSTANCE FrameStream WITH over <- Left(Reader)
ImplementsFrameStream == Stream!Spec

KnownRole == TrimLine(line) \in {PRODUCER, CONSUMER}

\* A reader that ends by itself over a connection that did not break has
\* returned every frame whose WriteFrame returned nil, unless it ended at a
\* frame over maxFrameSize: none stays behind in the bufio.Reader.
NothingLeftBehind ==
  pc[Reader] = "closed" /\ ~broken /\ KnownRole =>
    \/ Len(got) >= wrote
    \/ Len(begun[Len(got) + 1]) > MaxFrame

\* A frame whose WriteFrame returned nil is returned by the other end's
\* ReadFrame sooner or later, if neither it nor one before it is over
\* maxFrameSize, the connection does not break and the reading process lives.
FrameArrives ==
  \A n \in 1..MaxFrames :
    (/\ KnownRole /\ wrote >= n
     /\ \A i \in 1..n : Len(begun[i]) <= MaxFrame)
      ~> (Len(got) >= n \/ broken \/ pc[Reader] = "killed")

=============================================================================
