----------------------------- MODULE QueueProofs -----------------------------
(***************************************************************************)
(* Theorems about QueueBroker, for any sets of producers and consumers,    *)
(* any number of frames and any capacity of the queue.                     *)
(***************************************************************************)
EXTENDS QueueBroker, FrameLemmas, FiniteSetTheorems, TLAPS

-----------------------------------------------------------------------------
(* Why the safety properties hold: an inductive invariant, part by part.   *)

\* The accepted frames are among those their producers' handlers have read,
\* and none is the one a handler is about to Enqueue.
NotAhead ==
  \A m \in Range(accepted) :
    /\ m.seq <= buf[m.from]
    /\ ppc[m.from] \in {"enqueue", "send"} => m.seq < buf[m.from]

\* What was written to a consumer, what its handler holds and what the channel
\* buffers is one ordered stream, for each of the consumers.
LineOrder ==
  /\ InOrder(queue)
  /\ \A c \in Consumers :
       /\ InOrder(written[c])
       /\ Before(written[c], hand[c])
       /\ Before(written[c], queue)
       /\ Before(hand[c], queue)

\* What a consumer's handlers have taken.
Taken(c) == Range(hand[c]) \cup Range(written[c])

\* The queue, the frames that were lost and what each consumer has taken are
\* disjoint, and together they are what was accepted.
Places ==
  /\ Range(queue) \cap lost = {}
  /\ \A c \in Consumers : Taken(c) \cap (Range(queue) \cup lost) = {}
  /\ \A c, d \in Consumers : c # d => Taken(c) \cap Taken(d) = {}
  /\ Range(queue) \cup lost \subseteq Range(accepted)
  /\ \A c \in Consumers : Taken(c) \subseteq Range(accepted)
  /\ \A m \in Range(accepted) :
       m \in Range(queue) \cup lost \/ \E c \in Consumers : m \in Taken(c)

\* LastAccepted(p) is what its definition means it to be.
LastIsGreatest ==
  \A p \in Producers :
    /\ LastAccepted(p) \in AcceptedSeqs(p) \cup {0}
    /\ \A s \in AcceptedSeqs(p) : s <= LastAccepted(p)

IInv == TypeOK /\ NotAhead /\ LineOrder /\ Places /\ LastIsGreatest

-----------------------------------------------------------------------------
\* A queued frame is a copy: its bytes do not follow the read buffer.
LEMMA BytesOfCopy ==
  ASSUME NEW m \in Message PROVE Bytes(m) = m /\ Bytes(m)' = m
  BY DEF Message, Bytes, Shared

-----------------------------------------------------------------------------
(* Type correctness.                                                       *)

\* The initial state has every variable in its type.
LEMMA TypeInit == Init => TypeOK
<1> SUFFICES ASSUME Init PROVE TypeOK
  OBVIOUS
<1>1. <<>> \in Seq(Message) /\ Len(<<>>) = 0
  OBVIOUS
<1>2. /\ queue \in Seq(Message) /\ Len(queue) <= QueueCap
      /\ accepted \in Seq(Message)
      /\ lost \subseteq Message
  BY <1>1, QueueAssumption DEF Init
<1>3. /\ hand \in [Consumers -> Seq(Message)]
      /\ written \in [Consumers -> Seq(Message)]
      /\ \A c \in Consumers : Len(hand[c]) <= 1 /\ hand[c] = <<>> /\ cpc[c] = "idle"
  BY <1>1 DEF Init
<1>4. /\ buf \in [Producers -> 0..MaxFrames]
      /\ \A p \in Producers : ppc[p] = "new"
  BY QueueAssumption DEF Init
<1> QED BY <1>2, <1>3, <1>4 DEF Init, TypeOK

\* The message variable of a handler that holds frame m.
LEMMA HoldOne ==
  ASSUME TypeOK, NEW c \in Consumers, NEW m \in Message,
         hand' = [hand EXCEPT ![c] = <<m>>],
         cpc' = [cpc EXCEPT ![c] = "write"]
  PROVE  /\ cpc' \in [Consumers -> {"idle", "role", "dequeue", "recv", "write"}]
         /\ hand' \in [Consumers -> Seq(Message)]
         /\ \A d \in Consumers :
              Len(hand'[d]) <= 1 /\ (cpc'[d] = "write" <=> hand'[d] # <<>>)
<1>1. <<m>> \in Seq(Message) /\ Len(<<m>>) <= 1 /\ <<m>> # <<>>
  OBVIOUS
<1>2. /\ cpc \in [Consumers -> {"idle", "role", "dequeue", "recv", "write"}]
      /\ hand \in [Consumers -> Seq(Message)]
      /\ \A d \in Consumers : Len(hand[d]) <= 1 /\ (cpc[d] = "write" <=> hand[d] # <<>>)
  BY DEF TypeOK
<1> QED BY <1>1, <1>2

\* The message variable of a handler that holds a frame no more.
LEMMA HoldNone ==
  ASSUME TypeOK, NEW c \in Consumers, NEW next \in {"idle", "dequeue"},
         hand' = [hand EXCEPT ![c] = <<>>],
         cpc' = [cpc EXCEPT ![c] = next]
  PROVE  /\ cpc' \in [Consumers -> {"idle", "role", "dequeue", "recv", "write"}]
         /\ hand' \in [Consumers -> Seq(Message)]
         /\ \A d \in Consumers :
              Len(hand'[d]) <= 1 /\ (cpc'[d] = "write" <=> hand'[d] # <<>>)
<1>1. <<>> \in Seq(Message) /\ Len(<<>>) <= 1
  OBVIOUS
<1>2. /\ cpc \in [Consumers -> {"idle", "role", "dequeue", "recv", "write"}]
      /\ hand \in [Consumers -> Seq(Message)]
      /\ \A d \in Consumers : Len(hand[d]) <= 1 /\ (cpc[d] = "write" <=> hand[d] # <<>>)
  BY DEF TypeOK
<1> QED BY <1>1, <1>2

\* The handler that writes holds a frame, and that frame only.
LEMMA Holding ==
  ASSUME TypeOK, NEW c \in Consumers, cpc[c] = "write"
  PROVE  /\ hand[c] # <<>>
         /\ Head(hand[c]) \in Message
         /\ hand[c] = <<Head(hand[c])>>
         /\ Bytes(Head(hand[c])) = Head(hand[c])
<1>1. hand[c] \in Seq(Message) /\ Len(hand[c]) <= 1 /\ hand[c] # <<>>
  BY DEF TypeOK
<1>2. hand[c] # <<>> /\ Head(hand[c]) \in Message /\ hand[c] = <<Head(hand[c])>>
  BY <1>1
<1> QED BY <1>2, BytesOfCopy

\* The frame in the buffer of a handler that enqueues.
LEMMA Enqueueing ==
  ASSUME TypeOK, NEW p \in Producers, ppc[p] \in {"enqueue", "send"}
  PROVE  /\ buf[p] \in 1..MaxFrames
         /\ MsgCopy(p) \in Message
         /\ MsgCopy(p) = [from |-> p, seq |-> buf[p]]
<1>1. /\ buf[p] \in 0..MaxFrames
      /\ buf[p] > 0
      /\ MaxFrames \in Nat
  BY QueueAssumption DEF TypeOK
<1>2. buf[p] \in 1..MaxFrames
  BY <1>1
<1> QED BY <1>2 DEF MsgCopy, Message

\* Every step keeps every variable in its type.
LEMMA TypeStep == TypeOK /\ [Next]_vars => TypeOK'
<1> SUFFICES ASSUME TypeOK, [Next]_vars PROVE TypeOK'
  OBVIOUS
<1> USE DEF qvars, pvars, cvars
<1>t. /\ queue \in Seq(Message)
      /\ Len(queue) <= QueueCap
      /\ ppc \in [Producers -> {"new", "role", "read", "enqueue", "send", "done"}]
      /\ buf \in [Producers -> 0..MaxFrames]
      /\ \A p \in Producers : ppc[p] \in {"enqueue", "send"} => buf[p] > 0
      /\ written \in [Consumers -> Seq(Message)]
      /\ lost \subseteq Message
      /\ accepted \in Seq(Message)
      /\ MaxFrames \in Nat /\ QueueCap \in Nat
  BY QueueAssumption DEF TypeOK
<1>1. ASSUME NEW p \in Producers, AcceptProducer(p) PROVE TypeOK'
  BY <1>1 DEF AcceptProducer, TypeOK
<1>2. ASSUME NEW p \in Producers, HandleProducerConn(p) PROVE TypeOK'
  BY <1>2 DEF HandleProducerConn, TypeOK
<1>3. ASSUME NEW p \in Producers, ReadFrame(p) PROVE TypeOK'
  <2>1. buf' \in [Producers -> 0..MaxFrames]
    BY <1>3, <1>t DEF ReadFrame
  <2>2. \A q \in Producers : ppc'[q] \in {"enqueue", "send"} => buf'[q] > 0
    BY <1>3, <1>t DEF ReadFrame
  <2> QED BY <1>3, <2>1, <2>2 DEF ReadFrame, TypeOK
<1>4. ASSUME NEW p \in Producers, ReadFrameError(p) PROVE TypeOK'
  BY <1>4 DEF ReadFrameError, TypeOK
<1>5. ASSUME NEW p \in Producers, EnqueueCheck(p) PROVE TypeOK'
  BY <1>5 DEF EnqueueCheck, TypeOK
<1>6. ASSUME NEW p \in Producers, Enqueue(p) PROVE TypeOK'
  <2>1. CASE EnqueueSend(p)
    <3>1. MsgCopy(p) \in Message /\ MsgCopy(p) = [from |-> p, seq |-> buf[p]]
      BY <1>6, Enqueueing DEF Enqueue
    <3>2. /\ queue' \in Seq(Message)
          /\ Len(queue') <= QueueCap
          /\ accepted' \in Seq(Message)
      BY <1>t, <2>1, <3>1 DEF EnqueueSend, HasRoom
    <3> QED BY <2>1, <3>2 DEF EnqueueSend, TypeOK
  <2>2. CASE EnqueueFull(p)
    BY <2>2 DEF EnqueueFull, TypeOK
  <2>3. CASE EnqueueClosed(p)
    BY <2>3 DEF EnqueueClosed, TypeOK
  <2> QED BY <1>6, <2>1, <2>2, <2>3 DEF Enqueue
<1>7. ASSUME NEW c \in Consumers, AcceptConsumer(c) PROVE TypeOK'
  BY <1>7 DEF AcceptConsumer, TypeOK
<1>8. ASSUME NEW c \in Consumers, HandleConsumerConn(c) PROVE TypeOK'
  BY <1>8 DEF HandleConsumerConn, TypeOK
<1>9. ASSUME NEW c \in Consumers, DequeueCheck(c) PROVE TypeOK'
  BY <1>9 DEF DequeueCheck, TypeOK
<1>10. ASSUME NEW c \in Consumers, Dequeue(c) PROVE TypeOK'
  <2>1. CASE DequeueReceive(c)
    <3>1. /\ Head(queue) \in Message
          /\ queue' \in Seq(Message)
          /\ Len(queue') <= QueueCap
      <4>1. Len(queue) \in Nat
        BY <1>t
      <4> QED BY <1>t, <2>1, <4>1, TailType DEF DequeueReceive, RestTaken
    <3> QED BY <2>1, <3>1, HoldOne DEF DequeueReceive, TypeOK
  <2>2. CASE DequeueError(c)
    BY <1>10, <2>2 DEF Dequeue, DequeueError, TypeOK
  <2> QED BY <1>10, <2>1, <2>2 DEF Dequeue
<1>11. ASSUME NEW c \in Consumers, WriteFrame(c) PROVE TypeOK'
  <2> DEFINE m == Head(hand[c])
  <2>1. m \in Message /\ Bytes(m) = m
    BY <1>11, Holding DEF WriteFrame
  <2>2. /\ written' \in [Consumers -> Seq(Message)]
        /\ lost' \subseteq Message
    <3>1. Append(written[c], m) \in Seq(Message)
      BY <1>t, <2>1
    <3>2. written' = written \/ written' = [written EXCEPT ![c] = Append(@, m)]
      BY <1>11, <2>1 DEF WriteFrame
    <3>3. lost' = lost \/ lost' = lost \cup {m}
      BY <1>11, <2>1 DEF WriteFrame
    <3> HIDE DEF m
    <3> QED BY <1>t, <2>1, <3>1, <3>2, <3>3
  <2>3. PICK next \in {"idle", "dequeue"} : cpc' = [cpc EXCEPT ![c] = next]
    BY <1>11 DEF WriteFrame
  <2> QED BY <1>11, <2>2, <2>3, HoldNone DEF WriteFrame, TypeOK
<1>12. CASE StopSignal
  BY <1>12 DEF StopSignal, TypeOK
<1>13. CASE CloseChannel
  BY <1>13 DEF CloseChannel, TypeOK
<1>14. CASE CloseNil
  BY <1>14 DEF CloseNil, TypeOK
<1>15. CASE Exit
  BY <1>15 DEF Exit, TypeOK
<1>16. CASE UNCHANGED vars
  BY <1>16 DEF vars, TypeOK
<1> QED
  BY <1>1, <1>2, <1>3, <1>4, <1>5, <1>6, <1>7, <1>8, <1>9, <1>10, <1>11,
     <1>12, <1>13, <1>14, <1>15, <1>16 DEF Next

\* The type invariant: in particular the channel never buffers more than its
\* capacity, and a handler holds a frame exactly while it writes one.
THEOREM TypeCorrect == Spec => []TypeOK
  BY TypeInit, TypeStep, PTL DEF Spec

-----------------------------------------------------------------------------
(* The order of the line, and who has which frame.                         *)

\* A frame in a sequence of frames names a producer and has been numbered.
LEMMA RangeMessage ==
  ASSUME NEW s \in Seq(Message), NEW m \in Range(s)
  PROVE  m \in Message /\ m.from \in Producers /\ m.seq \in 1..MaxFrames
  BY RangeType DEF Message

\* Nothing has been accepted initially.
LEMMA NotAheadInit == Init => NotAhead
  BY RangeShort DEF Init, NotAhead

\* Steps after which no handler is about to Enqueue that was not before.
LEMMA NotAheadQuiet ==
  ASSUME NotAhead, UNCHANGED <<accepted, buf>>,
         \A p : ppc'[p] \in {"enqueue", "send"} => ppc[p] \in {"enqueue", "send"}
  PROVE  NotAhead'
  BY DEF NotAhead

\* Every step keeps the accepted frames behind what handlers still Enqueue.
LEMMA NotAheadStep == TypeOK /\ NotAhead /\ [Next]_vars => NotAhead'
<1> SUFFICES ASSUME TypeOK, NotAhead, [Next]_vars PROVE NotAhead'
  OBVIOUS
<1> USE DEF qvars, pvars, cvars
<1>t. /\ ppc \in [Producers -> {"new", "role", "read", "enqueue", "send", "done"}]
      /\ buf \in [Producers -> 0..MaxFrames]
      /\ accepted \in Seq(Message)
      /\ MaxFrames \in Nat
  BY QueueAssumption DEF TypeOK
<1>m. \A m \in Range(accepted) : m.from \in Producers /\ m.seq \in 1..MaxFrames
  BY <1>t, RangeMessage
<1>1. ASSUME NEW p \in Producers, AcceptProducer(p) PROVE NotAhead'
  BY <1>1, <1>t, NotAheadQuiet DEF AcceptProducer
<1>2. ASSUME NEW p \in Producers, HandleProducerConn(p) PROVE NotAhead'
  BY <1>2, <1>t, NotAheadQuiet DEF HandleProducerConn
<1>3. ASSUME NEW p \in Producers, ReadFrame(p) PROVE NotAhead'
  <2> SUFFICES ASSUME NEW m \in Range(accepted)
               PROVE  /\ m.seq <= buf'[m.from]
                      /\ ppc'[m.from] \in {"enqueue", "send"} => m.seq < buf'[m.from]
    BY <1>3 DEF ReadFrame, NotAhead
  <2>1. CASE m.from = p
    <3>1. m.seq <= buf[p] /\ buf'[p] = buf[p] + 1 /\ buf[p] \in Nat /\ m.seq \in Nat
      BY <1>3, <1>t, <1>m, <2>1 DEF ReadFrame, NotAhead
    <3> QED BY <2>1, <3>1
  <2>2. CASE m.from # p
    BY <1>3, <1>t, <1>m, <2>2 DEF ReadFrame, NotAhead
  <2> QED BY <2>1, <2>2
<1>4. ASSUME NEW p \in Producers, ReadFrameError(p) PROVE NotAhead'
  BY <1>4, <1>t, NotAheadQuiet DEF ReadFrameError
<1>5. ASSUME NEW p \in Producers, EnqueueCheck(p) PROVE NotAhead'
  BY <1>5, <1>t, NotAheadQuiet DEF EnqueueCheck
<1>6. ASSUME NEW p \in Producers, Enqueue(p) PROVE NotAhead'
  <2>1. CASE EnqueueSend(p)
    <3> DEFINE m == [from |-> p, seq |-> buf[p]]
    <3>1. m \in Message /\ buf[p] \in 1..MaxFrames
      BY <1>6, Enqueueing DEF Enqueue
    <3>2. Range(accepted') = Range(accepted) \cup {m}
      BY <1>t, <2>1, <3>1, RangeAppend DEF EnqueueSend
    <3>3. /\ buf' = buf
          /\ ppc' = [ppc EXCEPT ![p] = "read"]
      BY <2>1 DEF EnqueueSend
    <3>4. ASSUME NEW n \in Range(accepted)
          PROVE  /\ n.seq <= buf'[n.from]
                 /\ ppc'[n.from] \in {"enqueue", "send"} => n.seq < buf'[n.from]
      BY <1>t, <1>m, <3>3 DEF NotAhead
    <3>5. /\ m.seq <= buf'[m.from]
          /\ ppc'[m.from] \notin {"enqueue", "send"}
      BY <1>t, <3>1, <3>3
    <3> QED BY <3>2, <3>4, <3>5 DEF NotAhead
  <2>2. CASE EnqueueFull(p)
    BY <1>t, <2>2, NotAheadQuiet DEF EnqueueFull
  <2>3. CASE EnqueueClosed(p)
    BY <2>3, NotAheadQuiet DEF EnqueueClosed
  <2> QED BY <1>6, <2>1, <2>2, <2>3 DEF Enqueue
<1>7. ASSUME NEW c \in Consumers,
             AcceptConsumer(c) \/ HandleConsumerConn(c) \/ DequeueCheck(c)
               \/ Dequeue(c) \/ WriteFrame(c)
      PROVE  NotAhead'
  BY <1>7, NotAheadQuiet
     DEF AcceptConsumer, HandleConsumerConn, DequeueCheck, Dequeue,
         DequeueReceive, DequeueError, WriteFrame
<1>8. CASE StopSignal \/ CloseChannel \/ CloseNil \/ Exit \/ UNCHANGED vars
  BY <1>8, NotAheadQuiet DEF StopSignal, CloseChannel, CloseNil, Exit, vars
<1> QED
  BY <1>1, <1>2, <1>3, <1>4, <1>5, <1>6, <1>7, <1>8 DEF Next

\* The elements of what a handler holds.
LEMMA RangeHand ==
  ASSUME TypeOK, NEW c \in Consumers
  PROVE  /\ cpc[c] # "write" => hand[c] = <<>> /\ Range(hand[c]) = {}
         /\ cpc[c] = "write" => Range(hand[c]) = {Head(hand[c])}
<1>1. cpc[c] # "write" => hand[c] = <<>>
  BY DEF TypeOK
<1>2. cpc[c] = "write" => hand[c] = <<Head(hand[c])>>
  BY Holding
<1> QED BY <1>1, <1>2, RangeShort

\* No frame has been queued initially.
LEMMA LineOrderInit == Init => LineOrder
<1>1. InOrder(<<>>)
  BY DEF InOrder
<1>2. Before(<<>>, <<>>)
  BY RangeShort DEF Before
<1> QED BY <1>1, <1>2 DEF Init, LineOrder

\* A step that moves no frame keeps the line in order and every frame in place.
LEMMA PlacesQuiet ==
  ASSUME UNCHANGED <<queue, hand, written, lost, accepted>>
  PROVE  (LineOrder => LineOrder') /\ (Places => Places')
  BY DEF LineOrder, Places, Taken

\* The frame that EnqueueSend appends is newer than every accepted frame.
LEMMA EnqueueFresh ==
  ASSUME TypeOK, NotAhead, Places, NEW p \in Producers, ppc[p] = "send",
         EnqueueSend(p)
  PROVE  \E m \in Message :
           /\ m.from = p /\ m.seq = buf[p]
           /\ queue' = Append(queue, m)
           /\ accepted' = Append(accepted, m)
           /\ Range(queue') = Range(queue) \cup {m}
           /\ Range(accepted') = Range(accepted) \cup {m}
           /\ \A n \in Range(accepted) : n.from = p => n.seq < m.seq
           /\ m \notin Range(accepted)
<1> DEFINE m == [from |-> p, seq |-> buf[p]]
<1>1. m \in Message /\ buf[p] \in 1..MaxFrames
  BY Enqueueing
<1>2. queue' = Append(queue, m) /\ accepted' = Append(accepted, m)
  BY DEF EnqueueSend, MsgCopy
<1>3. /\ Range(queue') = Range(queue) \cup {m}
      /\ Range(accepted') = Range(accepted) \cup {m}
  <2>1. queue \in Seq(Message) /\ accepted \in Seq(Message)
    BY DEF TypeOK
  <2> HIDE DEF m
  <2> QED BY <1>1, <1>2, <2>1, RangeAppend
<1>4. \A n \in Range(accepted) : n.from = p => n.seq < buf[p]
  BY DEF NotAhead
<1>5. m \notin Range(accepted)
  <2>1. ASSUME m \in Range(accepted) PROVE buf[p] < buf[p]
    BY <1>4, <2>1
  <2> QED BY <1>1, <2>1
<1> QED BY <1>1, <1>2, <1>3, <1>4, <1>5

\* What DequeueReceive takes out of the queue, and for whom.
LEMMA ReceiveHead ==
  ASSUME TypeOK, LineOrder, NEW c \in Consumers, cpc[c] = "recv",
         DequeueReceive(c)
  PROVE  \E m \in Message :
           /\ m = Head(queue)
           /\ queue' = Tail(queue) /\ queue' \in Seq(Message)
           /\ Range(queue) = {m} \cup Range(queue') /\ m \notin Range(queue')
           /\ InOrder(queue') /\ Before(<<m>>, queue')
           /\ hand[c] = <<>> /\ hand'[c] = <<m>>
           /\ \A d \in Consumers : d # c => hand'[d] = hand[d]
<1>1. queue \in Seq(Message) /\ queue # <<>> /\ queue' = Tail(queue)
  BY DEF TypeOK, DequeueReceive, RestTaken
<1>2. Head(queue) \in Message /\ queue' \in Seq(Message)
  BY <1>1, TailType
<1>3. Range(queue) = {Head(queue)} \cup Range(queue')
  BY <1>1, RangeTail
<1>4. InOrder(queue') /\ Before(<<Head(queue)>>, queue')
  BY <1>1, TailOrder DEF LineOrder
<1>5. Head(queue).seq \in Nat
  BY <1>2, QueueAssumption DEF Message
<1>6. Head(queue) \notin Range(queue')
  BY <1>1, <1>5, HeadOnce DEF LineOrder
<1>7. /\ hand[c] = <<>> /\ hand'[c] = <<Head(queue)>>
      /\ \A d \in Consumers : d # c => hand'[d] = hand[d]
  BY DEF TypeOK, DequeueReceive
<1> QED BY <1>1, <1>2, <1>3, <1>4, <1>6, <1>7

\* Where WriteFrame leaves the frame its handler held.
LEMMA WriteHeld ==
  ASSUME TypeOK, LineOrder, NEW c \in Consumers, WriteFrame(c)
  PROVE  \E m \in Message :
           /\ Range(hand[c]) = {m}
           /\ m \notin Range(written[c])
           /\ hand[c] = <<m>> /\ Bytes(m) = m
           /\ hand' = [hand EXCEPT ![c] = <<>>]
           /\ Range(hand'[c]) = {}
           /\ \A d \in Consumers : d # c => hand'[d] = hand[d] /\ written'[d] = written[d]
           /\ \/ /\ written'[c] = Append(written[c], m)
                 /\ Range(written'[c]) = Range(written[c]) \cup {m}
                 /\ lost' = lost
              \/ /\ written' = written
                 /\ lost' = lost \cup {m}
<1> DEFINE m == Head(hand[c])
<1>1. /\ m \in Message /\ Bytes(m) = m
      /\ hand[c] = <<m>> /\ Range(hand[c]) = {m}
  BY Holding, RangeHand DEF WriteFrame
<1> HIDE DEF m
<1>2. m \notin Range(written[c])
  <2>1. ASSUME m \in Range(written[c]) PROVE m.seq < m.seq
    BY <1>1, <2>1 DEF LineOrder, Before
  <2>2. m.seq \in Nat
    BY <1>1, QueueAssumption DEF Message
  <2> QED BY <2>1, <2>2
<1>3. /\ hand' = [hand EXCEPT ![c] = <<>>]
      /\ Range(hand'[c]) = {}
      /\ \A d \in Consumers : d # c => hand'[d] = hand[d] /\ written'[d] = written[d]
  BY RangeShort DEF WriteFrame, TypeOK
<1>4. \/ written'[c] = Append(written[c], m) /\ lost' = lost
      \/ written' = written /\ lost' = lost \cup {m}
  BY <1>1 DEF WriteFrame, TypeOK, m
<1>5. written[c] \in Seq(Message)
  BY DEF TypeOK
<1>6. Range(Append(written[c], m)) = Range(written[c]) \cup {m}
  BY <1>1, <1>5, RangeAppend
<1> QED BY <1>1, <1>2, <1>3, <1>4, <1>6

\* Every step keeps the line in order.
LEMMA LineOrderStep ==
  TypeOK /\ NotAhead /\ LineOrder /\ Places /\ [Next]_vars => LineOrder'
<1> SUFFICES ASSUME TypeOK, NotAhead, LineOrder, Places, [Next]_vars
             PROVE  LineOrder'
  OBVIOUS
<1> USE DEF qvars, pvars, cvars
<1>t. /\ queue \in Seq(Message)
      /\ written \in [Consumers -> Seq(Message)]
  BY DEF TypeOK
<1>1. CASE UNCHANGED <<queue, hand, written, lost, accepted>>
  BY <1>1, PlacesQuiet
<1>2. ASSUME NEW p \in Producers, Enqueue(p) PROVE LineOrder'
  <2>1. CASE EnqueueSend(p)
    <3>1. PICK m \in Message :
            /\ m.from = p
            /\ queue' = Append(queue, m)
            /\ Range(queue') = Range(queue) \cup {m}
            /\ \A n \in Range(accepted) : n.from = p => n.seq < m.seq
      BY <1>2, <2>1, EnqueueFresh DEF Enqueue
    <3>2. InOrder(queue')
      BY <1>t, <3>1, AppendOrder DEF LineOrder, Places
    <3>3. ASSUME NEW c \in Consumers
          PROVE  Before(written[c], queue') /\ Before(hand[c], queue')
      BY <3>1 DEF LineOrder, Places, Taken, Before
    <3>4. UNCHANGED <<hand, written>>
      BY <2>1 DEF EnqueueSend
    <3> QED BY <3>2, <3>3, <3>4 DEF LineOrder
  <2>2. CASE EnqueueFull(p) \/ EnqueueClosed(p)
    BY <1>1, <2>2 DEF EnqueueFull, EnqueueClosed
  <2> QED BY <1>2, <2>1, <2>2 DEF Enqueue
<1>3. ASSUME NEW c \in Consumers, Dequeue(c) PROVE LineOrder'
  <2>1. CASE DequeueReceive(c)
    <3>1. PICK m \in Message :
            /\ Range(queue) = {m} \cup Range(queue')
            /\ InOrder(queue') /\ Before(<<m>>, queue')
            /\ hand'[c] = <<m>>
            /\ \A d \in Consumers : d # c => hand'[d] = hand[d]
      BY <1>3, <2>1, ReceiveHead DEF Dequeue
    <3>2. written' = written
      BY <2>1 DEF DequeueReceive
    <3>3. ASSUME NEW d \in Consumers
          PROVE  /\ Before(written[d], queue')
                 /\ Before(written[d], hand'[d])
                 /\ Before(hand'[d], queue')
      <4>1. Before(written[d], queue) /\ Before(hand[d], queue)
            /\ Before(written[d], hand[d])
        BY DEF LineOrder
      <4>2. Before(written[d], queue') /\ Before(hand[d], queue')
        BY <3>1, <4>1 DEF Before
      <4>3. Before(written[d], <<m>>)
        BY <3>1, <4>1, RangeShort DEF Before
      <4> QED BY <3>1, <4>1, <4>2, <4>3
    <3> QED BY <3>1, <3>2, <3>3 DEF LineOrder
  <2>2. CASE DequeueError(c)
    BY <1>1, <2>2 DEF DequeueError
  <2> QED BY <1>3, <2>1, <2>2 DEF Dequeue
<1>4. ASSUME NEW c \in Consumers, WriteFrame(c) PROVE LineOrder'
  <2>1. PICK m \in Message :
          /\ Range(hand[c]) = {m}
          /\ Range(hand'[c]) = {}
          /\ \A d \in Consumers : d # c => hand'[d] = hand[d] /\ written'[d] = written[d]
          /\ \/ /\ written'[c] = Append(written[c], m)
                /\ Range(written'[c]) = Range(written[c]) \cup {m}
             \/ written' = written
    BY <1>4, WriteHeld
  <2>2. queue' = queue
    BY <1>4 DEF WriteFrame
  <2>3. /\ InOrder(written[c]) /\ Before(written[c], queue)
        /\ Before(written[c], hand[c]) /\ Before(hand[c], queue)
    BY DEF LineOrder
  <2>4. InOrder(written'[c])
    <3>1. InOrder(Append(written[c], m))
      BY <1>t, <2>1, <2>3, AppendOrder DEF Before
    <3> QED BY <2>1, <2>3, <3>1
  <2>5. /\ Before(written'[c], queue)
        /\ Before(written'[c], hand'[c])
        /\ Before(hand'[c], queue)
    BY <2>1, <2>3 DEF Before
  <2> QED BY <2>1, <2>2, <2>4, <2>5 DEF LineOrder
<1>5. ASSUME NEW p \in Producers,
             AcceptProducer(p) \/ HandleProducerConn(p) \/ ReadFrame(p)
               \/ ReadFrameError(p) \/ EnqueueCheck(p)
      PROVE  LineOrder'
  BY <1>1, <1>5 DEF AcceptProducer, HandleProducerConn, ReadFrame,
                    ReadFrameError, EnqueueCheck
<1>6. ASSUME NEW c \in Consumers,
             AcceptConsumer(c) \/ HandleConsumerConn(c) \/ DequeueCheck(c)
      PROVE  LineOrder'
  BY <1>1, <1>6 DEF AcceptConsumer, HandleConsumerConn, DequeueCheck
<1>7. CASE StopSignal \/ CloseChannel \/ CloseNil \/ Exit \/ UNCHANGED vars
  BY <1>1, <1>7 DEF StopSignal, CloseChannel, CloseNil, Exit, vars
<1> QED
  BY <1>2, <1>3, <1>4, <1>5, <1>6, <1>7 DEF Next

\* Nothing is anywhere initially.
LEMMA PlacesInit == Init => Places
<1> SUFFICES ASSUME Init PROVE Places
  OBVIOUS
<1>1. Range(queue) = {} /\ Range(accepted) = {} /\ lost = {}
  BY RangeShort DEF Init
<1>2. \A c \in Consumers : Taken(c) = {}
  BY RangeShort DEF Init, Taken
<1> QED BY <1>1, <1>2 DEF Places

\* Every step moves a frame as a whole, to a place where it was not.
LEMMA PlacesStep ==
  TypeOK /\ NotAhead /\ LineOrder /\ Places /\ [Next]_vars => Places'
<1> SUFFICES ASSUME TypeOK, NotAhead, LineOrder, Places, [Next]_vars
             PROVE  Places'
  OBVIOUS
<1> USE DEF qvars, pvars, cvars
<1>1. CASE UNCHANGED <<queue, hand, written, lost, accepted>>
  BY <1>1, PlacesQuiet
<1>2. ASSUME NEW p \in Producers, Enqueue(p) PROVE Places'
  <2>1. CASE EnqueueSend(p)
    <3>1. PICK m \in Message :
            /\ Range(queue') = Range(queue) \cup {m}
            /\ Range(accepted') = Range(accepted) \cup {m}
            /\ m \notin Range(accepted)
      BY <1>2, <2>1, EnqueueFresh DEF Enqueue
    <3>2. lost' = lost /\ \A c \in Consumers : Taken(c)' = Taken(c)
      BY <2>1 DEF EnqueueSend, Taken
    <3> QED BY <3>1, <3>2 DEF Places
  <2>2. CASE EnqueueFull(p) \/ EnqueueClosed(p)
    BY <1>1, <2>2 DEF EnqueueFull, EnqueueClosed
  <2> QED BY <1>2, <2>1, <2>2 DEF Enqueue
<1>3. ASSUME NEW c \in Consumers, Dequeue(c) PROVE Places'
  <2>1. CASE DequeueReceive(c)
    <3>1. PICK m \in Message :
            /\ Range(queue) = {m} \cup Range(queue')
            /\ m \notin Range(queue')
            /\ hand[c] = <<>> /\ hand'[c] = <<m>>
            /\ \A d \in Consumers : d # c => hand'[d] = hand[d]
      BY <1>3, <2>1, ReceiveHead DEF Dequeue
    <3>2. UNCHANGED <<written, lost, accepted>>
      BY <2>1 DEF DequeueReceive
    <3>3. /\ Taken(c)' = Taken(c) \cup {m}
          /\ \A d \in Consumers : d # c => Taken(d)' = Taken(d)
      BY <3>1, <3>2, RangeShort DEF Taken
    <3>4. /\ Range(queue') \cap lost = {}
          /\ \A d \in Consumers : Taken(d)' \cap (Range(queue') \cup lost) = {}
      BY <3>1, <3>3 DEF Places
    <3>5. \A d, e \in Consumers : d # e => Taken(d)' \cap Taken(e)' = {}
      BY <3>1, <3>3 DEF Places
    <3>6. /\ Range(queue') \cup lost \subseteq Range(accepted)
          /\ \A d \in Consumers : Taken(d)' \subseteq Range(accepted)
      BY <3>1, <3>3 DEF Places
    <3>7. ASSUME NEW n \in Range(accepted)
          PROVE  \/ n \in Range(queue') \cup lost
                 \/ \E d \in Consumers : n \in Taken(d)'
      BY <3>1, <3>3 DEF Places
    <3> QED BY <3>2, <3>4, <3>5, <3>6, <3>7 DEF Places
  <2>2. CASE DequeueError(c)
    BY <1>1, <2>2 DEF DequeueError
  <2> QED BY <1>3, <2>1, <2>2 DEF Dequeue
<1>4. ASSUME NEW c \in Consumers, WriteFrame(c) PROVE Places'
  <2>1. PICK m \in Message :
          /\ Range(hand[c]) = {m}
          /\ m \notin Range(written[c])
          /\ Range(hand'[c]) = {}
          /\ \A d \in Consumers : d # c => hand'[d] = hand[d] /\ written'[d] = written[d]
          /\ \/ /\ Range(written'[c]) = Range(written[c]) \cup {m}
                /\ lost' = lost
             \/ written' = written /\ lost' = lost \cup {m}
    BY <1>4, WriteHeld
  <2>2. UNCHANGED <<queue, accepted>>
    BY <1>4 DEF WriteFrame
  <2>3. \A d \in Consumers : d # c => Taken(d)' = Taken(d)
    BY <2>1 DEF Taken
  <2>4. CASE Taken(c)' = Taken(c) /\ lost' = lost
    BY <2>2, <2>3, <2>4 DEF Places
  <2>5. CASE /\ Taken(c) = Taken(c)' \cup {m} /\ m \notin Taken(c)'
             /\ lost' = lost \cup {m}
    <3>1. /\ m \in Range(accepted)
          /\ \A d \in Consumers : Taken(d)' \subseteq Taken(d)
      BY <2>3, <2>5 DEF Places
    <3>2. \A n \in Range(accepted) :
            n \in Range(queue) \cup lost' \/ \E d \in Consumers : n \in Taken(d)'
      BY <2>3, <2>5 DEF Places
    <3>3. \A d \in Consumers : d # c => m \notin Taken(d)
      BY <2>5 DEF Places
    <3>4. m \notin Range(queue)
      BY <2>5 DEF Places
    <3> QED BY <2>2, <2>3, <2>5, <3>1, <3>2, <3>3, <3>4 DEF Places
  <2> QED BY <2>1, <2>4, <2>5 DEF Taken
<1>5. ASSUME NEW p \in Producers,
             AcceptProducer(p) \/ HandleProducerConn(p) \/ ReadFrame(p)
               \/ ReadFrameError(p) \/ EnqueueCheck(p)
      PROVE  Places'
  BY <1>1, <1>5 DEF AcceptProducer, HandleProducerConn, ReadFrame,
                    ReadFrameError, EnqueueCheck
<1>6. ASSUME NEW c \in Consumers,
             AcceptConsumer(c) \/ HandleConsumerConn(c) \/ DequeueCheck(c)
      PROVE  Places'
  BY <1>1, <1>6 DEF AcceptConsumer, HandleConsumerConn, DequeueCheck
<1>7. CASE StopSignal \/ CloseChannel \/ CloseNil \/ Exit \/ UNCHANGED vars
  BY <1>1, <1>7 DEF StopSignal, CloseChannel, CloseNil, Exit, vars
<1> QED
  BY <1>2, <1>3, <1>4, <1>5, <1>6, <1>7 DEF Next

\* Where the copies of a frame are, in terms of the sequences that hold it.
LEMMA CopiesMeaning ==
  ASSUME TypeOK, NEW m \in Message, NEW x
  PROVE  x \in Copies(m) <=>
           \/ \E i \in DOMAIN queue : queue[i] = m /\ x = <<"queued", i>>
           \/ \E c \in Consumers : m \in Range(hand[c]) /\ x = <<"held", c>>
           \/ \E c \in Consumers : \E i \in DOMAIN written[c] :
                written[c][i] = m /\ x = <<"written", c, i>>
           \/ m \in lost /\ x = <<"lost">>
<1>t. queue \in Seq(Message) /\ hand \in [Consumers -> Seq(Message)]
  BY DEF TypeOK
<1>1. \A i \in DOMAIN queue : Bytes(queue[i]) = queue[i]
  <2>1. \A i \in DOMAIN queue : queue[i] \in Message
    BY <1>t
  <2> QED BY <2>1, BytesOfCopy
<1>2. ASSUME NEW c \in Consumers
      PROVE  \A i \in DOMAIN hand[c] : Bytes(hand[c][i]) = hand[c][i]
  <2>1. \A i \in DOMAIN hand[c] : hand[c][i] \in Message
    BY <1>t
  <2> QED BY <2>1, BytesOfCopy
<1>3. x \in Queued(m) <=> \E i \in DOMAIN queue : queue[i] = m /\ x = <<"queued", i>>
  BY <1>1 DEF Queued
<1>4. x \in Held(m) <=> \E c \in Consumers : m \in Range(hand[c]) /\ x = <<"held", c>>
  BY <1>2 DEF Held, Range
<1>5. x \in UNION {WrittenTo(c, m) : c \in Consumers}
        <=> \E c \in Consumers : x \in WrittenTo(c, m)
  OBVIOUS
<1>6. ASSUME NEW c \in Consumers
      PROVE  x \in WrittenTo(c, m) <=> \E i \in DOMAIN written[c] :
                                         written[c][i] = m /\ x = <<"written", c, i>>
  BY DEF WrittenTo
<1>7. x \in Lost(m) <=> m \in lost /\ x = <<"lost">>
  BY DEF Lost
<1> QED BY <1>3, <1>4, <1>5, <1>6, <1>7 DEF Copies

\* A frame that was accepted is somewhere, and no other frame is anywhere.
LEMMA SomePlace ==
  ASSUME TypeOK, Places, NEW m \in Message
  PROVE  Copies(m) # {} <=> m \in Range(accepted)
<1>1. m \in Range(queue) <=> \E i \in DOMAIN queue : queue[i] = m
  BY DEF Range
<1>2. \A c \in Consumers :
        m \in Range(written[c]) <=> \E i \in DOMAIN written[c] : written[c][i] = m
  BY DEF Range
<1>3. ASSUME m \in Range(accepted) PROVE \E x : x \in Copies(m)
  <2>1. CASE m \in Range(queue)
    BY <1>1, <2>1, CopiesMeaning
  <2>2. CASE m \in lost
    BY <2>2, CopiesMeaning
  <2>3. ASSUME NEW c \in Consumers, m \in Taken(c) PROVE \E x : x \in Copies(m)
    <3>1. CASE m \in Range(hand[c])
      BY <3>1, CopiesMeaning
    <3>2. CASE m \in Range(written[c])
      <4>1. PICK i \in DOMAIN written[c] : written[c][i] = m
        BY <1>2, <3>2
      <4>2. <<"written", c, i>> \in Copies(m)
        BY <4>1, CopiesMeaning
      <4> QED BY <4>2
    <3> QED BY <2>3, <3>1, <3>2 DEF Taken
  <2> QED BY <1>3, <2>1, <2>2, <2>3 DEF Places
<1>4. ASSUME NEW x \in Copies(m) PROVE m \in Range(accepted)
  <2>1. m \in Range(queue) \cup lost \/ \E c \in Consumers : m \in Taken(c)
    BY <1>1, <1>2, CopiesMeaning DEF Taken
  <2> QED BY <2>1 DEF Places
<1> QED BY <1>3, <1>4

\* No frame is in two places.
LEMMA NoSecondPlace ==
  ASSUME TypeOK, LineOrder, Places, NEW m \in Message,
         NEW x \in Copies(m), NEW y \in Copies(m)
  PROVE  x = y
<1>s. m.seq \in Nat
  BY QueueAssumption DEF Message
<1>q. \A i, j \in DOMAIN queue : queue[i] = m /\ queue[j] = m => i = j
  BY <1>s, IndexOnce DEF TypeOK, LineOrder
<1>w. ASSUME NEW c \in Consumers
      PROVE  \A i, j \in DOMAIN written[c] : written[c][i] = m /\ written[c][j] = m => i = j
  BY <1>s, IndexOnce DEF TypeOK, LineOrder
<1>h. ASSUME NEW c \in Consumers, m \in Range(hand[c]) PROVE m \notin Range(written[c])
  <2>1. ASSUME m \in Range(written[c]) PROVE m.seq < m.seq
    BY <1>h, <2>1 DEF LineOrder, Before
  <2> QED BY <1>s, <2>1
<1>1. \A i \in DOMAIN queue : queue[i] = m => m \in Range(queue)
  BY DEF Range
<1>2. \A c \in Consumers : \A i \in DOMAIN written[c] :
        written[c][i] = m => m \in Range(written[c])
  BY DEF Range
<1>3. CASE m \in Range(queue)
  <2>1. m \notin lost /\ \A c \in Consumers : m \notin Taken(c)
    BY <1>3 DEF Places
  <2>2. \A z \in Copies(m) : \E i \in DOMAIN queue : queue[i] = m /\ z = <<"queued", i>>
    BY <1>2, <2>1, CopiesMeaning DEF Taken
  <2> QED BY <1>q, <2>2
<1>4. CASE m \in lost
  <2>1. m \notin Range(queue) /\ \A c \in Consumers : m \notin Taken(c)
    BY <1>4 DEF Places
  <2>2. \A z \in Copies(m) : z = <<"lost">>
    BY <1>1, <1>2, <2>1, CopiesMeaning DEF Taken
  <2> QED BY <2>2
<1>5. ASSUME NEW c \in Consumers, m \in Taken(c) PROVE x = y
  <2>1. /\ m \notin Range(queue) /\ m \notin lost
        /\ \A d \in Consumers : d # c => m \notin Taken(d)
    BY <1>5 DEF Places
  <2>2. CASE m \in Range(hand[c])
    <3>1. \A z \in Copies(m) : z = <<"held", c>>
      BY <1>1, <1>2, <1>h, <2>1, <2>2, CopiesMeaning DEF Taken
    <3> QED BY <3>1
  <2>3. CASE m \notin Range(hand[c])
    <3>1. \A z \in Copies(m) :
            \E i \in DOMAIN written[c] : written[c][i] = m /\ z = <<"written", c, i>>
      BY <1>1, <1>2, <2>1, <2>3, CopiesMeaning DEF Taken
    <3> QED BY <1>w, <3>1
  <2> QED BY <2>2, <2>3
<1> QED BY <1>3, <1>4, <1>5, SomePlace DEF Places

-----------------------------------------------------------------------------
(* The last frame of each producer that was accepted.                      *)

\* The greatest number of a set, or 0 if there is none, is the one chosen.
LEMMA GreatestChosen ==
  ASSUME NEW A \in SUBSET Nat, NEW s \in A \cup {0}, \A t \in A : t <= s
  PROVE  (CHOOSE l \in A \cup {0} : \A t \in A : t <= l) = s
<1> DEFINE l == CHOOSE r \in A \cup {0} : \A t \in A : t <= r
<1>1. l \in A \cup {0} /\ \A t \in A : t <= l
  OBVIOUS
<1> HIDE DEF l
<1>2. l \in Nat /\ s \in Nat
  BY <1>1
<1>3. l <= s
  BY <1>1, <1>2
<1>4. s <= l
  BY <1>1, <1>2
<1>5. l = s
  BY <1>2, <1>3, <1>4
<1> QED BY <1>5 DEF l

\* Nothing has been accepted initially.
LEMMA LastInit ==
  Init => LastIsGreatest /\ \A p \in Producers : LastAccepted(p) = 0
<1> SUFFICES ASSUME Init, NEW p \in Producers
             PROVE  LastAccepted(p) = 0 /\ AcceptedSeqs(p) = {}
  BY DEF LastIsGreatest
<1>1. AcceptedSeqs(p) = {}
  BY RangeShort DEF Init, AcceptedSeqs
<1>2. (CHOOSE l \in {} \cup {0} : \A t \in {} : t <= l) = 0
  BY GreatestChosen
<1> QED BY <1>1, <1>2 DEF LastAccepted

\* What EnqueueSend does to the last accepted frames.
LEMMA LastSend ==
  ASSUME TypeOK, NotAhead, Places, LastIsGreatest, NEW p \in Producers,
         ppc[p] = "send", EnqueueSend(p)
  PROVE  /\ LastIsGreatest'
         /\ LastAccepted(p)' = buf[p]
         /\ LastAccepted(p) < buf[p]
         /\ \A q \in Producers : q # p => LastAccepted(q)' = LastAccepted(q)
<1>1. PICK m \in Message :
        /\ m.from = p /\ m.seq = buf[p]
        /\ Range(accepted') = Range(accepted) \cup {m}
        /\ \A n \in Range(accepted) : n.from = p => n.seq < m.seq
  BY EnqueueFresh
<1>2. buf[p] \in Nat /\ buf[p] > 0
  BY Enqueueing
<1>3. /\ AcceptedSeqs(p)' = AcceptedSeqs(p) \cup {buf[p]}
      /\ \A q \in Producers : q # p => AcceptedSeqs(q)' = AcceptedSeqs(q)
  BY <1>1 DEF AcceptedSeqs
<1>4. \A q \in Producers : q # p => LastAccepted(q)' = LastAccepted(q)
  BY <1>3 DEF LastAccepted
<1>5. \A s \in AcceptedSeqs(p) : s < buf[p]
  BY <1>1 DEF AcceptedSeqs
<1>6. AcceptedSeqs(p) \subseteq Nat
  <2>1. \A n \in Range(accepted) : n.seq \in 1..MaxFrames
    BY RangeMessage DEF TypeOK
  <2> QED BY <2>1, QueueAssumption DEF AcceptedSeqs
<1>7. LastAccepted(p)' = buf[p]
  <2> DEFINE A == AcceptedSeqs(p) \cup {buf[p]}
  <2>1. A \in SUBSET Nat /\ buf[p] \in A \cup {0} /\ \A t \in A : t <= buf[p]
    BY <1>2, <1>5, <1>6
  <2>2. (CHOOSE l \in A \cup {0} : \A t \in A : t <= l) = buf[p]
    BY <2>1, GreatestChosen
  <2> QED BY <1>3, <2>2 DEF LastAccepted
<1>8. LastAccepted(p) < buf[p]
  BY <1>2, <1>5 DEF LastIsGreatest
<1>9. LastIsGreatest'
  <2> SUFFICES ASSUME NEW q \in Producers
               PROVE  /\ LastAccepted(q)' \in AcceptedSeqs(q)' \cup {0}
                      /\ \A s \in AcceptedSeqs(q)' : s <= LastAccepted(q)'
    BY DEF LastIsGreatest
  <2>1. CASE q = p
    BY <1>2, <1>3, <1>5, <1>6, <1>7, <2>1
  <2>2. CASE q # p
    BY <1>3, <1>4, <2>2 DEF LastIsGreatest
  <2> QED BY <2>1, <2>2
<1> QED BY <1>4, <1>7, <1>8, <1>9

\* A step that accepts nothing.
LEMMA LastQuiet ==
  ASSUME UNCHANGED accepted
  PROVE  /\ LastIsGreatest => LastIsGreatest'
         /\ \A p : LastAccepted(p)' = LastAccepted(p)
  BY DEF LastIsGreatest, LastAccepted, AcceptedSeqs

\* Every step keeps LastAccepted what its definition means it to be.
LEMMA LastStep ==
  TypeOK /\ NotAhead /\ Places /\ LastIsGreatest /\ [Next]_vars => LastIsGreatest'
<1> SUFFICES ASSUME TypeOK, NotAhead, Places, LastIsGreatest, [Next]_vars
             PROVE  LastIsGreatest'
  OBVIOUS
<1> USE DEF qvars, pvars, cvars
<1>1. CASE UNCHANGED accepted
  BY <1>1, LastQuiet
<1>2. ASSUME NEW p \in Producers, Enqueue(p) PROVE LastIsGreatest'
  <2>1. CASE EnqueueSend(p)
    BY <1>2, <2>1, LastSend DEF Enqueue
  <2>2. CASE EnqueueFull(p) \/ EnqueueClosed(p)
    BY <1>1, <2>2 DEF EnqueueFull, EnqueueClosed
  <2> QED BY <1>2, <2>1, <2>2 DEF Enqueue
<1>3. ASSUME NEW p \in Producers,
             AcceptProducer(p) \/ HandleProducerConn(p) \/ ReadFrame(p)
               \/ ReadFrameError(p) \/ EnqueueCheck(p)
      PROVE  LastIsGreatest'
  BY <1>1, <1>3 DEF AcceptProducer, HandleProducerConn, ReadFrame,
                    ReadFrameError, EnqueueCheck
<1>4. ASSUME NEW c \in Consumers,
             AcceptConsumer(c) \/ HandleConsumerConn(c) \/ DequeueCheck(c)
               \/ Dequeue(c) \/ WriteFrame(c)
      PROVE  LastIsGreatest'
  BY <1>1, <1>4 DEF AcceptConsumer, HandleConsumerConn, DequeueCheck, Dequeue,
                    DequeueReceive, DequeueError, WriteFrame
<1>5. CASE StopSignal \/ CloseChannel \/ CloseNil \/ Exit \/ UNCHANGED vars
  BY <1>1, <1>5 DEF StopSignal, CloseChannel, CloseNil, Exit, vars
<1> QED
  BY <1>2, <1>3, <1>4, <1>5 DEF Next

-----------------------------------------------------------------------------
(* The safety properties.                                                  *)

\* The inductive invariant.
THEOREM Invariance == Spec => []IInv
<1>1. Init => IInv
  BY TypeInit, NotAheadInit, LineOrderInit, PlacesInit, LastInit DEF IInv
<1>2. IInv /\ [Next]_vars => IInv'
  BY TypeStep, NotAheadStep, LineOrderStep, PlacesStep, LastStep DEF IInv
<1> QED BY <1>1, <1>2, PTL DEF Spec

\* Each consumer is sent the frames of one producer in the order they were
\* produced and none twice, however many consumers compete for the queue.
THEOREM FramesInProducerOrder == Spec => []ProducerOrder
<1>1. IInv => ProducerOrder
  BY DEF IInv, LineOrder, ProducerOrder
<1> QED BY <1>1, Invariance, PTL

\* No frame that Enqueue accepted vanishes or goes to two consumers: it is in
\* the queue, in one handler's hands, written to one consumer or lost in one
\* failed write, at every moment and through every shutdown.
THEOREM FramesInOnePlace == Spec => []OnePlaceEach
<1>1. IInv => OnePlaceEach
  <2> SUFFICES ASSUME IInv, NEW m \in Message
               PROVE  Cardinality(Copies(m)) = IF m \in Range(accepted) THEN 1 ELSE 0
    BY DEF OnePlaceEach
  <2>1. CASE m \notin Range(accepted)
    <3>1. Copies(m) = {}
      BY <2>1, SomePlace DEF IInv
    <3> QED BY <2>1, <3>1, FS_EmptySet
  <2>2. CASE m \in Range(accepted)
    <3>1. PICK x : x \in Copies(m)
      BY <2>2, SomePlace DEF IInv
    <3>2. Copies(m) = {x}
      BY <3>1, NoSecondPlace DEF IInv
    <3> QED BY <2>2, <3>2, FS_Singleton
  <2> QED BY <2>1, <2>2
<1> QED BY <1>1, Invariance, PTL

-----------------------------------------------------------------------------
(* The broker in queue mode implements the work queue.                     *)

\* The bytes of a sequence of copies are the frames it was made of.
LEMMA BytesOfSequence ==
  ASSUME NEW s \in Seq(Message) PROVE BytesOf(s) = s /\ BytesOf(s)' = s
<1>1. \A i \in DOMAIN s : Bytes(s[i]) = s[i] /\ Bytes(s[i])' = s[i]
  <2>1. \A i \in DOMAIN s : s[i] \in Message
    OBVIOUS
  <2> QED BY <2>1, BytesOfCopy
<1>2. s = [i \in DOMAIN s |-> s[i]]
  OBVIOUS
<1> QED BY <1>1, <1>2 DEF BytesOf

\* The queue and the handlers' hands, as the work queue sees them.
LEMMA Mapped == TypeOK => Waiting = queue /\ InHand = hand
<1> SUFFICES ASSUME TypeOK PROVE Waiting = queue /\ InHand = hand
  OBVIOUS
<1>1. queue \in Seq(Message) /\ hand \in [Consumers -> Seq(Message)]
  BY DEF TypeOK
<1>2. \A c \in Consumers : BytesOf(hand[c]) = hand[c]
  BY <1>1, BytesOfSequence
<1> QED BY <1>1, <1>2, BytesOfSequence DEF Waiting, InHand

\* The same in the next state.
LEMMA MappedNext == TypeOK' => (Waiting = queue /\ InHand = hand)'
  BY Mapped, PTL

\* The initial state maps to the initial state of the work queue.
LEMMA LineInit == Init => Line!Init
<1> SUFFICES ASSUME Init PROVE Line!Init
  OBVIOUS
<1>1. Waiting = <<>> /\ InHand = [c \in Consumers |-> <<>>]
  BY TypeInit, Mapped DEF Init
<1>2. Last = [p \in Producers |-> 0]
  BY LastInit DEF Last
<1> QED BY <1>1, <1>2 DEF Init, Line!Init

\* A step that moves no frame is a stutter of the work queue.
LEMMA LineStutter ==
  ASSUME TypeOK, TypeOK', UNCHANGED <<buf, queue, hand, written, lost, accepted>>
  PROVE  UNCHANGED Line!vars
<1>1. Waiting' = Waiting /\ InHand' = InHand
  BY Mapped, MappedNext
<1>2. Last' = Last
  BY LastQuiet DEF Last
<1> QED BY <1>1, <1>2 DEF Line!vars

\* Every step of the broker is one of the work queue, or a stutter: ReadFrame
\* offers, EnqueueSend accepts, DequeueReceive takes, WriteFrame delivers or
\* loses.
LEMMA LineStep == IInv /\ TypeOK' /\ [Next]_vars => [Line!Next]_(Line!vars)
<1> SUFFICES ASSUME IInv, TypeOK', [Next]_vars PROVE [Line!Next]_(Line!vars)
  OBVIOUS
<1> USE DEF qvars, pvars, cvars
<1>i. TypeOK /\ NotAhead /\ LineOrder /\ Places /\ LastIsGreatest
  BY DEF IInv
<1>m. /\ Waiting = queue /\ InHand = hand
      /\ Waiting' = queue' /\ InHand' = hand'
  BY <1>i, Mapped, MappedNext
<1>1. CASE UNCHANGED <<buf, queue, hand, written, lost, accepted>>
  BY <1>1, <1>i, LineStutter
<1>2. ASSUME NEW p \in Producers, ReadFrame(p) PROVE [Line!Next]_(Line!vars)
  <2>1. UNCHANGED <<Last, Waiting, InHand, written, lost>>
    BY <1>2, <1>m, LastQuiet DEF ReadFrame, Last
  <2>2. buf' = [buf EXCEPT ![p] = @ + 1]
    BY <1>2 DEF ReadFrame
  <2>3. Line!Offer(p)
    BY <2>1, <2>2 DEF Line!Offer
  <2> QED BY <2>3 DEF Line!Next
<1>3. ASSUME NEW p \in Producers, Enqueue(p) PROVE [Line!Next]_(Line!vars)
  <2>1. CASE EnqueueSend(p)
    <3>0. ppc[p] = "send"
      BY <1>3 DEF Enqueue
    <3>1. Last[p] < buf[p] /\ Last' = [Last EXCEPT ![p] = buf[p]]
      BY <1>i, <2>1, <3>0, LastSend DEF Last
    <3>2. Waiting' = Append(Waiting, [from |-> p, seq |-> buf[p]])
      BY <1>m, <2>1 DEF EnqueueSend, MsgCopy
    <3>3. UNCHANGED <<buf, InHand, written, lost>>
      BY <1>m, <2>1 DEF EnqueueSend
    <3>4. Line!Accept(p)
      BY <3>1, <3>2, <3>3 DEF Line!Accept
    <3> QED BY <3>4 DEF Line!Next
  <2>2. CASE EnqueueFull(p) \/ EnqueueClosed(p)
    BY <1>1, <2>2 DEF EnqueueFull, EnqueueClosed
  <2> QED BY <1>3, <2>1, <2>2 DEF Enqueue
<1>4. ASSUME NEW c \in Consumers, Dequeue(c) PROVE [Line!Next]_(Line!vars)
  <2>1. CASE DequeueReceive(c)
    <3>1. hand[c] = <<>>
      BY <1>4, <1>i, <2>1, ReceiveHead DEF Dequeue
    <3>2. UNCHANGED <<buf, Last, written, lost>>
      BY <2>1, LastQuiet DEF DequeueReceive, Last
    <3>3. /\ Waiting # <<>>
          /\ Waiting' = Tail(Waiting)
          /\ InHand[c] = <<>>
          /\ InHand' = [InHand EXCEPT ![c] = <<Head(Waiting)>>]
      BY <1>m, <2>1, <3>1 DEF DequeueReceive, RestTaken
    <3>4. Line!Take(c)
      BY <3>2, <3>3 DEF Line!Take
    <3> QED BY <3>4 DEF Line!Next
  <2>2. CASE DequeueError(c)
    BY <1>1, <2>2 DEF DequeueError
  <2> QED BY <1>4, <2>1, <2>2 DEF Dequeue
<1>5. ASSUME NEW c \in Consumers, WriteFrame(c) PROVE [Line!Next]_(Line!vars)
  <2>1. hand[c] # <<>> /\ Bytes(Head(hand[c])) = Head(hand[c])
    BY <1>5, <1>i, Holding DEF WriteFrame
  <2>2. UNCHANGED <<buf, Last, Waiting>>
    BY <1>5, <1>m, LastQuiet DEF WriteFrame, Last
  <2>3. InHand[c] # <<>> /\ InHand' = [InHand EXCEPT ![c] = <<>>]
    BY <1>5, <1>m, <2>1 DEF WriteFrame
  <2>4. CASE /\ written' = [written EXCEPT ![c] = Append(@, Head(InHand[c]))]
             /\ lost' = lost
    <3>1. Line!Deliver(c)
      BY <2>2, <2>3, <2>4 DEF Line!Deliver
    <3> QED BY <3>1 DEF Line!Next
  <2>5. CASE /\ lost' = lost \cup {Head(InHand[c])}
             /\ written' = written
    <3>1. Line!Lose(c)
      BY <2>2, <2>3, <2>5 DEF Line!Lose
    <3> QED BY <3>1 DEF Line!Next
  <2> QED BY <1>5, <1>m, <2>1, <2>4, <2>5 DEF WriteFrame
<1>6. ASSUME NEW p \in Producers,
             AcceptProducer(p) \/ HandleProducerConn(p) \/ ReadFrameError(p)
               \/ EnqueueCheck(p)
      PROVE  [Line!Next]_(Line!vars)
  BY <1>1, <1>6 DEF AcceptProducer, HandleProducerConn, ReadFrameError, EnqueueCheck
<1>7. ASSUME NEW c \in Consumers,
             AcceptConsumer(c) \/ HandleConsumerConn(c) \/ DequeueCheck(c)
      PROVE  [Line!Next]_(Line!vars)
  BY <1>1, <1>7 DEF AcceptConsumer, HandleConsumerConn, DequeueCheck
<1>8. CASE StopSignal \/ CloseChannel \/ CloseNil \/ Exit \/ UNCHANGED vars
  BY <1>1, <1>8 DEF StopSignal, CloseChannel, CloseNil, Exit, vars
<1> QED
  BY <1>2, <1>3, <1>4, <1>5, <1>6, <1>7, <1>8 DEF Next

\* The broker in queue mode implements the work queue: whatever its handlers,
\* its unprotected channel and its shutdown do, each frame waits in one line, is
\* taken once, and is then delivered or lost by who took it.
THEOREM QueueIsWorkQueue == Spec => ImplementsWorkQueue
<1>1. IInv => TypeOK
  BY DEF IInv
<1> QED
  BY <1>1, Invariance, LineInit, LineStep, PTL DEF Spec, ImplementsWorkQueue, Line!Spec

=============================================================================
