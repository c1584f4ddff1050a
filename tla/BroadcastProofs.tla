--------------------------- MODULE BroadcastProofs ---------------------------
(***************************************************************************)
(* Theorems about BroadcastBroker, for any sets of producers and consumers,*)
(* any number of frames and any channel capacity.                          *)
(***************************************************************************)
EXTENDS BroadcastBroker, FrameLemmas, TLAPS

-----------------------------------------------------------------------------
(* Why the safety properties hold: an inductive invariant, part by part.   *)

\* A channel is owned from RegisterConsumer on: its handler is between
\* registering and unregistering while it is in the registry, it is never in
\* the registry once it is closed, and a snapshot names no other channel.
Ownership ==
  /\ life # "close of closed channel"
  /\ registry \cap closed = {}
  /\ \A c \in registry : cpc[c] \in {"recv", "write", "unregister"}
  /\ \A c \in closed : cpc[c] \in {"recv", "write", "unregister", "done"}
  /\ \A c \in Consumers : cpc[c] \in {"recv", "write", "unregister"} =>
                            c \in registry \cup closed
  /\ \A p \in Producers : todo[p] \subseteq registry \cup closed

\* A handler holds a frame only while it writes it or after a failed write,
\* and it leaves an unbroken connection only with a closed and empty channel.
Handover ==
  \A c \in Consumers :
    /\ cpc[c] \in {"new", "role", "register", "recv"} => hand[c] = <<>>
    /\ cpc[c] \in {"new", "role", "register"} => chan[c] = <<>>
    /\ c \in broken => cpc[c] \in {"unregister", "done"}
    /\ c \notin broken /\ cpc[c] = "unregister" =>
         c \in closed /\ chan[c] = <<>> /\ hand[c] = <<>>
    /\ c \notin broken /\ cpc[c] = "done" => chan[c] = <<>> /\ hand[c] = <<>>

\* p has still to send the frame in its buffer to c.
Owes(p, c) == ppc[p] = "broadcast" \/ (ppc[p] = "send" /\ c \in todo[p])

\* The frames of s are among those the producers' handlers have read, and
\* none is the one a handler has still to send to c.
NotAhead(s, c) ==
  \A m \in Range(s) :
    /\ m.seq <= buf[m.from]
    /\ Owes(m.from, c) => m.seq < buf[m.from]

\* What was written, what the handler holds and what the channel buffers form
\* one ordered stream, behind what the producers have still to send.
StreamOrder ==
  \A c \in Consumers :
    /\ InOrder(written[c]) /\ InOrder(chan[c])
    /\ Before(written[c], hand[c])
    /\ Before(written[c], chan[c])
    /\ Before(hand[c], chan[c])
    /\ NotAhead(written[c], c) /\ NotAhead(hand[c], c) /\ NotAhead(chan[c], c)

\* A frame is held for each consumer of its audience, or still owed to it, or
\* some channel of the audience was full.
Accounted ==
  \A p \in Producers :
    /\ \A n \in 1..MaxFrames :
         LET m == [from |-> p, seq |-> n] IN
         /\ n > buf[p] \/ (n = buf[p] /\ ppc[p] = "broadcast") =>
              audience[p][n] = {}
         /\ \A c \in audience[p][n] :
              \/ Holds(c, m)
              \/ n = buf[p] /\ ppc[p] = "send" /\ c \in todo[p]
              \/ \E d \in audience[p][n] : <<d, m>> \in overflow
    /\ ppc[p] = "send" => todo[p] \subseteq audience[p][buf[p]]

IInv == TypeOK /\ Ownership /\ Handover /\ StreamOrder /\ Accounted

-----------------------------------------------------------------------------
\* A frame in a channel is a copy: its bytes do not follow the read buffer.
LEMMA BytesOfCopy == ASSUME NEW m \in Message PROVE Bytes(m) = m
  BY DEF Message, Bytes, Shared

-----------------------------------------------------------------------------
(* Type correctness.                                                       *)

\* The initial state has every variable in its type.
LEMMA TypeInit == Init => TypeOK
  BY BroadcastAssumption DEF Init, TypeOK, States, Message

\* Every step keeps every variable in its type.
LEMMA TypeStep == TypeOK /\ [Next]_vars => TypeOK'
<1> SUFFICES ASSUME TypeOK, [Next]_vars PROVE TypeOK'
  OBVIOUS
<1>t. /\ buf \in [Producers -> 0..MaxFrames]
      /\ \A p \in Producers : ppc[p] \in {"broadcast", "send"} => buf[p] > 0
      /\ todo \in [Producers -> SUBSET Consumers]
      /\ chan \in [Consumers -> Seq(Message)]
      /\ \A c \in Consumers : Len(chan[c]) <= ChanCap
      /\ hand \in [Consumers -> Seq(Message)]
      /\ \A c \in Consumers : cpc[c] = "write" => hand[c] # <<>>
      /\ written \in [Consumers -> Seq(Message)]
      /\ MaxFrames \in Nat /\ ChanCap \in Nat
  BY BroadcastAssumption DEF TypeOK
<1>u. ppc \in [Producers -> States({"read", "broadcast", "send"})]
  BY DEF TypeOK
<1>v. /\ cpc \in [Consumers -> States({"register", "recv", "write", "unregister"})]
      /\ \A c \in Consumers : Len(hand[c]) <= 1
  BY DEF TypeOK
<1>1. ASSUME NEW p \in Producers, AcceptProducer(p) PROVE TypeOK'
  BY <1>1 DEF AcceptProducer, TypeOK, States, pvars, cvars, history
<1>2. ASSUME NEW p \in Producers, HandleProducerConn(p) PROVE TypeOK'
  BY <1>2 DEF HandleProducerConn, TypeOK, States, pvars, cvars, history
<1>3. ASSUME NEW p \in Producers, ReadFrame(p) PROVE TypeOK'
  <2>1. buf' \in [Producers -> 0..MaxFrames]
    BY <1>3, <1>t DEF ReadFrame
  <2>2. \A q \in Producers : ppc'[q] \in {"broadcast", "send"} => buf'[q] > 0
    BY <1>3, <1>t, <1>u DEF ReadFrame
  <2> QED BY <1>3, <2>1, <2>2 DEF ReadFrame, TypeOK, States, pvars, cvars, history
<1>4. ASSUME NEW p \in Producers, ReadFrameError(p) PROVE TypeOK'
  BY <1>4 DEF ReadFrameError, TypeOK, States, pvars, cvars, history
<1>5. ASSUME NEW p \in Producers, BroadcastSnapshot(p) PROVE TypeOK'
  BY <1>5 DEF BroadcastSnapshot, TypeOK, States, pvars, cvars, history
<1>6. ASSUME NEW p \in Producers, BroadcastSend(p) PROVE TypeOK'
  <2>1. PICK c \in todo[p] : SendOK(p, c) \/ SendFull(p, c) \/ SendClosed(p, c)
    BY <1>6 DEF BroadcastSend
  <2>2. /\ c \in Consumers
        /\ ppc[p] = "send"
        /\ buf[p] \in 1..MaxFrames
    BY <1>6, <1>t DEF BroadcastSend
  <2> DEFINE m == [from |-> p, seq |-> buf[p]]
  <2>m. m \in Message
    BY <2>2 DEF Message
  <2>3. CASE SendOK(p, c)
    <3> HIDE DEF m
    <3>1. chan' = [chan EXCEPT ![c] = Append(chan[c], m)]
      BY <2>3 DEF SendOK, MsgCopy, m
    <3>2. /\ Append(chan[c], m) \in Seq(Message)
          /\ Len(Append(chan[c], m)) <= ChanCap
      BY <1>t, <2>2, <2>m, <2>3 DEF SendOK, HasRoom
    <3>3. /\ chan' \in [Consumers -> Seq(Message)]
          /\ \A d \in Consumers : Len(chan'[d]) <= ChanCap
      BY <1>t, <2>2, <3>1, <3>2
    <3>4. /\ todo' \in [Producers -> SUBSET Consumers]
          /\ ppc' \in [Producers -> States({"read", "broadcast", "send"})]
          /\ \A q \in Producers : ppc'[q] \in {"broadcast", "send"} => buf[q] > 0
      BY <1>t, <1>u, <2>2, <2>3 DEF SendOK, RestOf, States
    <3> QED BY <2>3, <3>3, <3>4 DEF SendOK, TypeOK, States, pvars, cvars, history
  <2>4. CASE SendFull(p, c)
    <3>0. overflow' = overflow \cup {<<c, m>>}
      BY <2>4 DEF SendFull
    <3> HIDE DEF m
    <3>1. overflow' \subseteq Consumers \X Message
      <4>1. overflow \subseteq Consumers \X Message
        BY DEF TypeOK
      <4> QED BY <2>2, <2>m, <3>0, <4>1
    <3>2. /\ todo' \in [Producers -> SUBSET Consumers]
          /\ ppc' \in [Producers -> States({"read", "broadcast", "send"})]
          /\ \A q \in Producers : ppc'[q] \in {"broadcast", "send"} => buf[q] > 0
      BY <1>t, <1>u, <2>2, <2>4 DEF SendFull, States
    <3> QED BY <2>4, <3>1, <3>2 DEF SendFull, TypeOK, States, pvars, cvars, history
  <2>5. CASE SendClosed(p, c)
    BY <2>5 DEF SendClosed, TypeOK, States, pvars, cvars, history
  <2> QED BY <2>1, <2>3, <2>4, <2>5
<1>7. ASSUME NEW c \in Consumers, AcceptConsumer(c) PROVE TypeOK'
  BY <1>7 DEF AcceptConsumer, TypeOK, States, pvars, cvars, history
<1>8. ASSUME NEW c \in Consumers, HandleConsumerConn(c) PROVE TypeOK'
  BY <1>8 DEF HandleConsumerConn, TypeOK, States, pvars, cvars, history
<1>9. ASSUME NEW c \in Consumers, RegisterConsumer(c) PROVE TypeOK'
  BY <1>9 DEF RegisterConsumer, TypeOK, States, pvars, cvars, history
<1>10. ASSUME NEW c \in Consumers, RangeMsg(c) PROVE TypeOK'
  <2>1. /\ <<Head(chan[c])>> \in Seq(Message)
        /\ Len(<<Head(chan[c])>>) = 1
        /\ Tail(chan[c]) \in Seq(Message)
        /\ Len(Tail(chan[c])) <= ChanCap
    BY <1>10, <1>t, TailType DEF RangeMsg
  <2>2. /\ hand' \in [Consumers -> Seq(Message)]
        /\ \A d \in Consumers : Len(hand'[d]) <= 1
        /\ \A d \in Consumers : cpc'[d] = "write" => hand'[d] # <<>>
    BY <1>10, <1>t, <1>v, <2>1 DEF RangeMsg
  <2>3. /\ chan' \in [Consumers -> Seq(Message)]
        /\ \A d \in Consumers : Len(chan'[d]) <= ChanCap
    BY <1>10, <1>t, <2>1 DEF RangeMsg
  <2>4. cpc' \in [Consumers -> States({"register", "recv", "write", "unregister"})]
    BY <1>10 DEF RangeMsg, TypeOK, States
  <2> QED BY <1>10, <2>2, <2>3, <2>4 DEF RangeMsg, TypeOK, pvars, history
<1>11. ASSUME NEW c \in Consumers, RangeEnd(c) PROVE TypeOK'
  BY <1>11 DEF RangeEnd, TypeOK, States, pvars, cvars, history
<1>12. ASSUME NEW c \in Consumers, WriteFrame(c) PROVE TypeOK'
  <2>1. hand[c] # <<>> /\ Head(hand[c]) \in Message
    BY <1>12, <1>t, TailType DEF WriteFrame
  <2>2. Bytes(Head(hand[c])) = Head(hand[c])
    BY <2>1, BytesOfCopy
  <2>3. Append(written[c], Bytes(Head(hand[c]))) \in Seq(Message)
    BY <1>t, <2>1, <2>2
  <2>4. written' \in [Consumers -> Seq(Message)]
    BY <1>12, <1>t, <2>3 DEF WriteFrame
  <2>5. /\ hand' \in [Consumers -> Seq(Message)]
        /\ \A d \in Consumers : Len(hand'[d]) <= 1
        /\ \A d \in Consumers : cpc'[d] = "write" => hand'[d] # <<>>
    <3>1. CASE hand' = [hand EXCEPT ![c] = <<>>] /\ cpc' = [cpc EXCEPT ![c] = "recv"]
      BY <1>t, <1>v, <3>1
    <3>2. CASE hand' = hand /\ cpc' = [cpc EXCEPT ![c] = "unregister"]
      BY <1>t, <1>v, <3>2
    <3> QED BY <1>12, <3>1, <3>2 DEF WriteFrame
  <2>6. /\ cpc' \in [Consumers -> States({"register", "recv", "write", "unregister"})]
        /\ broken' \subseteq Consumers
    BY <1>12 DEF WriteFrame, TypeOK, States
  <2> QED BY <1>12, <2>4, <2>5, <2>6 DEF WriteFrame, TypeOK, pvars, history
<1>13. ASSUME NEW c \in Consumers, UnregisterConsumer(c) PROVE TypeOK'
  <2>1. /\ cpc' \in [Consumers -> States({"register", "recv", "write", "unregister"})]
        /\ \A d \in Consumers : cpc'[d] = "write" => hand'[d] # <<>>
    BY <1>13, <1>t, <1>v DEF UnregisterConsumer, States
  <2>2. /\ life' \in {"serving", "stopping", "closed", "exited",
                     "send on closed channel", "close of closed channel"}
        /\ closed' \subseteq Consumers
        /\ registry' \subseteq Consumers
    <3>0. /\ life \in {"serving", "stopping", "closed", "exited",
                      "send on closed channel", "close of closed channel"}
          /\ closed \subseteq Consumers
          /\ registry \subseteq Consumers
      BY DEF TypeOK
    <3>1. CASE c \in registry
      BY <1>13, <3>0, <3>1 DEF UnregisterConsumer
    <3>2. CASE c \notin registry
      BY <1>13, <3>0, <3>2 DEF UnregisterConsumer
    <3> QED BY <3>1, <3>2
  <2> QED BY <1>13, <2>1, <2>2 DEF UnregisterConsumer, TypeOK, pvars, history
<1>14. CASE StopSignal
  BY <1>14 DEF StopSignal, TypeOK, States, pvars, cvars, history
<1>15. CASE CloseBroker
  BY <1>15 DEF CloseBroker, RegistryCleared, TypeOK, States, pvars, cvars, history
<1>16. CASE Exit
  BY <1>16 DEF Exit, TypeOK, States, pvars, cvars, history
<1>17. CASE UNCHANGED vars
  BY <1>17 DEF vars, TypeOK, States, pvars, cvars, history
<1> QED
  BY <1>1, <1>2, <1>3, <1>4, <1>5, <1>6, <1>7, <1>8, <1>9, <1>10, <1>11,
     <1>12, <1>13, <1>14, <1>15, <1>16, <1>17 DEF Next

\* The type invariant: in particular no consumer's channel ever buffers more
\* frames than it was made for, however many broadcasts run at once.
THEOREM TypeCorrect == Spec => []TypeOK
  BY TypeInit, TypeStep, PTL DEF Spec

-----------------------------------------------------------------------------
(* Who may close a channel.                                                *)

\* Nothing is registered, closed or about to be sent to initially.
LEMMA OwnershipInit == Init => Ownership
  BY DEF Init, Ownership

\* Every step keeps the channels owned as Ownership says.
LEMMA OwnershipStep ==
  TypeOK /\ Ownership /\ [Next]_vars => Ownership'
<1> SUFFICES ASSUME TypeOK, Ownership, [Next]_vars PROVE Ownership'
  OBVIOUS
<1>t. /\ cpc \in [Consumers -> States({"register", "recv", "write", "unregister"})]
      /\ todo \in [Producers -> SUBSET Consumers]
      /\ registry \subseteq Consumers /\ closed \subseteq Consumers
  BY DEF TypeOK
<1> USE <1>t DEF Ownership, pvars, cvars, history
<1>1. ASSUME NEW p \in Producers, AcceptProducer(p) PROVE Ownership'
  BY <1>1 DEF AcceptProducer
<1>2. ASSUME NEW p \in Producers, HandleProducerConn(p) PROVE Ownership'
  BY <1>2 DEF HandleProducerConn
<1>3. ASSUME NEW p \in Producers, ReadFrame(p) PROVE Ownership'
  BY <1>3 DEF ReadFrame
<1>4. ASSUME NEW p \in Producers, ReadFrameError(p) PROVE Ownership'
  BY <1>4 DEF ReadFrameError
<1>5. ASSUME NEW p \in Producers, BroadcastSnapshot(p) PROVE Ownership'
  BY <1>5 DEF BroadcastSnapshot
<1>6. ASSUME NEW p \in Producers, BroadcastSend(p) PROVE Ownership'
  <2>1. PICK c \in todo[p] : SendOK(p, c) \/ SendFull(p, c) \/ SendClosed(p, c)
    BY <1>6 DEF BroadcastSend
  <2>2. CASE SendOK(p, c) \/ SendFull(p, c)
    <3>1. UNCHANGED <<life, registry, closed, cpc>>
      BY <2>2 DEF SendOK, SendFull
    <3>2. \A q \in Producers : todo'[q] \subseteq todo[q]
      <4>1. todo' = [todo EXCEPT ![p] = todo[p] \ {c}]
            \/ todo' = [todo EXCEPT ![p] = {}]
        BY <2>2 DEF SendOK, SendFull, RestOf
      <4> QED BY <4>1
    <3> QED BY <3>1, <3>2
  <2>3. CASE SendClosed(p, c)
    BY <2>3 DEF SendClosed
  <2> QED BY <2>1, <2>2, <2>3
<1>7. ASSUME NEW c \in Consumers, AcceptConsumer(c) PROVE Ownership'
  BY <1>7 DEF AcceptConsumer
<1>8. ASSUME NEW c \in Consumers, HandleConsumerConn(c) PROVE Ownership'
  BY <1>8 DEF HandleConsumerConn
<1>9. ASSUME NEW c \in Consumers, RegisterConsumer(c) PROVE Ownership'
  BY <1>9 DEF RegisterConsumer
<1>10. ASSUME NEW c \in Consumers, RangeMsg(c) PROVE Ownership'
  BY <1>10 DEF RangeMsg
<1>11. ASSUME NEW c \in Consumers, RangeEnd(c) PROVE Ownership'
  BY <1>11 DEF RangeEnd, LoopEnds
<1>12. ASSUME NEW c \in Consumers, WriteFrame(c) PROVE Ownership'
  BY <1>12 DEF WriteFrame
<1>13. ASSUME NEW c \in Consumers, UnregisterConsumer(c) PROVE Ownership'
  <2>1. /\ cpc[c] = "unregister" /\ cpc'[c] = "done"
        /\ \A d \in Consumers : d # c => cpc'[d] = cpc[d]
        /\ todo' = todo
    BY <1>13 DEF UnregisterConsumer
  <2>2. CASE c \in registry
    <3>1. c \notin closed
      BY <2>2
    <3>2. /\ life' = life
          /\ closed' = closed \cup {c}
          /\ registry' = registry \ {c}
      BY <1>13, <2>2, <3>1 DEF UnregisterConsumer
    <3> QED BY <2>1, <3>2
  <2>3. CASE c \notin registry
    <3>1. UNCHANGED <<life, closed, registry>>
      BY <1>13, <2>3 DEF UnregisterConsumer
    <3>2. c \in closed
      BY <2>1, <2>3
    <3> QED BY <2>1, <2>3, <3>1, <3>2
  <2> QED BY <2>2, <2>3
<1>14. CASE StopSignal
  BY <1>14 DEF StopSignal
<1>15. CASE CloseBroker
  BY <1>15 DEF CloseBroker, RegistryCleared
<1>16. CASE Exit
  BY <1>16 DEF Exit
<1>17. CASE UNCHANGED vars
  BY <1>17 DEF vars
<1> QED
  BY <1>1, <1>2, <1>3, <1>4, <1>5, <1>6, <1>7, <1>8, <1>9, <1>10, <1>11,
     <1>12, <1>13, <1>14, <1>15, <1>16, <1>17 DEF Next

\* No interleaving of disconnecting consumers with the closing of the registry
\* closes a channel twice.
THEOREM ChannelsClosedOnce == Spec => []NoDoubleClose
<1>1. Ownership => NoDoubleClose
  BY DEF Ownership, NoDoubleClose
<1> QED
  BY <1>1, TypeInit, TypeStep, OwnershipInit, OwnershipStep, PTL DEF Spec

-----------------------------------------------------------------------------
(* What a handler leaves behind.                                           *)

\* No handler holds a frame initially.
LEMMA HandoverInit == Init => Handover
  BY DEF Init, Handover

\* Every step keeps what handlers hold and leave as Handover says.
LEMMA HandoverStep ==
  TypeOK /\ Ownership /\ Handover /\ [Next]_vars => Handover'
<1> SUFFICES ASSUME TypeOK, Ownership, Handover, [Next]_vars PROVE Handover'
  OBVIOUS
<1>t. /\ cpc \in [Consumers -> States({"register", "recv", "write", "unregister"})]
      /\ todo \in [Producers -> SUBSET Consumers]
      /\ hand \in [Consumers -> Seq(Message)]
      /\ chan \in [Consumers -> Seq(Message)]
      /\ broken \subseteq Consumers
  BY DEF TypeOK
<1> USE <1>t DEF Handover, pvars, cvars, history
<1>1. ASSUME NEW p \in Producers, AcceptProducer(p) PROVE Handover'
  BY <1>1 DEF AcceptProducer
<1>2. ASSUME NEW p \in Producers, HandleProducerConn(p) PROVE Handover'
  BY <1>2 DEF HandleProducerConn
<1>3. ASSUME NEW p \in Producers, ReadFrame(p) PROVE Handover'
  BY <1>3 DEF ReadFrame
<1>4. ASSUME NEW p \in Producers, ReadFrameError(p) PROVE Handover'
  BY <1>4 DEF ReadFrameError
<1>5. ASSUME NEW p \in Producers, BroadcastSnapshot(p) PROVE Handover'
  BY <1>5 DEF BroadcastSnapshot
<1>6. ASSUME NEW p \in Producers, BroadcastSend(p) PROVE Handover'
  <2>1. PICK c \in todo[p] : SendOK(p, c) \/ SendFull(p, c) \/ SendClosed(p, c)
    BY <1>6 DEF BroadcastSend
  <2>2. CASE SendOK(p, c)
    <3>1. c \in registry \cup closed
      BY DEF Ownership
    <3>2. cpc[c] \in {"recv", "write", "unregister"}
      BY <2>2, <3>1 DEF SendOK, Ownership
    <3>3. \A d \in Consumers : d # c => chan'[d] = chan[d]
      BY <2>2 DEF SendOK
    <3>4. /\ UNCHANGED <<cpc, hand, broken, closed>>
          /\ c \notin closed
      BY <2>2 DEF SendOK
    <3> QED BY <3>2, <3>3, <3>4
  <2>3. CASE SendFull(p, c) \/ SendClosed(p, c)
    BY <2>3 DEF SendFull, SendClosed
  <2> QED BY <2>1, <2>2, <2>3
<1>7. ASSUME NEW c \in Consumers, AcceptConsumer(c) PROVE Handover'
  BY <1>7 DEF AcceptConsumer
<1>8. ASSUME NEW c \in Consumers, HandleConsumerConn(c) PROVE Handover'
  BY <1>8 DEF HandleConsumerConn
<1>9. ASSUME NEW c \in Consumers, RegisterConsumer(c) PROVE Handover'
  BY <1>9 DEF RegisterConsumer
<1>10. ASSUME NEW c \in Consumers, RangeMsg(c) PROVE Handover'
  BY <1>10 DEF RangeMsg
<1>11. ASSUME NEW c \in Consumers, RangeEnd(c) PROVE Handover'
  BY <1>11 DEF RangeEnd, LoopEnds
<1>12. ASSUME NEW c \in Consumers, WriteFrame(c) PROVE Handover'
  BY <1>12 DEF WriteFrame
<1>13. ASSUME NEW c \in Consumers, UnregisterConsumer(c) PROVE Handover'
  <2>1. CASE c \in registry
    BY <1>13, <2>1 DEF UnregisterConsumer
  <2>2. CASE c \notin registry
    BY <1>13, <2>2 DEF UnregisterConsumer
  <2> QED BY <2>1, <2>2
<1>14. CASE StopSignal
  BY <1>14 DEF StopSignal
<1>15. CASE CloseBroker
  BY <1>15 DEF CloseBroker
<1>16. CASE Exit
  BY <1>16 DEF Exit
<1>17. CASE UNCHANGED vars
  BY <1>17 DEF vars
<1> QED
  BY <1>1, <1>2, <1>3, <1>4, <1>5, <1>6, <1>7, <1>8, <1>9, <1>10, <1>11,
     <1>12, <1>13, <1>14, <1>15, <1>16, <1>17 DEF Next

\* A consumer handler whose connection never failed leaves nothing unwritten
\* behind, whenever and by whomever its channel was closed.
THEOREM ChannelsDrained == Spec => []DrainBeforeLeave
<1>1. TypeOK /\ Handover => DrainBeforeLeave
  BY DEF Handover, DrainBeforeLeave
<1> QED
  BY <1>1, TypeInit, TypeStep, OwnershipInit, OwnershipStep, HandoverInit,
     HandoverStep, PTL DEF Spec

-----------------------------------------------------------------------------
(* The order of the frames on one consumer's connection.                   *)

\* No frame has been read or sent initially.
LEMMA StreamInit == Init => StreamOrder
<1> SUFFICES ASSUME Init, NEW c \in Consumers
             PROVE  /\ written[c] = <<>> /\ chan[c] = <<>> /\ hand[c] = <<>>
                    /\ InOrder(<<>>) /\ Before(<<>>, <<>>) /\ NotAhead(<<>>, c)
  BY DEF StreamOrder
<1>1. written[c] = <<>> /\ chan[c] = <<>> /\ hand[c] = <<>>
  BY DEF Init
<1>2. InOrder(<<>>)
  BY DEF InOrder
<1>3. Before(<<>>, <<>>) /\ NotAhead(<<>>, c)
  BY RangeShort DEF Before, NotAhead
<1> QED BY <1>1, <1>2, <1>3

\* Steps that move no frame, and after which no handler owes a frame it did
\* not owe before, keep the streams in order.
LEMMA StreamQuiet ==
  ASSUME StreamOrder,
         UNCHANGED <<written, hand, chan, buf>>,
         \A p, c : Owes(p, c)' => Owes(p, c)
  PROVE  StreamOrder'
<1>1. ASSUME NEW s, NEW c, NotAhead(s, c) PROVE NotAhead(s, c)'
  BY <1>1 DEF NotAhead
<1> QED BY <1>1 DEF StreamOrder, Before, InOrder

\* A frame in a sequence of frames names a producer and has been numbered.
LEMMA RangeMessage ==
  ASSUME NEW s \in Seq(Message), NEW m \in Range(s)
  PROVE  m.from \in Producers /\ m.seq \in 1..MaxFrames
  BY RangeType DEF Message

\* Every step keeps the frames of each consumer in order, wherever they are.
LEMMA StreamStep ==
  TypeOK /\ Handover /\ StreamOrder /\ [Next]_vars => StreamOrder'
<1> SUFFICES ASSUME TypeOK, Handover, StreamOrder, [Next]_vars
             PROVE  StreamOrder'
  OBVIOUS
<1>t. /\ buf \in [Producers -> 0..MaxFrames]
      /\ ppc \in [Producers -> States({"read", "broadcast", "send"})]
      /\ todo \in [Producers -> SUBSET Consumers]
      /\ \A p \in Producers : ppc[p] \in {"broadcast", "send"} => buf[p] > 0
      /\ cpc \in [Consumers -> States({"register", "recv", "write", "unregister"})]
      /\ chan \in [Consumers -> Seq(Message)]
      /\ hand \in [Consumers -> Seq(Message)]
      /\ \A c \in Consumers : Len(hand[c]) <= 1
      /\ \A c \in Consumers : cpc[c] = "write" => hand[c] # <<>>
      /\ written \in [Consumers -> Seq(Message)]
      /\ MaxFrames \in Nat
  BY BroadcastAssumption DEF TypeOK
<1>s. ASSUME NEW c \in Consumers
      PROVE  /\ InOrder(written[c]) /\ InOrder(chan[c])
             /\ Before(written[c], hand[c])
             /\ Before(written[c], chan[c])
             /\ Before(hand[c], chan[c])
             /\ NotAhead(written[c], c) /\ NotAhead(hand[c], c)
             /\ NotAhead(chan[c], c)
  BY DEF StreamOrder
<1> DEFINE Behind(s, c) ==
      \A m \in Range(s) : /\ m.seq <= buf'[m.from]
                          /\ Owes(m.from, c)' => m.seq < buf'[m.from]
<1>b. ASSUME \A c \in Consumers :
               /\ InOrder(written'[c]) /\ InOrder(chan'[c])
               /\ Before(written'[c], hand'[c])
               /\ Before(written'[c], chan'[c])
               /\ Before(hand'[c], chan'[c])
               /\ Behind(written'[c], c) /\ Behind(hand'[c], c)
               /\ Behind(chan'[c], c)
      PROVE  StreamOrder'
  BY <1>b DEF StreamOrder, InOrder, Before, NotAhead
<1> HIDE DEF Behind
<1> USE DEF pvars, cvars, history
<1>1. ASSUME NEW p \in Producers, AcceptProducer(p) PROVE StreamOrder'
  BY <1>1, <1>t, StreamQuiet DEF AcceptProducer, Owes
<1>2. ASSUME NEW p \in Producers, HandleProducerConn(p) PROVE StreamOrder'
  BY <1>2, <1>t, StreamQuiet DEF HandleProducerConn, Owes
<1>3. ASSUME NEW p \in Producers, ReadFrame(p) PROVE StreamOrder'
  <2>1. /\ UNCHANGED <<written, hand, chan, todo>>
        /\ buf' = [buf EXCEPT ![p] = buf[p] + 1]
        /\ \A q \in Producers \ {p} : ppc'[q] = ppc[q]
    BY <1>3, <1>t DEF ReadFrame
  <2>2. ASSUME NEW c \in Consumers, NEW s \in Seq(Message), NotAhead(s, c)
        PROVE  Behind(s, c)
    <3> SUFFICES ASSUME NEW m \in Range(s)
                 PROVE  /\ m.seq <= buf'[m.from]
                        /\ Owes(m.from, c)' => m.seq < buf'[m.from]
      BY DEF Behind
    <3>1. /\ m.from \in Producers
          /\ m.seq \in Nat
          /\ m.seq <= buf[m.from]
          /\ Owes(m.from, c) => m.seq < buf[m.from]
      BY <1>t, <2>2, RangeMessage DEF NotAhead
    <3>2. CASE m.from = p
      <4>1. buf'[p] = buf[p] + 1 /\ buf[p] \in Nat
        BY <1>t, <2>1
      <4> QED BY <3>1, <3>2, <4>1
    <3>3. CASE m.from # p
      BY <1>t, <2>1, <3>1, <3>3 DEF Owes
    <3> QED BY <3>2, <3>3
  <2> QED BY <1>t, <1>s, <1>b, <2>1, <2>2
<1>4. ASSUME NEW p \in Producers, ReadFrameError(p) PROVE StreamOrder'
  BY <1>4, <1>t, StreamQuiet DEF ReadFrameError, Owes
<1>5. ASSUME NEW p \in Producers, BroadcastSnapshot(p) PROVE StreamOrder'
  <2>1. \A q, c : Owes(q, c)' => Owes(q, c)
    BY <1>5, <1>t DEF BroadcastSnapshot, Owes
  <2> QED BY <1>5, <2>1, StreamQuiet DEF BroadcastSnapshot
<1>6. ASSUME NEW p \in Producers, BroadcastSend(p) PROVE StreamOrder'
  <2>1. PICK c \in todo[p] : SendOK(p, c) \/ SendFull(p, c) \/ SendClosed(p, c)
    BY <1>6 DEF BroadcastSend
  <2>2. /\ c \in Consumers
        /\ ppc[p] = "send"
        /\ buf[p] \in 1..MaxFrames
    BY <1>6, <1>t DEF BroadcastSend
  <2>m. PICK m \in Message : m = [from |-> p, seq |-> buf[p]]
    BY <2>2 DEF Message
  <2>3. m.from = p /\ m.seq = buf[p]
    BY <2>m
  <2>4. CASE SendOK(p, c)
    <3>1. /\ chan' = [chan EXCEPT ![c] = Append(chan[c], m)]
          /\ UNCHANGED <<written, hand, buf>>
          /\ todo' = [todo EXCEPT ![p] = todo[p] \ {c}]
          /\ ppc' = [ppc EXCEPT ![p] = IF todo[p] \ {c} = {} THEN "read" ELSE "send"]
      BY <2>4, <2>m DEF SendOK, MsgCopy, RestOf
    <3>2. /\ \A q, d : Owes(q, d)' => Owes(q, d)
          /\ ~Owes(p, c)'
      BY <1>t, <3>1, <2>2 DEF Owes
    <3>3. \A d, s : NotAhead(s, d) => Behind(s, d)
      BY <3>1, <3>2 DEF NotAhead, Behind
    <3>4. ASSUME NEW s \in Seq(Message), NotAhead(s, c)
          PROVE  \A n \in Range(s) : n.from = p => n.seq < buf[p]
      BY <2>1, <2>2, <3>4 DEF NotAhead, Owes
    <3>5. Range(chan'[c]) = Range(chan[c]) \cup {m}
      BY <1>t, <2>2, <2>3, <3>1, RangeAppend
    <3>6. InOrder(chan'[c])
      BY <1>t, <1>s, <2>2, <2>3, <3>1, <3>4, AppendOrder
    <3>7. Before(written[c], chan'[c]) /\ Before(hand[c], chan'[c])
      BY <1>t, <1>s, <2>2, <2>3, <3>4, <3>5 DEF Before
    <3>8. Behind(chan'[c], c)
      <4>1. Behind(chan[c], c)
        BY <1>s, <2>2, <3>3
      <4>2. m.seq <= buf'[m.from] /\ ~Owes(m.from, c)'
        <5>1. buf'[m.from] = m.seq /\ m.seq \in Nat
          BY <1>t, <2>2, <2>3, <3>1
        <5> QED BY <2>3, <3>2, <5>1 DEF Owes
      <4>3. \A n \in Range(chan'[c]) : n \in Range(chan[c]) \/ n = m
        BY <3>5
      <4> QED BY <4>1, <4>2, <4>3 DEF Behind, Owes
    <3>9. \A d \in Consumers : d # c => chan'[d] = chan[d]
      BY <1>t, <3>1
    <3> QED BY <1>s, <1>b, <3>1, <3>3, <3>6, <3>7, <3>8, <3>9
  <2>5. CASE SendFull(p, c)
    <3>1. \A q, d : Owes(q, d)' => Owes(q, d)
      BY <1>t, <2>5 DEF SendFull, Owes
    <3> QED BY <2>5, <3>1, StreamQuiet DEF SendFull
  <2>6. CASE SendClosed(p, c)
    BY <2>6, StreamQuiet DEF SendClosed, Owes
  <2> QED BY <2>1, <2>4, <2>5, <2>6
<1>7. ASSUME NEW c \in Consumers, AcceptConsumer(c) PROVE StreamOrder'
  BY <1>7, StreamQuiet DEF AcceptConsumer, Owes
<1>8. ASSUME NEW c \in Consumers, HandleConsumerConn(c) PROVE StreamOrder'
  BY <1>8, StreamQuiet DEF HandleConsumerConn, Owes
<1>9. ASSUME NEW c \in Consumers, RegisterConsumer(c) PROVE StreamOrder'
  BY <1>9, StreamQuiet DEF RegisterConsumer, Owes
<1>10. ASSUME NEW c \in Consumers, RangeMsg(c) PROVE StreamOrder'
  <2>1. /\ chan[c] # <<>>
        /\ hand' = [hand EXCEPT ![c] = <<Head(chan[c])>>]
        /\ chan' = [chan EXCEPT ![c] = Tail(chan[c])]
        /\ UNCHANGED <<written, buf, ppc, todo>>
    BY <1>10 DEF RangeMsg
  <2>2. \A d, s : NotAhead(s, d) => Behind(s, d)
    BY <2>1 DEF NotAhead, Behind, Owes
  <2>3. /\ Range(hand'[c]) = {Head(chan[c])}
        /\ Range(chan[c]) = {Head(chan[c])} \cup Range(chan'[c])
    BY <1>t, <2>1, RangeShort, RangeTail
  <2>4. InOrder(chan'[c]) /\ Before(hand'[c], chan'[c])
    BY <1>t, <1>s, <2>1, TailOrder
  <2>5. Before(written[c], hand'[c]) /\ Before(written[c], chan'[c])
    BY <1>s, <2>3 DEF Before
  <2>6. Behind(hand'[c], c) /\ Behind(chan'[c], c)
    BY <1>s, <2>2, <2>3 DEF Behind
  <2>7. \A d \in Consumers : d # c => hand'[d] = hand[d] /\ chan'[d] = chan[d]
    BY <1>t, <2>1
  <2> QED BY <1>s, <1>b, <2>1, <2>2, <2>4, <2>5, <2>6, <2>7
<1>11. ASSUME NEW c \in Consumers, RangeEnd(c) PROVE StreamOrder'
  BY <1>11, StreamQuiet DEF RangeEnd, Owes
<1>12. ASSUME NEW c \in Consumers, WriteFrame(c) PROVE StreamOrder'
  <2> DEFINE m == Head(hand[c])
  <2>1. /\ UNCHANGED <<chan, buf, ppc, todo>>
        /\ hand[c] # <<>>
        /\ m \in Message
    BY <1>12, <1>t, TailType DEF WriteFrame
  <2>2. CASE UNCHANGED <<hand, written>>
    BY <2>1, <2>2, StreamQuiet DEF Owes
  <2>3. CASE /\ written' = [written EXCEPT ![c] = Append(written[c], Bytes(m))]
             /\ hand' = [hand EXCEPT ![c] = <<>>]
    <3>1. Bytes(m) = m
      BY <2>1, BytesOfCopy
    <3>a. m \in Range(hand[c])
      BY <1>t, <2>1, RangeTail
    <3> HIDE DEF m
    <3>2. /\ written'[c] = Append(written[c], m)
          /\ Range(written'[c]) = Range(written[c]) \cup {m}
          /\ m \in Range(hand[c])
          /\ Range(hand'[c]) = {}
      <4>1. written'[c] = Append(written[c], m) /\ hand'[c] = <<>>
        BY <1>t, <2>3, <3>1
      <4>2. Range(Append(written[c], m)) = Range(written[c]) \cup {m}
        BY <1>t, <2>1, RangeAppend
      <4> QED BY <3>a, <4>1, <4>2, RangeShort
    <3>3. InOrder(written'[c])
      BY <1>t, <1>s, <2>1, <3>2, AppendOrder DEF Before
    <3>4. /\ Before(written'[c], chan[c])
          /\ Before(written'[c], hand'[c])
          /\ Before(hand'[c], chan[c])
      BY <1>s, <3>2 DEF Before
    <3>5. \A d, s : NotAhead(s, d) => Behind(s, d)
      BY <2>1 DEF NotAhead, Behind, Owes
    <3>6. Behind(written'[c], c) /\ Behind(hand'[c], c)
      BY <1>s, <3>2, <3>5 DEF Behind
    <3>7. \A d \in Consumers : d # c => hand'[d] = hand[d] /\ written'[d] = written[d]
      BY <1>t, <2>3
    <3> QED BY <1>s, <1>b, <2>1, <3>3, <3>4, <3>5, <3>6, <3>7
  <2> QED BY <1>12, <2>2, <2>3 DEF WriteFrame
<1>13. ASSUME NEW c \in Consumers, UnregisterConsumer(c) PROVE StreamOrder'
  BY <1>13, StreamQuiet DEF UnregisterConsumer, Owes
<1>14. CASE StopSignal
  BY <1>14, StreamQuiet DEF StopSignal, Owes
<1>15. CASE CloseBroker
  BY <1>15, StreamQuiet DEF CloseBroker, Owes
<1>16. CASE Exit
  BY <1>16, StreamQuiet DEF Exit, Owes
<1>17. CASE UNCHANGED vars
  BY <1>17, StreamQuiet DEF vars, Owes
<1> QED
  BY <1>1, <1>2, <1>3, <1>4, <1>5, <1>6, <1>7, <1>8, <1>9, <1>10, <1>11,
     <1>12, <1>13, <1>14, <1>15, <1>16, <1>17 DEF Next

\* Every consumer connection carries the frames of a producer in the order
\* they were sent, none twice, for any number of connections and frames.
THEOREM FramesInProducerOrder == Spec => []ProducerOrder
<1>1. StreamOrder => ProducerOrder
  BY DEF StreamOrder, ProducerOrder
<1> QED
  BY <1>1, TypeInit, TypeStep, OwnershipInit, OwnershipStep, HandoverInit,
     HandoverStep, StreamInit, StreamStep, PTL DEF Spec

-----------------------------------------------------------------------------
(* Where frames get lost.                                                  *)

\* A frame is never dropped between the channel, the handler and the
\* connection of a consumer: once held for it, it stays held or is written.
LEMMA HoldsStable ==
  TypeOK /\ Handover /\ [Next]_vars =>
    \A c \in Consumers : \A m : Holds(c, m) => Holds(c, m)'
<1> SUFFICES ASSUME TypeOK, Handover, [Next]_vars
             PROVE  \A d \in Consumers : \A m : Holds(d, m) => Holds(d, m)'
  OBVIOUS
<1>t. /\ chan \in [Consumers -> Seq(Message)]
      /\ hand \in [Consumers -> Seq(Message)]
      /\ \A c \in Consumers : Len(hand[c]) <= 1
      /\ \A c \in Consumers : cpc[c] = "write" => hand[c] # <<>>
      /\ written \in [Consumers -> Seq(Message)]
  BY DEF TypeOK
<1> USE DEF pvars, cvars, history
<1>1. CASE UNCHANGED <<chan, hand, written>>
  BY <1>1 DEF Holds
<1>2. ASSUME NEW p \in Producers, BroadcastSend(p)
      PROVE  \A d \in Consumers : \A m : Holds(d, m) => Holds(d, m)'
  <2>1. PICK c \in todo[p] : SendOK(p, c) \/ SendFull(p, c) \/ SendClosed(p, c)
    BY <1>2 DEF BroadcastSend
  <2>2. CASE SendOK(p, c)
    <3>1. c \in Consumers /\ MsgCopy(p) \in Message
      <4>1. /\ buf \in [Producers -> 0..MaxFrames]
            /\ buf[p] > 0
            /\ todo \in [Producers -> SUBSET Consumers]
            /\ MaxFrames \in Nat
        BY <1>2, BroadcastAssumption DEF TypeOK, BroadcastSend
      <4>2. buf[p] \in 1..MaxFrames
        BY <4>1
      <4> QED BY <4>1, <4>2 DEF MsgCopy, Message
    <3>2. Range(Append(chan[c], MsgCopy(p))) = Range(chan[c]) \cup {MsgCopy(p)}
      BY <1>t, <3>1, RangeAppend
    <3>3. /\ UNCHANGED <<hand, written>>
          /\ chan'[c] = Append(chan[c], MsgCopy(p))
          /\ \A d \in Consumers : d # c => chan'[d] = chan[d]
      BY <1>t, <2>2, <3>1 DEF SendOK
    <3> QED BY <3>2, <3>3 DEF Holds
  <2>3. CASE SendFull(p, c) \/ SendClosed(p, c)
    BY <1>1, <2>3 DEF SendFull, SendClosed
  <2> QED BY <2>1, <2>2, <2>3
<1>3. ASSUME NEW c \in Consumers, RangeMsg(c)
      PROVE  \A d \in Consumers : \A m : Holds(d, m) => Holds(d, m)'
  <2>1. /\ hand[c] = <<>>
        /\ chan[c] # <<>>
        /\ hand'[c] = <<Head(chan[c])>>
        /\ chan'[c] = Tail(chan[c])
        /\ written' = written
        /\ \A d \in Consumers : d # c => chan'[d] = chan[d] /\ hand'[d] = hand[d]
    BY <1>3, <1>t DEF RangeMsg, Handover
  <2>2. /\ Range(chan[c]) = Range(hand'[c]) \cup Range(chan'[c])
        /\ Range(hand[c]) = {}
    BY <1>t, <2>1, RangeTail, RangeShort
  <2> QED BY <2>1, <2>2 DEF Holds
<1>4. ASSUME NEW c \in Consumers, WriteFrame(c)
      PROVE  \A d \in Consumers : \A m : Holds(d, m) => Holds(d, m)'
  <2>1. hand[c] # <<>> /\ Head(hand[c]) \in Message /\ Tail(hand[c]) = <<>>
    BY <1>4, <1>t, TailType DEF WriteFrame
  <2>2. CASE UNCHANGED <<hand, written>>
    BY <1>1, <1>4, <2>2 DEF WriteFrame
  <2>3. CASE /\ written' = [written EXCEPT
                              ![c] = Append(written[c], Bytes(Head(hand[c])))]
             /\ hand' = [hand EXCEPT ![c] = <<>>]
    <3>1. Range(hand[c]) = {Head(hand[c])}
      <4>1. hand[c] \in Seq(Message)
        BY <1>t
      <4>2. Range(hand[c]) = {Head(hand[c])} \cup Range(Tail(hand[c]))
        BY <2>1, <4>1, RangeTail
      <4> QED BY <2>1, <4>2, RangeShort
    <3>2. /\ written'[c] = Append(written[c], Head(hand[c]))
          /\ \A d \in Consumers : d # c => /\ hand'[d] = hand[d]
                                           /\ written'[d] = written[d]
      BY <1>t, <2>1, <2>3, BytesOfCopy
    <3>3. Range(written'[c]) = Range(written[c]) \cup Range(hand[c])
      BY <1>t, <2>1, <3>1, <3>2, RangeAppend
    <3>4. chan' = chan
      BY <1>4 DEF WriteFrame
    <3> QED BY <3>2, <3>3, <3>4 DEF Holds
  <2> QED BY <1>4, <2>2, <2>3 DEF WriteFrame
<1>5. CASE \E p \in Producers :
             \/ AcceptProducer(p) \/ HandleProducerConn(p)
             \/ ReadFrame(p) \/ ReadFrameError(p) \/ BroadcastSnapshot(p)
  BY <1>1, <1>5 DEF AcceptProducer, HandleProducerConn, ReadFrame,
     ReadFrameError, BroadcastSnapshot
<1>6. CASE \E c \in Consumers :
             \/ AcceptConsumer(c) \/ HandleConsumerConn(c)
             \/ RegisterConsumer(c) \/ RangeEnd(c) \/ UnregisterConsumer(c)
  BY <1>1, <1>6 DEF AcceptConsumer, HandleConsumerConn, RegisterConsumer,
     RangeEnd, UnregisterConsumer
<1>7. CASE StopSignal \/ CloseBroker \/ Exit \/ UNCHANGED vars
  BY <1>1, <1>7 DEF StopSignal, CloseBroker, Exit, vars
<1> QED BY <1>2, <1>3, <1>4, <1>5, <1>6, <1>7 DEF Next

\* No frame has been sent initially.
LEMMA AccountedInit == Init => Accounted
  BY DEF Init, Accounted

\* Steps that leave the producers' bookkeeping alone lose no frame.
LEMMA AccountedQuiet ==
  ASSUME Accounted,
         \A c, m : Holds(c, m) /\ c \in Consumers => Holds(c, m)',
         audience \in [Producers -> [1..MaxFrames -> SUBSET Consumers]],
         UNCHANGED <<audience, buf, todo, overflow>>,
         \A p \in Producers :
           /\ ppc'[p] = "send" <=> ppc[p] = "send"
           /\ ppc'[p] = "broadcast" => ppc[p] = "broadcast"
  PROVE  Accounted'
<1> SUFFICES ASSUME NEW p \in Producers
             PROVE  /\ \A n \in 1..MaxFrames :
                         LET m == [from |-> p, seq |-> n] IN
                         /\ n > buf'[p] \/ (n = buf'[p] /\ ppc'[p] = "broadcast")
                              => audience'[p][n] = {}
                         /\ \A c \in audience'[p][n] :
                              \/ Holds(c, m)'
                              \/ n = buf'[p] /\ ppc'[p] = "send" /\ c \in todo'[p]
                              \/ \E d \in audience'[p][n] : <<d, m>> \in overflow'
                    /\ ppc'[p] = "send" => todo'[p] \subseteq audience'[p][buf'[p]]
  BY DEF Accounted
<1>1. \A n \in 1..MaxFrames : audience[p][n] \subseteq Consumers
  OBVIOUS
<1>2. ppc'[p] = "send" => todo'[p] \subseteq audience'[p][buf'[p]]
  BY DEF Accounted
<1>3. ASSUME NEW n \in 1..MaxFrames
      PROVE  n > buf'[p] \/ (n = buf'[p] /\ ppc'[p] = "broadcast") =>
               audience'[p][n] = {}
  BY DEF Accounted
<1>4. ASSUME NEW n \in 1..MaxFrames, NEW c \in audience[p][n],
             NEW m, m = [from |-> p, seq |-> n]
      PROVE  \/ Holds(c, m)'
             \/ n = buf'[p] /\ ppc'[p] = "send" /\ c \in todo'[p]
             \/ \E d \in audience'[p][n] : <<d, m>> \in overflow'
  BY <1>1, <1>4 DEF Accounted
<1> QED BY <1>2, <1>3, <1>4

\* Every step keeps the frames accounted for.
LEMMA AccountedStep ==
  TypeOK /\ Handover /\ Accounted /\ [Next]_vars => Accounted'
<1> SUFFICES ASSUME TypeOK, Handover, Accounted, [Next]_vars
             PROVE  Accounted'
  OBVIOUS
<1>h. \A c, m : Holds(c, m) /\ c \in Consumers => Holds(c, m)'
  BY HoldsStable
<1>t. /\ buf \in [Producers -> 0..MaxFrames]
      /\ ppc \in [Producers -> States({"read", "broadcast", "send"})]
      /\ todo \in [Producers -> SUBSET Consumers]
      /\ \A p \in Producers : ppc[p] \in {"broadcast", "send"} => buf[p] > 0
      /\ audience \in [Producers -> [1..MaxFrames -> SUBSET Consumers]]
      /\ registry \subseteq Consumers
      /\ MaxFrames \in Nat
  BY BroadcastAssumption DEF TypeOK
<1> DEFINE Frame(p, n) == [from |-> p, seq |-> n]
           Ok(p, n) ==
             /\ n > buf[p] \/ (n = buf[p] /\ ppc[p] = "broadcast") =>
                  audience[p][n] = {}
             /\ \A c \in audience[p][n] :
                  \/ Holds(c, Frame(p, n))
                  \/ n = buf[p] /\ ppc[p] = "send" /\ c \in todo[p]
                  \/ \E d \in audience[p][n] : <<d, Frame(p, n)>> \in overflow
<1>a. ASSUME NEW p \in Producers
      PROVE  /\ \A n \in 1..MaxFrames : Ok(p, n)
             /\ ppc[p] = "send" => todo[p] \subseteq audience[p][buf[p]]
  BY DEF Accounted
<1>b. ASSUME \A p \in Producers :
               /\ \A n \in 1..MaxFrames : Ok(p, n)'
               /\ ppc'[p] = "send" => todo'[p] \subseteq audience'[p][buf'[p]]
      PROVE  Accounted'
  BY <1>b DEF Accounted
<1>o. \A p \in Producers, n \in 1..MaxFrames : Ok(p, n)
  BY <1>a
<1>s. \A p \in Producers, n \in 1..MaxFrames : audience[p][n] \subseteq Consumers
  BY <1>t
\* The bookkeeping of one producer says nothing of another's.
<1>c. ASSUME NEW p \in Producers, overflow \subseteq overflow',
             \A q \in Producers \ {p} :
               /\ ppc'[q] = ppc[q] /\ buf'[q] = buf[q] /\ todo'[q] = todo[q]
               /\ audience'[q] = audience[q],
             \A n \in 1..MaxFrames : Ok(p, n)',
             ppc'[p] = "send" => todo'[p] \subseteq audience'[p][buf'[p]]
      PROVE  Accounted'
  <2>1. ASSUME NEW q \in Producers \ {p}, NEW n \in 1..MaxFrames
        PROVE  Ok(q, n)'
    <3>1. Ok(q, n) /\ audience[q][n] \subseteq Consumers
      BY <1>o, <1>s
    <3>2. \A c \in audience[q][n] : Holds(c, Frame(q, n)) => Holds(c, Frame(q, n))'
      BY <1>h, <3>1
    <3>3. /\ ppc'[q] = ppc[q] /\ buf'[q] = buf[q] /\ todo'[q] = todo[q]
          /\ audience'[q] = audience[q]
          /\ overflow \subseteq overflow'
      BY <1>c
    <3> QED BY <3>1, <3>2, <3>3
  <2>2. ASSUME NEW q \in Producers \ {p}
        PROVE  ppc'[q] = "send" => todo'[q] \subseteq audience'[q][buf'[q]]
    BY <1>a, <1>c
  <2>3. ASSUME NEW q \in Producers, NEW n \in 1..MaxFrames
        PROVE  Ok(q, n)'
    <3>1. CASE q = p
      BY <1>c, <3>1
    <3>2. CASE q # p
      BY <2>1, <3>2
    <3> QED BY <3>1, <3>2
  <2>4. ASSUME NEW q \in Producers
        PROVE  ppc'[q] = "send" => todo'[q] \subseteq audience'[q][buf'[q]]
    BY <1>c, <2>2
  <2> QED BY <1>b, <2>3, <2>4
<1> USE DEF pvars, cvars, history
<1>1. ASSUME NEW p \in Producers, AcceptProducer(p) PROVE Accounted'
  BY <1>1, <1>h, <1>t, AccountedQuiet DEF AcceptProducer
<1>2. ASSUME NEW p \in Producers, HandleProducerConn(p) PROVE Accounted'
  BY <1>2, <1>h, <1>t, AccountedQuiet DEF HandleProducerConn
<1>3. ASSUME NEW p \in Producers, ReadFrame(p) PROVE Accounted'
  <2>1. /\ ppc[p] = "read" /\ ppc'[p] = "broadcast"
        /\ buf[p] \in Nat /\ buf'[p] = buf[p] + 1
        /\ UNCHANGED <<todo, audience, overflow>>
        /\ \A q \in Producers \ {p} : ppc'[q] = ppc[q] /\ buf'[q] = buf[q]
    BY <1>3, <1>t DEF ReadFrame
  <2>2. ASSUME NEW n \in 1..MaxFrames PROVE Ok(p, n)'
    <3>1. Ok(p, n) /\ audience[p][n] \subseteq Consumers
      BY <1>o, <1>s
    <3>2. n > buf'[p] \/ n = buf'[p] => n > buf[p]
      BY <2>1
    <3> QED BY <1>h, <2>1, <3>1, <3>2
  <2> QED BY <1>c, <2>1, <2>2
<1>4. ASSUME NEW p \in Producers, ReadFrameError(p) PROVE Accounted'
  BY <1>4, <1>h, <1>t, AccountedQuiet DEF ReadFrameError
<1>5. ASSUME NEW p \in Producers, BroadcastSnapshot(p) PROVE Accounted'
  <2>1. /\ ppc[p] = "broadcast"
        /\ buf[p] \in 1..MaxFrames
        /\ UNCHANGED <<buf, overflow, registry>>
        /\ ppc'[p] = IF registry = {} THEN "read" ELSE "send"
        /\ todo'[p] = registry
        /\ audience'[p][buf[p]] = registry
        /\ \A n \in 1..MaxFrames : n # buf[p] => audience'[p][n] = audience[p][n]
        /\ \A q \in Producers \ {p} : /\ ppc'[q] = ppc[q]
                                      /\ todo'[q] = todo[q]
                                      /\ audience'[q] = audience[q]
    BY <1>5, <1>t DEF BroadcastSnapshot
  <2>2. ASSUME NEW n \in 1..MaxFrames PROVE Ok(p, n)'
    <3>1. Ok(p, n) /\ audience[p][n] \subseteq Consumers
      BY <1>o, <1>s
    <3>2. CASE n = buf[p]
      BY <2>1, <3>2
    <3>3. CASE n # buf[p]
      BY <1>h, <2>1, <3>1, <3>3
    <3> QED BY <3>2, <3>3
  <2> QED BY <1>c, <2>1, <2>2
<1>6. ASSUME NEW p \in Producers, BroadcastSend(p) PROVE Accounted'
  <2>1. PICK c \in todo[p] : SendOK(p, c) \/ SendFull(p, c) \/ SendClosed(p, c)
    BY <1>6 DEF BroadcastSend
  <2>2. /\ c \in Consumers
        /\ ppc[p] = "send"
        /\ buf[p] \in 1..MaxFrames
        /\ todo[p] \subseteq audience[p][buf[p]]
    BY <1>6, <1>t, <1>a DEF BroadcastSend
  <2>3. CASE SendOK(p, c)
    <3>1. /\ UNCHANGED <<buf, audience, overflow>>
          /\ todo'[p] = todo[p] \ {c}
          /\ ppc'[p] = IF todo'[p] = {} THEN "read" ELSE "send"
          /\ \A q \in Producers \ {p} : ppc'[q] = ppc[q] /\ todo'[q] = todo[q]
      BY <1>t, <2>2, <2>3 DEF SendOK, RestOf
    <3>2. Holds(c, Frame(p, buf[p]))'
      <4>1. Frame(p, buf[p]) \in Message /\ chan[c] \in Seq(Message)
        BY <2>2 DEF TypeOK, Message
      <4>2. chan'[c] = Append(chan[c], Frame(p, buf[p]))
        BY <2>2, <2>3 DEF SendOK, MsgCopy, TypeOK
      <4>3. Frame(p, buf[p]) \in Range(chan'[c])
        BY <4>1, <4>2, RangeAppend
      <4> QED BY <3>1, <4>3 DEF Holds
    <3>3. ASSUME NEW n \in 1..MaxFrames PROVE Ok(p, n)'
      <4>1. Ok(p, n) /\ audience[p][n] \subseteq Consumers
        BY <1>o, <1>s
      <4>2. CASE n = buf[p]
        BY <1>h, <2>2, <3>1, <3>2, <4>1, <4>2
      <4>3. CASE n # buf[p]
        BY <1>h, <2>2, <3>1, <4>1, <4>3
      <4> QED BY <4>2, <4>3
    <3>4. ppc'[p] = "send" => todo'[p] \subseteq audience'[p][buf'[p]]
      BY <2>2, <3>1
    <3>5. /\ overflow \subseteq overflow'
          /\ \A q \in Producers \ {p} :
               /\ ppc'[q] = ppc[q] /\ buf'[q] = buf[q] /\ todo'[q] = todo[q]
               /\ audience'[q] = audience[q]
      BY <3>1
    <3> QED BY <1>c, <3>3, <3>4, <3>5
  <2>4. CASE SendFull(p, c)
    <3>1. /\ UNCHANGED <<buf, audience>>
          /\ overflow' = overflow \cup {<<c, Frame(p, buf[p])>>}
          /\ ppc'[p] = "read"
          /\ \A q \in Producers \ {p} : ppc'[q] = ppc[q] /\ todo'[q] = todo[q]
      BY <1>t, <2>2, <2>4 DEF SendFull
    <3>2. ASSUME NEW n \in 1..MaxFrames PROVE Ok(p, n)'
      <4>1. Ok(p, n) /\ audience[p][n] \subseteq Consumers
        BY <1>o, <1>s
      <4>2. CASE n = buf[p]
        BY <2>1, <2>2, <3>1, <4>1, <4>2
      <4>3. CASE n # buf[p]
        BY <1>h, <2>2, <3>1, <4>1, <4>3
      <4> QED BY <4>2, <4>3
    <3> QED BY <1>c, <2>2, <3>1, <3>2
  <2>5. CASE SendClosed(p, c)
    BY <1>h, <1>t, <2>5, AccountedQuiet DEF SendClosed
  <2> QED BY <2>1, <2>3, <2>4, <2>5
<1>7. ASSUME NEW c \in Consumers,
             \/ AcceptConsumer(c) \/ HandleConsumerConn(c)
             \/ RegisterConsumer(c) \/ RangeMsg(c) \/ RangeEnd(c)
             \/ WriteFrame(c) \/ UnregisterConsumer(c)
      PROVE  Accounted'
  <2>1. UNCHANGED <<ppc, buf, todo, audience, overflow>>
    BY <1>7 DEF AcceptConsumer, HandleConsumerConn, RegisterConsumer, RangeMsg,
       RangeEnd, WriteFrame, UnregisterConsumer
  <2> QED BY <1>h, <1>t, <2>1, AccountedQuiet
<1>8. CASE StopSignal \/ CloseBroker \/ Exit \/ UNCHANGED vars
  <2>1. UNCHANGED <<ppc, buf, todo, audience, overflow>>
    BY <1>8 DEF StopSignal, CloseBroker, Exit, vars
  <2> QED BY <1>h, <1>t, <2>1, AccountedQuiet
<1> QED
  BY <1>1, <1>2, <1>3, <1>4, <1>5, <1>6, <1>7, <1>8 DEF Next

\* A broadcast that has returned reached the channel of every consumer that
\* was registered when it started, unless it found one of them full.
THEOREM FramesLostOnlyByOverflow == Spec => []LossOnlyByOverflow
<1>1. TypeOK /\ Accounted => LossOnlyByOverflow
  <2> SUFFICES ASSUME TypeOK, Accounted, NEW p \in Producers,
                      NEW n \in 1..MaxFrames, Returned(p, n)
               PROVE  LET m == [from |-> p, seq |-> n] IN
                      \/ \A c \in audience[p][n] : Holds(c, m)
                      \/ \E d \in audience[p][n] : <<d, m>> \in overflow
    BY DEF LossOnlyByOverflow
  <2>0. buf \in [Producers -> 0..MaxFrames] /\ MaxFrames \in Nat
    BY BroadcastAssumption DEF TypeOK
  <2>1. buf[p] \in Nat /\ n \in Nat
    BY <2>0
  <2>2. ~(n = buf[p] /\ ppc[p] = "send")
    BY <2>1 DEF Returned
  <2> QED BY <2>2 DEF Accounted
<1> QED
  BY <1>1, TypeInit, TypeStep, OwnershipInit, OwnershipStep, HandoverInit,
     HandoverStep, AccountedInit, AccountedStep, PTL DEF Spec

-----------------------------------------------------------------------------
(* The broker in broadcast mode implements the abstract fan-out.           *)

\* The inductive invariant, for what follows from all of its parts.
THEOREM Invariance == Spec => []IInv
<1>1. Init => IInv
  BY TypeInit, OwnershipInit, HandoverInit, StreamInit, AccountedInit DEF IInv
<1>2. IInv /\ [Next]_vars => IInv'
  BY TypeStep, OwnershipStep, HandoverStep, StreamStep, AccountedStep DEF IInv
<1> QED BY <1>1, <1>2, PTL DEF Spec

\* The frames pending on a stream that is not cut: those held and buffered.
LEMMA Mapped ==
  TypeOK => Pending = [c \in Consumers |-> IF c \in Cut THEN <<>> ELSE Held(c)]
<1> SUFFICES ASSUME TypeOK, NEW c \in Consumers
             PROVE  [i \in DOMAIN Held(c) |-> Bytes(Held(c)[i])] = Held(c)
  BY DEF Pending
<1>1. Held(c) \in Seq(Message)
  <2>1. hand[c] \in Seq(Message) /\ chan[c] \in Seq(Message)
    BY DEF TypeOK
  <2> QED BY <2>1 DEF Held
<1>2. \A i \in DOMAIN Held(c) : Bytes(Held(c)[i]) = Held(c)[i]
  <2>1. \A i \in DOMAIN Held(c) : Held(c)[i] \in Message
    BY <1>1
  <2> QED BY <2>1, BytesOfCopy
<1>3. Held(c) = [i \in DOMAIN Held(c) |-> Held(c)[i]]
  BY <1>1
<1> QED BY <1>2, <1>3

\* The same in the next state.
LEMMA MappedNext ==
  TypeOK' =>
    (Pending = [c \in Consumers |-> IF c \in Cut THEN <<>> ELSE Held(c)])'
  BY Mapped, PTL

\* The initial state maps to the initial state of the fan-out.
LEMMA StreamsInit == Init => Stream!Init
<1> SUFFICES ASSUME Init PROVE Stream!Init
  OBVIOUS
<1>1. Cut = {}
  BY DEF Init, Cut
<1>2. \A c \in Consumers : Held(c) = <<>>
  BY DEF Init, Held
<1>3. Pending = [c \in Consumers |-> <<>>]
  BY <1>1, <1>2, TypeInit, Mapped
<1> QED BY <1>1, <1>3 DEF Init, Stream!Init

\* A frame about to be sent to a channel is not in that consumer's stream yet.
LEMMA SendFresh ==
  ASSUME TypeOK, StreamOrder, NEW p \in Producers, ppc[p] = "send",
         NEW c \in todo[p], c \in Consumers
  PROVE  [from |-> p, seq |-> buf[p]] \notin Range(Held(c)) \cup Range(written[c])
<1> DEFINE m == [from |-> p, seq |-> buf[p]]
<1>1. /\ hand[c] \in Seq(Message) /\ chan[c] \in Seq(Message)
      /\ buf[p] \in 0..MaxFrames /\ MaxFrames \in Nat
  BY BroadcastAssumption DEF TypeOK
<1>2. Range(Held(c)) = Range(hand[c]) \cup Range(chan[c])
  BY <1>1, RangeConcat DEF Held
<1>3. ASSUME m \in Range(hand[c]) \cup Range(chan[c]) \cup Range(written[c])
      PROVE  buf[p] < buf[p]
  BY <1>3 DEF StreamOrder, NotAhead, Owes
<1>4. ~(buf[p] < buf[p])
  BY <1>1
<1> QED BY <1>2, <1>3, <1>4

\* Steps that leave every stream as it was are stutters of the fan-out.
LEMMA StreamsStutter ==
  ASSUME TypeOK, TypeOK', UNCHANGED <<buf, written>>, Cut' = Cut,
         \A c \in Consumers \ Cut : Held(c)' = Held(c)
  PROVE  UNCHANGED Stream!vars
<1>1. Pending' = Pending
  BY Mapped, MappedNext
<1> QED BY <1>1 DEF Stream!vars

\* Steps that end the stream of c and leave the others as they were.
LEMMA StreamsCut ==
  ASSUME TypeOK, TypeOK', UNCHANGED <<buf, written>>, NEW c \in Consumers,
         c \notin Cut, Cut' = Cut \cup {c},
         \A d \in Consumers \ {c} : Held(d)' = Held(d)
  PROVE  Stream!Next
<1>1. Pending' = [Pending EXCEPT ![c] = <<>>]
  BY Mapped, MappedNext
<1>2. Stream!Cut(c)
  BY <1>1 DEF Stream!Cut
<1> QED BY <1>2 DEF Stream!Next

\* Every step of the broker is one of the fan-out, or a stutter: ReadFrame
\* offers, SendOK accepts, WriteFrame delivers, and a handler that leaves or
\* whose connection breaks cuts the stream.
LEMMA StreamsStep == IInv /\ TypeOK' /\ [Next]_vars => [Stream!Next]_(Stream!vars)
<1> SUFFICES ASSUME IInv, TypeOK', [Next]_vars PROVE [Stream!Next]_(Stream!vars)
  OBVIOUS
<1> USE DEF pvars, cvars, history
<1>i. TypeOK /\ Handover /\ StreamOrder
  BY DEF IInv
<1>m. /\ Pending = [c \in Consumers |-> IF c \in Cut THEN <<>> ELSE Held(c)]
      /\ Pending' = [c \in Consumers |-> IF c \in Cut' THEN <<>> ELSE Held(c)']
  BY <1>i, Mapped, MappedNext
<1>t. /\ cpc \in [Consumers -> States({"register", "recv", "write", "unregister"})]
      /\ todo \in [Producers -> SUBSET Consumers]
      /\ chan \in [Consumers -> Seq(Message)]
      /\ hand \in [Consumers -> Seq(Message)]
      /\ written \in [Consumers -> Seq(Message)]
  BY <1>i DEF TypeOK
<1>o. ASSUME NEW c \in Consumers, cpc[c] \notin {"unregister", "done"}
      PROVE  c \notin Cut
  BY <1>i, <1>o DEF Handover, Cut
<1>1. ASSUME UNCHANGED <<buf, written, hand, chan, broken>>,
             \A c \in Consumers : cpc'[c] = "done" <=> cpc[c] = "done"
      PROVE  [Stream!Next]_(Stream!vars)
  <2>1. Cut' = Cut /\ \A c \in Consumers : Held(c)' = Held(c)
    BY <1>1 DEF Cut, Held
  <2> QED BY <1>1, <1>i, <2>1, StreamsStutter
\* One handler leaves, whether or not its connection had broken.
<1>2. ASSUME NEW c \in Consumers, cpc' = [cpc EXCEPT ![c] = "done"],
             UNCHANGED <<buf, written, hand, chan, broken>>
      PROVE  [Stream!Next]_(Stream!vars)
  <2>1. Cut' = Cut \cup {c}
    BY <1>2, <1>t DEF Cut
  <2>2. \A d \in Consumers : Held(d)' = Held(d)
    BY <1>2 DEF Held
  <2>3. CASE c \in Cut
    BY <1>2, <1>i, <2>1, <2>2, <2>3, StreamsStutter
  <2>4. CASE c \notin Cut
    BY <1>2, <1>i, <2>1, <2>2, <2>4, StreamsCut
  <2> QED BY <2>3, <2>4
<1>3. ASSUME NEW p \in Producers, ReadFrame(p) PROVE [Stream!Next]_(Stream!vars)
  <2>1. UNCHANGED <<Pending, written, Cut>>
    <3>1. Cut' = Cut /\ \A c \in Consumers : Held(c)' = Held(c)
      BY <1>3 DEF ReadFrame, Cut, Held
    <3> QED BY <1>3, <1>m, <3>1 DEF ReadFrame
  <2>2. Stream!Offer(p)
    BY <1>3, <2>1 DEF ReadFrame, Stream!Offer
  <2> QED BY <2>2 DEF Stream!Next
<1>4. ASSUME NEW p \in Producers, BroadcastSend(p)
      PROVE  [Stream!Next]_(Stream!vars)
  <2>1. PICK c \in todo[p] : SendOK(p, c) \/ SendFull(p, c) \/ SendClosed(p, c)
    BY <1>4 DEF BroadcastSend
  <2>2. c \in Consumers /\ ppc[p] = "send" /\ buf[p] > 0
    BY <1>4, <1>i, <1>t DEF BroadcastSend, TypeOK
  <2>3. CASE SendOK(p, c)
    <3> DEFINE m == [from |-> p, seq |-> buf[p]]
    <3>1. /\ UNCHANGED <<buf, written, hand, cpc, broken>>
          /\ chan' = [chan EXCEPT ![c] = Append(@, m)]
      BY <2>3 DEF SendOK, MsgCopy
    <3>2. Cut' = Cut
      BY <3>1 DEF Cut
    <3>3. \A d \in Consumers \ {c} : Held(d)' = Held(d)
      BY <1>t, <3>1 DEF Held
    <3>4. CASE c \in Cut
      BY <1>i, <3>1, <3>2, <3>3, <3>4, StreamsStutter
    <3>5. CASE c \notin Cut
      <4>1. m \in Message
        <5>1. buf[p] \in 0..MaxFrames /\ MaxFrames \in Nat
          BY <1>i, BroadcastAssumption DEF TypeOK
        <5>2. buf[p] \in 1..MaxFrames
          BY <2>2, <5>1
        <5> QED BY <5>2 DEF Message
      <4>2. Held(c)' = Append(Held(c), m)
        <5> HIDE DEF m
        <5>1. Held(c)' = hand[c] \o Append(chan[c], m)
          BY <1>t, <2>2, <3>1 DEF Held
        <5>2. hand[c] \o Append(chan[c], m) = Append(hand[c] \o chan[c], m)
          BY <1>t, <2>2, <4>1
        <5> QED BY <5>1, <5>2 DEF Held
      <4>3. m \notin Range(Pending[c]) \cup Range(written[c])
        BY <1>i, <1>m, <2>2, <3>5, SendFresh
      <4>4. Pending' = [Pending EXCEPT ![c] = Append(@, m)]
        BY <1>m, <2>2, <3>2, <3>3, <3>5, <4>2
      <4>5. Stream!Accept(p, c)
        BY <2>2, <3>1, <3>2, <3>5, <4>3, <4>4 DEF Stream!Accept, Stream!Range, Range
      <4> QED BY <2>2, <4>5 DEF Stream!Next
    <3> QED BY <3>4, <3>5
  <2>4. CASE SendFull(p, c) \/ SendClosed(p, c)
    BY <1>1, <2>4 DEF SendFull, SendClosed
  <2> QED BY <2>1, <2>3, <2>4
<1>5. ASSUME NEW c \in Consumers, HandleConsumerConn(c)
      PROVE  [Stream!Next]_(Stream!vars)
  <2>1. CASE cpc' = [cpc EXCEPT ![c] = "done"]
    BY <1>2, <1>5, <2>1 DEF HandleConsumerConn
  <2>2. CASE cpc' = [cpc EXCEPT ![c] = "register"]
    BY <1>1, <1>5, <1>t, <2>2 DEF HandleConsumerConn
  <2> QED BY <1>5, <2>1, <2>2 DEF HandleConsumerConn
<1>6. ASSUME NEW c \in Consumers, UnregisterConsumer(c)
      PROVE  [Stream!Next]_(Stream!vars)
  BY <1>2, <1>6 DEF UnregisterConsumer
<1>7. ASSUME NEW c \in Consumers, RangeMsg(c) PROVE [Stream!Next]_(Stream!vars)
  <2>1. /\ UNCHANGED <<buf, written, broken>>
        /\ hand[c] = <<>> /\ chan[c] # <<>>
        /\ hand' = [hand EXCEPT ![c] = <<Head(chan[c])>>]
        /\ chan' = [chan EXCEPT ![c] = Tail(@)]
        /\ cpc' = [cpc EXCEPT ![c] = "write"]
        /\ cpc[c] = "recv"
    BY <1>7, <1>i DEF RangeMsg, Handover
  <2>2. Held(c)' = Held(c)
    <3>1. Held(c)' = <<Head(chan[c])>> \o Tail(chan[c])
      BY <1>t, <2>1 DEF Held
    <3>2. chan[c] \in Seq(Message) /\ chan[c] # <<>>
      BY <1>t, <2>1
    <3>3. <<Head(chan[c])>> \o Tail(chan[c]) = <<>> \o chan[c]
      BY <3>2
    <3> QED BY <2>1, <3>1, <3>3 DEF Held
  <2>3. \A d \in Consumers : Held(d)' = Held(d)
    BY <1>t, <2>1, <2>2 DEF Held
  <2>4. Cut' = Cut
    BY <1>t, <2>1 DEF Cut
  <2> QED BY <1>i, <2>1, <2>3, <2>4, StreamsStutter
<1>8. ASSUME NEW c \in Consumers, WriteFrame(c) PROVE [Stream!Next]_(Stream!vars)
  <2>0. cpc[c] = "write" /\ c \notin Cut /\ UNCHANGED <<buf, chan>>
    BY <1>8, <1>o DEF WriteFrame
  <2>1. CASE /\ written' = [written EXCEPT ![c] = Append(@, Bytes(Head(hand[c])))]
             /\ hand' = [hand EXCEPT ![c] = <<>>]
             /\ cpc' = [cpc EXCEPT ![c] = "recv"]
             /\ UNCHANGED broken
    <3>1. PICK m \in Message : hand[c] = <<m>>
      <4>1. hand[c] \in Seq(Message) /\ Len(hand[c]) <= 1 /\ hand[c] # <<>>
        BY <1>i, <2>0 DEF TypeOK
      <4> QED BY <4>1
    <3>2. /\ Held(c) # <<>> /\ Head(Held(c)) = m
          /\ Held(c)' = Tail(Held(c))
      <4>1. Held(c) = <<m>> \o chan[c]
        BY <3>1 DEF Held
      <4>2. Held(c)' = <<>> \o chan[c]
        BY <1>t, <2>0, <2>1 DEF Held
      <4>3. chan[c] \in Seq(Message)
        BY <1>t
      <4> QED BY <3>1, <4>1, <4>2, <4>3
    <3>3. Bytes(Head(hand[c])) = m
      BY <3>1, BytesOfCopy
    <3>4. Cut' = Cut
      BY <1>t, <2>0, <2>1 DEF Cut
    <3>5. \A d \in Consumers \ {c} : Held(d)' = Held(d)
      BY <1>t, <2>0, <2>1 DEF Held
    <3>6. /\ Pending[c] # <<>> /\ Head(Pending[c]) = m
          /\ Pending' = [Pending EXCEPT ![c] = Tail(@)]
      BY <1>m, <2>0, <3>2, <3>4, <3>5
    <3>7. Stream!Deliver(c)
      BY <2>0, <2>1, <3>3, <3>4, <3>6 DEF Stream!Deliver
    <3> QED BY <3>7 DEF Stream!Next
  <2>2. CASE /\ broken' = broken \cup {c}
             /\ cpc' = [cpc EXCEPT ![c] = "unregister"]
             /\ UNCHANGED <<hand, written>>
    <3>1. Cut' = Cut \cup {c}
      BY <1>t, <2>0, <2>2 DEF Cut
    <3>2. \A d \in Consumers : Held(d)' = Held(d)
      BY <2>0, <2>2 DEF Held
    <3> QED BY <1>i, <2>0, <2>2, <3>1, <3>2, StreamsCut
  <2> QED BY <1>8, <2>1, <2>2 DEF WriteFrame
<1>9. ASSUME NEW c \in Consumers,
             AcceptConsumer(c) \/ RegisterConsumer(c) \/ RangeEnd(c)
      PROVE  [Stream!Next]_(Stream!vars)
  <2>1. PICK s \in {"role", "recv", "unregister"} : cpc' = [cpc EXCEPT ![c] = s]
    BY <1>9 DEF AcceptConsumer, RegisterConsumer, RangeEnd
  <2>2. cpc[c] # "done"
    BY <1>9 DEF AcceptConsumer, RegisterConsumer, RangeEnd
  <2> QED BY <1>1, <1>9, <1>t, <2>1, <2>2
        DEF AcceptConsumer, RegisterConsumer, RangeEnd
<1>10. ASSUME NEW p \in Producers,
              AcceptProducer(p) \/ HandleProducerConn(p) \/ ReadFrameError(p)
                \/ BroadcastSnapshot(p)
       PROVE  [Stream!Next]_(Stream!vars)
  BY <1>1, <1>10 DEF AcceptProducer, HandleProducerConn, ReadFrameError,
                     BroadcastSnapshot
<1>11. CASE StopSignal \/ CloseBroker \/ Exit \/ UNCHANGED vars
  BY <1>1, <1>11 DEF StopSignal, CloseBroker, Exit, vars
<1> QED
  BY <1>3, <1>4, <1>5, <1>6, <1>7, <1>8, <1>9, <1>10, <1>11 DEF Next

\* The broker in broadcast mode implements the fan-out: whatever the registry,
\* the channels, the handlers and the shutdown do, each consumer has one stream
\* that takes a frame only while it is its producer's latest, delivers in order
\* and is cut once and for all.
THEOREM BroadcastIsFanOut == Spec => ImplementsFanOut
<1>1. IInv => TypeOK
  BY DEF IInv
<1> QED
  BY <1>1, Invariance, StreamsInit, StreamsStep, PTL
     DEF Spec, ImplementsFanOut, Stream!Spec

=============================================================================
