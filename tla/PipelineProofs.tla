--------------------------- MODULE PipelineProofs ---------------------------
(***************************************************************************)
(* Theorems about Pipeline, for any number of pods, of runs of their       *)
(* containers and of rows in the file, with any of the rows malformed.     *)
(***************************************************************************)
EXTENDS Pipeline, FrameLemmas, FiniteSetTheorems, TLAPS

-----------------------------------------------------------------------------
(* Why these hold: an inductive invariant, part by part.                   *)

\* What a producer has written is the beginning of the file, all of it that
\* its reader has consumed while it streams, and the file once it completes.
WritesFile ==
  \A p \in Producers :
    /\ \A i \in DOMAIN sent[p] : sent[p][i] = i
    /\ ppc[p] = "new" => row[p] = 0
    /\ ppc[p] \in {"streaming", "completed"} => Len(sent[p]) = row[p]
    /\ ppc[p] = "completed" => row[p] = Rows

\* Of the runs of one container, those before a run that has started failed.
RunsInTurn ==
  \A p, q \in Producers :
    p[1] = q[1] /\ p[2] < q[2] /\ ppc[q] # "new" => ppc[p] = "failed"

\* The broker works in one mode, and takes from its producers, in turn, frames
\* it was offered.
NotAhead(s) == \A m \in Range(s) : m.seq <= offered[m.from]
Accepted(s) == \A m \in Range(s) : m.seq <= last[m.from]
OneMode ==
  /\ \A p \in Producers : last[p] <= offered[p]
  /\ mode = "broadcast" => waiting = <<>> /\ \A c \in Consumers : taken[c] = <<>>
  /\ mode = "queue" => /\ Accepted(waiting)
                       /\ \A c \in Consumers :
                            /\ pending[c] = <<>>
                            /\ Accepted(taken[c]) /\ Accepted(delivered[c])

\* The frames on their way to one consumer are in order, whatever they wait
\* for: their turn in the queue, their handler or their channel.
OnTheWay ==
  /\ InOrder(waiting)
  /\ \A c \in Consumers :
       /\ InOrder(delivered[c]) /\ InOrder(pending[c])
       /\ Before(delivered[c], pending[c])
       /\ Before(delivered[c], taken[c])
       /\ Before(delivered[c], waiting)
       /\ Before(taken[c], waiting)
       /\ NotAhead(delivered[c]) /\ NotAhead(pending[c])

\* Competing consumers have no frame in common.
Has(c) == Range(taken[c]) \cup Range(delivered[c])
Apart ==
  mode = "queue" =>
    \A c, d \in Consumers : c # d => \A m \in Has(c) : m \notin Has(d)

\* What a consumer has stored, or has given up on storing, are frames it has
\* read, all of them older than the frame in its hand and those it has still to
\* read.  So a frame whose insert succeeds lands behind older ones only, however
\* many inserts are still unsettled.
Unread(c) ==
  {i \in DOMAIN delivered[c] :
     i > received[c] \/ (i = received[c] /\ cpc[c] = "storing")}
Tried(c) == Range(stored[c]) \cup failed[c]
StoresWhatItReads ==
  \A c \in Consumers :
    /\ LateFailed(stored[c], failed[c])
    /\ Tried(c) \subseteq Range(delivered[c])
    /\ \A m \in Tried(c), i \in Unread(c) :
         m.from = delivered[c][i].from => m.seq < delivered[c][i].seq
    /\ cpc[c] = "storing" => hand[c] = <<delivered[c][received[c]]>>

IInv ==
  /\ TypeOK /\ WritesFile /\ RunsInTurn
  /\ OneMode /\ OnTheWay /\ Apart /\ StoresWhatItReads

-----------------------------------------------------------------------------
(* What a step of one part leaves alone in the others.                     *)

\* No frame moves in the broker when a process takes a step or is killed, but
\* those pending for a consumer may be gone.
LEMMA ProcessSteps ==
  ASSUME TypeOK,
         \/ \E p \in Producers : ProducerStep(p)
         \/ \E c \in Consumers : ConsumerStep(c) \/ BrokerCuts(c)
         \/ UNCHANGED vars
  PROVE  /\ UNCHANGED <<environment, offered, last, waiting, taken, delivered, lost>>
         /\ pending' \in [Consumers -> Seq(Message)]
         /\ cut' \subseteq Consumers
         /\ \A c \in Consumers : pending'[c] = pending[c] \/ pending'[c] = <<>>
<1> USE DEF broker, fanOut, workQueue, environment
<1>1. pending \in [Consumers -> Seq(Message)] /\ cut \subseteq Consumers
  BY DEF TypeOK, BrokerOK
<1>2. <<>> \in Seq(Message)
  OBVIOUS
<1>3. ASSUME NEW p \in Producers, ProducerStep(p)
      PROVE  UNCHANGED <<environment, broker>>
  BY <1>3 DEF ProducerStep, StartProducer, StreamRow, ReadRowError, Complete,
              KillProducer
<1>4. ASSUME NEW c \in Consumers, ConsumerStep(c) \/ BrokerCuts(c)
      PROVE  /\ UNCHANGED <<environment, offered, last, waiting, taken, delivered, lost>>
             /\ \/ UNCHANGED <<pending, cut>>
                \/ /\ pending' = [pending EXCEPT ![c] = <<>>]
                   /\ cut' = cut \cup {c}
  BY <1>4 DEF ConsumerStep, StartConsumer, NewMongoStore, ReadFrame, ReadError,
              StoreMessage, StoreError, InsertLate, KillConsumer, BrokerCuts,
              Disconnect, Broadcast!Cut
<1>5. CASE UNCHANGED vars
  BY <1>1, <1>5 DEF vars
<1> QED BY <1>1, <1>2, <1>3, <1>4, <1>5

\* No process moves when the broker does.
LEMMA BrokerSteps ==
  ASSUME \/ \E p \in Producers : BrokerReads(p) \/ Enqueue(p)
                                   \/ \E c \in Consumers : BrokerAccepts(p, c)
         \/ \E c \in Consumers : BrokerWrites(c) \/ BrokerCuts(c) \/ Dequeue(c)
                                   \/ WriteDequeued(c) \/ WriteFails(c)
  PROVE  UNCHANGED <<environment, producer, consumer>>
  BY DEF BrokerReads, Enqueue, BrokerAccepts, BrokerWrites, BrokerCuts,
         Dequeue, WriteDequeued, WriteFails

\* Producers and consumers have no state in common.
LEMMA ProducerSteps ==
  ASSUME NEW p \in Producers, ProducerStep(p) PROVE UNCHANGED <<environment, broker, consumer>>
  BY DEF ProducerStep, StartProducer, StreamRow, ReadRowError, Complete, KillProducer

\* And the other way round.
LEMMA ConsumerSteps ==
  ASSUME NEW c \in Consumers, ConsumerStep(c) PROVE UNCHANGED <<environment, producer>>
  BY DEF ConsumerStep, StartConsumer, NewMongoStore, ReadFrame, ReadError,
         StoreMessage, StoreError, InsertLate, KillConsumer

-----------------------------------------------------------------------------
(* Type correctness.                                                       *)

\* The initial state has every variable in its type.
LEMMA TypeInit == Init => TypeOK
<1> SUFFICES ASSUME Init PROVE TypeOK
  OBVIOUS
<1> USE PipelineAssumption DEF Init, Broadcast!Init, Queue!Init
<1>1. <<>> \in Seq(Message) /\ <<>> \in Seq(1..Rows) /\ Len(<<>>) = 0
  OBVIOUS
<1>2. mode \in {"broadcast", "queue"}
  BY DEF ParseDeliveryMode
<1>3. ProducersOK
  BY <1>1 DEF ProducersOK
<1>4. BrokerOK
  BY <1>1, <1>2 DEF BrokerOK
<1>5. ConsumersOK
  <2>1. Range(<<>>) = {} /\ IsFiniteSet({}) /\ Cardinality({}) = 0
    BY RangeShort, FS_EmptySet
  <2>2. ASSUME NEW c \in Consumers
        PROVE  /\ received[c] = 0 /\ Len(hand[c]) = 0 /\ Len(stored[c]) = 0
               /\ Cardinality(Unsettled(c)) = 0 /\ IsFiniteSet(failed[c])
               /\ cpc[c] = "new" /\ Len(delivered[c]) = 0
    BY <1>1, <2>1 DEF Unsettled
  <2>3. /\ cpc \in [Consumers -> {"new", "identified", "reading", "storing", "ended"}]
        /\ received \in [Consumers -> Nat] /\ hand \in [Consumers -> Seq(Message)]
        /\ failed \in [Consumers -> SUBSET Message] /\ stored \in [Consumers -> Seq(Message)]
    BY <1>1
  <2> QED BY <2>2, <2>3 DEF ConsumersOK
<1> QED BY <1>1, <1>3, <1>4, <1>5 DEF TypeOK

\* A producer writes rows of the file, no more than its reader has consumed.
LEMMA ProducersStep ==
  ASSUME TypeOK, NEW p \in Producers, ProducerStep(p)
  PROVE  /\ ProducersOK'
         /\ \A q \in Producers : Len(sent[q]) <= Len(sent'[q])
<1>t. /\ ppc \in [Producers -> {"new", "streaming", "completed", "failed"}]
      /\ row \in [Producers -> 0..Rows]
      /\ sent \in [Producers -> Seq(1..Rows)]
      /\ \A q \in Producers : Len(sent[q]) <= row[q]
      /\ Rows \in Nat
  BY PipelineAssumption DEF TypeOK, ProducersOK
<1>l. \A q \in Producers : Len(sent[q]) \in Nat
  BY <1>t
<1>n. /\ NextRow(p) \in Nat /\ row[p] < NextRow(p)
      /\ GetsRow(p) => NextRow(p) \in 1..Rows
      /\ ~GetsEOF(p) => NextRow(p) \in 0..Rows
  BY <1>t DEF NextRow, GetsRow, GetsEOF
<1>1. ASSUME ppc' \in [Producers -> {"new", "streaming", "completed", "failed"}],
             NextRow(p) \in 0..Rows,
             row' = [row EXCEPT ![p] = NextRow(p)], sent' = sent
      PROVE  ProducersOK' /\ \A q \in Producers : Len(sent[q]) <= Len(sent'[q])
  <2>1. row' \in [Producers -> 0..Rows]
    BY <1>1, <1>t
  <2>2. \A q \in Producers : row[q] <= row'[q] /\ row[q] \in Nat /\ row'[q] \in Nat
    BY <1>1, <1>n, <1>t
  <2> QED BY <1>1, <1>l, <1>t, <2>1, <2>2 DEF ProducersOK
<1>2. ASSUME ppc' \in [Producers -> {"new", "streaming", "completed", "failed"}],
             UNCHANGED <<row, sent>>
      PROVE  ProducersOK' /\ \A q \in Producers : Len(sent[q]) <= Len(sent'[q])
  BY <1>2, <1>l, <1>t DEF ProducersOK
<1>3. CASE StartProducer(p) \/ Complete(p) \/ KillProducer(p)
  BY <1>2, <1>3, <1>t DEF StartProducer, NewMetricsCSVReader, Complete, KillProducer
<1>4. CASE ReadRowError(p)
  <2>1. ppc' \in [Producers -> {"new", "streaming", "completed", "failed"}]
    BY <1>4, <1>t DEF ReadRowError, ReturnError
  <2> QED BY <1>1, <1>4, <1>n, <2>1 DEF ReadRowError
<1>5. CASE StreamRow(p)
  <2>1. CASE sent' = sent
    <3>1. ppc' \in [Producers -> {"new", "streaming", "completed", "failed"}]
      BY <1>5, <1>t DEF StreamRow
    <3>2. NextRow(p) \in 0..Rows /\ row' = [row EXCEPT ![p] = NextRow(p)]
      BY <1>5, <1>n, <1>t DEF StreamRow
    <3> QED BY <1>1, <2>1, <3>1, <3>2
  <2>2. CASE sent' = [sent EXCEPT ![p] = Append(@, NextRow(p))] /\ ppc' = ppc
    <3>1. /\ Append(sent[p], NextRow(p)) \in Seq(1..Rows)
          /\ Len(Append(sent[p], NextRow(p))) = Len(sent[p]) + 1
      BY <1>5, <1>n, <1>t DEF StreamRow
    <3>2. row' = [row EXCEPT ![p] = row[p] + 1] /\ NextRow(p) = row[p] + 1
      BY <1>5 DEF StreamRow, NextRow
    <3>3. row[p] + 1 \in 0..Rows
      BY <1>5, <1>n, <3>2 DEF StreamRow
    <3> HIDE DEF NextRow
    <3>4. \A q \in Producers : /\ q # p => sent'[q] = sent[q] /\ row'[q] = row[q]
                               /\ q = p => Len(sent'[q]) = Len(sent[q]) + 1
                               /\ q = p => row'[q] = row[q] + 1
      BY <1>t, <2>2, <3>1, <3>2
    <3>5. /\ sent' \in [Producers -> Seq(1..Rows)]
          /\ row' \in [Producers -> 0..Rows]
      BY <1>t, <2>2, <3>1, <3>2, <3>3
    <3>6. \A q \in Producers : /\ Len(sent'[q]) <= row'[q]
                               /\ Len(sent[q]) <= Len(sent'[q])
      <4> TAKE q \in Producers
      <4>1. row[q] \in Nat /\ Len(sent[q]) \in Nat /\ Len(sent[q]) <= row[q]
        BY <1>l, <1>t
      <4> QED BY <3>4, <4>1
    <3> QED BY <1>t, <2>2, <3>5, <3>6 DEF ProducersOK
  <2> QED BY <1>5, <2>1, <2>2 DEF StreamRow
<1> QED BY <1>3, <1>4, <1>5 DEF ProducerStep

\* The broker reads frames that were written, and moves frames only.
LEMMA BrokerMoves ==
  ASSUME TypeOK, [Next]_vars
  PROVE  /\ BrokerOK'
         /\ \A p \in Producers : offered'[p] <= Len(sent[p])
         /\ \A c \in Consumers : delivered[c] # delivered'[c] =>
              \E m \in Message : delivered'[c] = Append(delivered[c], m)
<1> DEFINE Goal == /\ BrokerOK'
                   /\ \A p \in Producers : offered'[p] <= Len(sent[p])
                   /\ \A c \in Consumers : delivered[c] # delivered'[c] =>
                        \E m \in Message : delivered'[c] = Append(delivered[c], m)
<1> USE DEF broker, fanOut, workQueue, environment
<1>t. /\ mode \in {"broadcast", "queue"}
      /\ offered \in [Producers -> 0..Rows]
      /\ last \in [Producers -> 0..Rows]
      /\ waiting \in Seq(Message)
      /\ pending \in [Consumers -> Seq(Message)]
      /\ delivered \in [Consumers -> Seq(Message)]
      /\ taken \in [Consumers -> Seq(Message)]
      /\ \A c \in Consumers : Len(taken[c]) <= 1
      /\ cut \subseteq Consumers
      /\ lost \subseteq Message
      /\ \A p \in Producers : offered[p] <= Len(sent[p])
      /\ Rows \in Nat
  BY PipelineAssumption DEF TypeOK, BrokerOK
<1>l. ASSUME NEW p \in Producers PROVE Len(sent[p]) \in 0..Rows
  <2>1. sent[p] \in Seq(1..Rows) /\ Len(sent[p]) <= row[p] /\ row[p] \in 0..Rows
    BY DEF TypeOK, ProducersOK
  <2>2. Len(sent[p]) \in Nat
    BY <2>1
  <2>3. row[p] \in Nat /\ row[p] <= Rows
    BY <1>t, <2>1
  <2> QED BY <1>t, <2>1, <2>2, <2>3
<1>1. CASE \/ \E p \in Producers : ProducerStep(p)
           \/ \E c \in Consumers : ConsumerStep(c) \/ BrokerCuts(c)
           \/ UNCHANGED vars
  BY <1>1, <1>t, ProcessSteps DEF BrokerOK
<1>2. ASSUME NEW p \in Producers, BrokerReads(p) PROVE Goal
  <2>1. /\ UNCHANGED <<mode, last, waiting, pending, delivered, taken, cut, lost>>
        /\ offered' = [offered EXCEPT ![p] = @ + 1]
        /\ offered[p] < Len(sent[p])
    BY <1>2 DEF BrokerReads, Broadcast!Offer
  <2>2. offered[p] + 1 \in 0..Rows /\ offered[p] + 1 <= Len(sent[p])
    BY <1>l, <1>t, <2>1
  <2> QED BY <1>t, <2>1, <2>2 DEF BrokerOK
\* A frame that a producer has offered, accepted for the queue or a consumer.
<1>m. ASSUME NEW p \in Producers, offered[p] > 0
      PROVE  [from |-> p, seq |-> offered[p]] \in Message
  <2>1. offered[p] \in 1..Rows
    BY <1>m, <1>t
  <2> QED BY <2>1 DEF Message
<1>3. ASSUME NEW p \in Producers, Enqueue(p) PROVE Goal
  <2>1. /\ UNCHANGED <<mode, offered, pending, delivered, taken, cut, lost>>
        /\ last' = [last EXCEPT ![p] = offered[p]]
        /\ last[p] < offered[p]
        /\ waiting' = Append(waiting, [from |-> p, seq |-> offered[p]])
    BY <1>3 DEF Enqueue, Queue!Accept
  <2>2. [from |-> p, seq |-> offered[p]] \in Message
    BY <1>m, <1>t, <2>1
  <2>3. waiting' \in Seq(Message)
    BY <1>t, <2>1, <2>2
  <2> QED BY <1>t, <2>1, <2>3 DEF BrokerOK
<1>4. ASSUME NEW p \in Producers, NEW c \in Consumers, BrokerAccepts(p, c)
      PROVE  Goal
  <2>1. /\ UNCHANGED <<mode, offered, last, waiting, delivered, taken, cut, lost>>
        /\ offered[p] > 0
        /\ pending' = [pending EXCEPT
                         ![c] = Append(@, [from |-> p, seq |-> offered[p]])]
    BY <1>4 DEF BrokerAccepts, Broadcast!Accept
  <2>2. Append(pending[c], [from |-> p, seq |-> offered[p]]) \in Seq(Message)
    BY <1>m, <1>t, <2>1
  <2>3. pending' \in [Consumers -> Seq(Message)]
    BY <1>t, <2>1, <2>2
  <2> QED BY <1>t, <2>1, <2>3 DEF BrokerOK
<1>5. ASSUME NEW c \in Consumers, BrokerWrites(c) PROVE Goal
  <2>1. /\ UNCHANGED <<mode, offered, last, waiting, taken, cut, lost>>
        /\ pending[c] # <<>>
        /\ delivered' = [delivered EXCEPT ![c] = Append(@, Head(pending[c]))]
        /\ pending' = [pending EXCEPT ![c] = Tail(@)]
    BY <1>5 DEF BrokerWrites, Broadcast!Deliver
  <2>2. Head(pending[c]) \in Message /\ Tail(pending[c]) \in Seq(Message)
    BY <1>t, <2>1, TailType
  <2>3. /\ pending' \in [Consumers -> Seq(Message)]
        /\ delivered' \in [Consumers -> Seq(Message)]
    BY <1>t, <2>1, <2>2
  <2>4. \A d \in Consumers : delivered[d] # delivered'[d] =>
          delivered'[d] = Append(delivered[d], Head(pending[c]))
    BY <1>t, <2>1
  <2> QED BY <1>t, <2>1, <2>2, <2>3, <2>4 DEF BrokerOK
<1>6. ASSUME NEW c \in Consumers, Dequeue(c) PROVE Goal
  <2>1. /\ UNCHANGED <<mode, offered, last, pending, delivered, cut, lost>>
        /\ waiting # <<>>
        /\ taken' = [taken EXCEPT ![c] = <<Head(waiting)>>]
        /\ waiting' = Tail(waiting)
    BY <1>6 DEF Dequeue, Queue!Take
  <2>2. /\ <<Head(waiting)>> \in Seq(Message) /\ Len(<<Head(waiting)>>) = 1
        /\ Tail(waiting) \in Seq(Message)
    BY <1>t, <2>1, TailType
  <2>3. /\ taken' \in [Consumers -> Seq(Message)]
        /\ \A d \in Consumers : Len(taken'[d]) <= 1
    BY <1>t, <2>1, <2>2
  <2> QED BY <1>t, <2>1, <2>2, <2>3 DEF BrokerOK
<1>7. ASSUME NEW c \in Consumers, WriteDequeued(c) \/ WriteFails(c) PROVE Goal
  <2>1. /\ UNCHANGED <<mode, offered, last, waiting, pending>>
        /\ taken[c] # <<>>
        /\ taken' = [taken EXCEPT ![c] = <<>>]
        /\ cut' \subseteq Consumers
    BY <1>7, <1>t DEF WriteDequeued, WriteFails, Queue!Deliver, Queue!Lose
  <2>2. Head(taken[c]) \in Message /\ <<>> \in Seq(Message) /\ Len(<<>>) = 0
    BY <1>t, <2>1, TailType
  <2>3. /\ taken' \in [Consumers -> Seq(Message)]
        /\ \A d \in Consumers : Len(taken'[d]) <= 1
    BY <1>t, <2>1, <2>2
  <2>4. \/ /\ delivered' = [delivered EXCEPT ![c] = Append(@, Head(taken[c]))]
           /\ lost' = lost
        \/ /\ lost' = lost \cup {Head(taken[c])}
           /\ delivered' = delivered
    BY <1>7 DEF WriteDequeued, WriteFails, Queue!Deliver, Queue!Lose
  <2>5. delivered' \in [Consumers -> Seq(Message)] /\ lost' \subseteq Message
    <3>1. Append(delivered[c], Head(taken[c])) \in Seq(Message)
      BY <1>t, <2>2
    <3> QED BY <1>t, <2>2, <2>4, <3>1
  <2>6. \A d \in Consumers : delivered[d] # delivered'[d] =>
          delivered'[d] = Append(delivered[d], Head(taken[c]))
    <3>1. CASE delivered' = [delivered EXCEPT ![c] = Append(@, Head(taken[c]))]
      BY <1>t, <3>1
    <3> QED BY <2>4, <3>1
  <2> QED BY <1>t, <2>1, <2>2, <2>3, <2>5, <2>6 DEF BrokerOK
<1> HIDE DEF Goal
<1>8. CASE Next
  BY <1>1, <1>2, <1>3, <1>4, <1>5, <1>6, <1>7, <1>8 DEF Next, Goal
<1> QED BY <1>1, <1>8 DEF Goal

\* What a step of a consumer, or a late insert of it, does: it reads no frame
\* and inserts none, reads one, ends the turn of one, or has a late one landed.
LEMMA ConsumerTurns ==
  ASSUME TypeOK, NEW c \in Consumers, ConsumerStep(c)
  PROVE  /\ cpc' \in [Consumers -> {"new", "identified", "reading", "storing", "ended"}]
         /\ received' \in [Consumers -> Nat]
         /\ hand' \in [Consumers -> Seq(Message)]
         /\ failed' \in [Consumers -> SUBSET Message]
         /\ stored' \in [Consumers -> Seq(Message)]
         /\ \A d \in Consumers : d # c =>
              /\ cpc'[d] = cpc[d] /\ received'[d] = received[d] /\ hand'[d] = hand[d]
              /\ failed'[d] = failed[d] /\ stored'[d] = stored[d]
         /\ \/ /\ cpc[c] # "storing" /\ cpc'[c] # "storing"
               /\ received'[c] = received[c] /\ hand'[c] = <<>>
               /\ failed'[c] = failed[c] /\ stored'[c] = stored[c]
            \/ /\ cpc[c] # "storing" /\ cpc'[c] = "storing"
               /\ received[c] < Len(delivered[c])
               /\ received'[c] = received[c] + 1
               /\ hand'[c] = <<delivered[c][received[c] + 1]>>
               /\ failed'[c] = failed[c] /\ stored'[c] = stored[c]
            \/ /\ cpc[c] = "storing" /\ cpc'[c] # "storing"
               /\ received'[c] = received[c] /\ hand'[c] = <<>>
               /\ \E m \in Message :
                    /\ hand[c] = <<m>>
                    /\ \/ failed'[c] = failed[c] /\ stored'[c] = Append(stored[c], m)
                       \/ /\ failed'[c] = failed[c] \cup {m}
                          /\ stored'[c] = stored[c] \/ stored'[c] = Append(stored[c], m)
            \/ /\ cpc'[c] = cpc[c] /\ received'[c] = received[c] /\ hand'[c] = hand[c]
               /\ failed'[c] = failed[c]
               /\ \E m \in Unsettled(c) : stored'[c] = Append(stored[c], m)
<1>t. /\ cpc \in [Consumers -> {"new", "identified", "reading", "storing", "ended"}]
      /\ received \in [Consumers -> Nat]
      /\ hand \in [Consumers -> Seq(Message)]
      /\ failed \in [Consumers -> SUBSET Message]
      /\ stored \in [Consumers -> Seq(Message)]
      /\ delivered \in [Consumers -> Seq(Message)]
      /\ <<>> \in Seq(Message)
  BY DEF TypeOK, BrokerOK, ConsumersOK
<1>h. /\ cpc[c] # "storing" => hand[c] = <<>>
      /\ cpc[c] = "storing" => \E m \in Message : hand[c] = <<m>>
  <2>1. hand[c] \in Seq(Message) /\ Len(hand[c]) = IF cpc[c] = "storing" THEN 1 ELSE 0
    BY <1>t DEF TypeOK, ConsumersOK
  <2>2. Len(hand[c]) = 1 => hand[c] = <<hand[c][1]>> /\ hand[c][1] \in Message
    BY <2>1
  <2> QED BY <2>1, <2>2
<1>1. CASE StartConsumer(c) \/ NewMongoStore(c) \/ ReadError(c)
  <2>1. /\ UNCHANGED <<received, hand, failed, stored>>
        /\ \/ cpc' = [cpc EXCEPT ![c] = "identified"]
           \/ cpc' = [cpc EXCEPT ![c] = "reading"]
           \/ cpc' = [cpc EXCEPT ![c] = "ended"]
        /\ cpc[c] # "storing"
    BY <1>1 DEF StartConsumer, NewMongoStore, ReadError
  <2> QED BY <1>h, <1>t, <2>1
<1>2. CASE ReadFrame(c)
  <2>1. /\ cpc[c] = "reading" /\ received[c] < Len(delivered[c])
        /\ received' = [received EXCEPT ![c] = @ + 1]
        /\ hand' = [hand EXCEPT ![c] = <<delivered[c][received[c] + 1]>>]
        /\ cpc' = [cpc EXCEPT ![c] = "storing"]
        /\ UNCHANGED <<failed, stored>>
    BY <1>2 DEF ReadFrame
  <2>2. delivered[c][received[c] + 1] \in Message
    BY <1>t, <2>1
  <2>3. <<delivered[c][received[c] + 1]>> \in Seq(Message)
    BY <2>2
  <2> QED BY <1>t, <2>1, <2>3
<1>3. CASE StoreMessage(c) \/ StoreError(c) \/ (KillConsumer(c) /\ cpc[c] = "storing")
  <2>1. PICK m \in Message : hand[c] = <<m>>
    BY <1>3, <1>h DEF StoreMessage, StoreError
  <2>2. Head(hand[c]) = m /\ Range(hand[c]) = {m}
    BY <2>1, RangeShort
  <2>3. /\ cpc[c] = "storing" /\ received' = received
        /\ cpc' = [cpc EXCEPT ![c] = "reading"] \/ cpc' = [cpc EXCEPT ![c] = "ended"]
        /\ hand' = [hand EXCEPT ![c] = <<>>]
        /\ \/ failed' = failed /\ stored' = [stored EXCEPT ![c] = Append(@, m)]
           \/ /\ failed' = [failed EXCEPT ![c] = @ \cup {m}]
              /\ stored' = stored \/ stored' = [stored EXCEPT ![c] = Append(@, m)]
    BY <1>3, <2>2 DEF StoreMessage, StoreError, KillConsumer, Insert, Fail, NextTurn,
                      AfterStoreError
  <2>4. failed[c] \cup {m} \in SUBSET Message /\ Append(stored[c], m) \in Seq(Message)
    BY <1>t
  <2>5. /\ failed' \in [Consumers -> SUBSET Message]
        /\ stored' \in [Consumers -> Seq(Message)]
    <3>1. [failed EXCEPT ![c] = @ \cup {m}] \in [Consumers -> SUBSET Message]
      BY <1>t, <2>4
    <3>2. [stored EXCEPT ![c] = Append(@, m)] \in [Consumers -> Seq(Message)]
      BY <1>t, <2>4
    <3> QED BY <1>t, <2>3, <3>1, <3>2
  <2>6. /\ cpc'[c] \in {"reading", "ended"} /\ hand'[c] = <<>>
        /\ \/ failed'[c] = failed[c] /\ stored'[c] = Append(stored[c], m)
           \/ /\ failed'[c] = failed[c] \cup {m}
              /\ stored'[c] = stored[c] \/ stored'[c] = Append(stored[c], m)
    BY <1>t, <2>3
  <2>7. /\ cpc' \in [Consumers -> {"new", "identified", "reading", "storing", "ended"}]
        /\ received' \in [Consumers -> Nat] /\ hand' \in [Consumers -> Seq(Message)]
    BY <1>t, <2>3
  <2>8. \A d \in Consumers : d # c =>
          /\ cpc'[d] = cpc[d] /\ received'[d] = received[d] /\ hand'[d] = hand[d]
          /\ failed'[d] = failed[d] /\ stored'[d] = stored[d]
    BY <1>t, <2>3
  <2> QED BY <2>1, <2>3, <2>5, <2>6, <2>7, <2>8
<1>4. CASE KillConsumer(c) /\ cpc[c] # "storing"
  <2>1. hand[c] = <<>> /\ Range(hand[c]) = {}
    BY <1>4, <1>h, RangeShort
  <2>2. /\ UNCHANGED <<received, stored>>
        /\ cpc' = [cpc EXCEPT ![c] = "ended"]
        /\ hand' = [hand EXCEPT ![c] = <<>>]
        /\ failed' = [failed EXCEPT ![c] = @ \cup {}]
    BY <1>4, <2>1 DEF KillConsumer, Fail
  <2> QED BY <1>4, <1>t, <2>2
<1>5. CASE InsertLate(c)
  <2>1. PICK m \in Unsettled(c) : stored' = [stored EXCEPT ![c] = Append(@, m)]
    BY <1>5 DEF InsertLate, Insert
  <2>2. UNCHANGED <<cpc, received, hand, failed>>
    BY <1>5 DEF InsertLate
  <2>3. m \in Message
    BY <1>t DEF Unsettled
  <2>4. Append(stored[c], m) \in Seq(Message)
    BY <1>t, <2>3
  <2> QED BY <1>t, <2>1, <2>2, <2>4
<1> QED BY <1>1, <1>2, <1>3, <1>4, <1>5 DEF ConsumerStep

\* Another document leaves no more inserts unsettled, and one less if it is that
\* of an unsettled one; another failure leaves at most one more.
LEMMA UnsettledCount ==
  ASSUME NEW docs \in Seq(Message), NEW m \in Message, NEW F, IsFiniteSet(F)
  PROVE  LET count(G, d) == Cardinality(G \ Range(d))
         IN /\ IsFiniteSet(F \cup {m})
            /\ \A G \in {F, F \cup {m}}, d \in {docs, Append(docs, m)} : count(G, d) \in Nat
            /\ count(F, Append(docs, m)) <= count(F, docs)
            /\ m \in F \ Range(docs) => count(F, Append(docs, m)) + 1 <= count(F, docs)
            /\ count(F \cup {m}, docs) <= count(F, docs) + 1
            /\ count(F \cup {m}, Append(docs, m)) <= count(F, docs)
<1>1. Range(Append(docs, m)) = Range(docs) \cup {m}
  BY RangeAppend
<1>2. IsFiniteSet(F \cup {m})
  BY FS_AddElement
<1>3. PICK U : U = F \ Range(docs)
  OBVIOUS
<1>4. /\ IsFiniteSet(U) /\ Cardinality(U) \in Nat
      /\ IsFiniteSet(U \cup {m}) /\ Cardinality(U \cup {m}) \in Nat
      /\ Cardinality(U \cup {m}) <= Cardinality(U) + 1
      /\ IsFiniteSet(U \ {m}) /\ Cardinality(U \ {m}) \in Nat
      /\ Cardinality(U \ {m}) <= Cardinality(U)
      /\ m \in U => Cardinality(U \ {m}) = Cardinality(U) - 1
  <2>1. U \in SUBSET F
    BY <1>3
  <2>2. IsFiniteSet(U)
    BY <2>1, FS_Subset
  <2>3. /\ IsFiniteSet(U \cup {m})
        /\ Cardinality(U \cup {m}) = Cardinality(U) \/ Cardinality(U \cup {m}) = Cardinality(U) + 1
    BY <2>2, FS_AddElement
  <2>4. /\ IsFiniteSet(U \ {m})
        /\ m \in U => Cardinality(U \ {m}) = Cardinality(U) - 1
        /\ m \notin U => Cardinality(U \ {m}) = Cardinality(U)
    BY <2>2, FS_RemoveElement
  <2>5. Cardinality(U) \in Nat /\ Cardinality(U \cup {m}) \in Nat /\ Cardinality(U \ {m}) \in Nat
    BY <2>2, <2>3, <2>4, FS_CardinalityType
  <2> QED BY <2>2, <2>3, <2>4, <2>5
<1>5. F \ Range(Append(docs, m)) = U \ {m}
  BY <1>1, <1>3
<1>6. (F \cup {m}) \ Range(Append(docs, m)) = U \ {m}
  BY <1>1, <1>3
<1>7. (F \cup {m}) \ Range(docs) = U \/ (F \cup {m}) \ Range(docs) = U \cup {m}
  BY <1>3
<1>8. \A G \in {F, F \cup {m}}, d \in {docs, Append(docs, m)} :
        Cardinality(G \ Range(d)) \in Nat
  BY <1>3, <1>4, <1>5, <1>6, <1>7
<1>9. /\ Cardinality(F \ Range(Append(docs, m))) <= Cardinality(F \ Range(docs))
      /\ m \in F \ Range(docs) =>
           Cardinality(F \ Range(Append(docs, m))) + 1 <= Cardinality(F \ Range(docs))
  <2>1. /\ Cardinality(U \ {m}) <= Cardinality(U)
        /\ m \in U => Cardinality(U \ {m}) + 1 <= Cardinality(U)
    BY <1>4
  <2> QED BY <1>3, <1>5, <2>1
<1>10. Cardinality((F \cup {m}) \ Range(docs)) <= Cardinality(F \ Range(docs)) + 1
  <2>1. Cardinality(U) <= Cardinality(U) + 1 /\ Cardinality(U \cup {m}) <= Cardinality(U) + 1
    BY <1>4
  <2>2. \/ Cardinality((F \cup {m}) \ Range(docs)) = Cardinality(U)
        \/ Cardinality((F \cup {m}) \ Range(docs)) = Cardinality(U \cup {m})
    BY <1>7
  <2> QED BY <1>3, <2>1, <2>2
<1>11. Cardinality((F \cup {m}) \ Range(Append(docs, m))) <= Cardinality(F \ Range(docs))
  BY <1>3, <1>4, <1>6
<1> QED BY <1>2, <1>8, <1>9, <1>10, <1>11

\* A consumer stores a frame it has read once, or not at all.
LEMMA ConsumersStep ==
  ASSUME TypeOK, [Next]_vars
  PROVE  ConsumersOK'
<1>t. /\ cpc \in [Consumers -> {"new", "identified", "reading", "storing", "ended"}]
      /\ received \in [Consumers -> Nat]
      /\ hand \in [Consumers -> Seq(Message)]
      /\ failed \in [Consumers -> SUBSET Message]
      /\ stored \in [Consumers -> Seq(Message)]
      /\ delivered \in [Consumers -> Seq(Message)]
  BY DEF TypeOK, BrokerOK, ConsumersOK
\* What ConsumersOK says of one consumer.
<1> DEFINE count(c) == Cardinality(failed[c] \ Range(stored[c]))
           Ok(c) ==
             /\ received[c] <= Len(delivered[c])
             /\ Len(hand[c]) = IF cpc[c] = "storing" THEN 1 ELSE 0
             /\ IsFiniteSet(failed[c])
             /\ Len(stored[c]) + count(c) + Len(hand[c]) <= received[c]
<1>o. ASSUME NEW c \in Consumers
      PROVE  /\ Ok(c)
             /\ received[c] \in Nat /\ Len(stored[c]) \in Nat /\ Len(hand[c]) \in Nat
             /\ Len(delivered[c]) \in Nat /\ count(c) \in Nat
  <2>1. Ok(c)
    BY DEF TypeOK, ConsumersOK, Unsettled
  <2>2. failed[c] \ Range(stored[c]) \in SUBSET failed[c]
    OBVIOUS
  <2>3. count(c) \in Nat
    BY <2>1, <2>2, FS_Subset, FS_CardinalityType
  <2> QED BY <1>t, <2>1, <2>3
<1>d. ASSUME NEW c \in Consumers PROVE Len(delivered[c]) <= Len(delivered'[c])
                                       /\ Len(delivered'[c]) \in Nat
  <2>1. CASE delivered'[c] = delivered[c]
    BY <1>t, <2>1
  <2>2. CASE delivered'[c] # delivered[c]
    <3>1. PICK m \in Message : delivered'[c] = Append(delivered[c], m)
      BY <2>2, BrokerMoves
    <3> QED BY <1>t, <3>1
  <2> QED BY <2>1, <2>2
<1>1. ASSUME NEW c \in Consumers, ConsumerStep(c) PROVE ConsumersOK'
  <2>0. delivered' = delivered
    <3>1. UNCHANGED delivered
      BY <1>1, ProcessSteps
    <3> QED BY <3>1
  <2>t. /\ cpc' \in [Consumers -> {"new", "identified", "reading", "storing", "ended"}]
        /\ received' \in [Consumers -> Nat]
        /\ hand' \in [Consumers -> Seq(Message)]
        /\ failed' \in [Consumers -> SUBSET Message]
        /\ stored' \in [Consumers -> Seq(Message)]
    BY <1>1, ConsumerTurns
  <2>1. ASSUME NEW d \in Consumers, d # c
        PROVE  /\ cpc'[d] = cpc[d] /\ received'[d] = received[d] /\ hand'[d] = hand[d]
               /\ failed'[d] = failed[d] /\ stored'[d] = stored[d]
    BY <1>1, <2>1, ConsumerTurns
  <2>l. Len(<<>>) = 0 /\ \A m : Len(<<m>>) = 1
    OBVIOUS
  <2>2. Ok(c)'
    <3>1. CASE /\ cpc[c] # "storing" /\ cpc'[c] # "storing"
               /\ received'[c] = received[c] /\ hand'[c] = <<>>
               /\ failed'[c] = failed[c] /\ stored'[c] = stored[c]
      BY <1>o, <2>0, <2>l, <3>1
    <3>2. CASE /\ cpc[c] # "storing" /\ cpc'[c] = "storing"
               /\ received[c] < Len(delivered[c])
               /\ received'[c] = received[c] + 1
               /\ hand'[c] = <<delivered[c][received[c] + 1]>>
               /\ failed'[c] = failed[c] /\ stored'[c] = stored[c]
      <4>1. count(c)' = count(c)
        BY <3>2
      <4> HIDE DEF count
      <4> QED BY <1>o, <2>0, <2>l, <3>2, <4>1
    <3>3. CASE /\ cpc[c] = "storing" /\ cpc'[c] # "storing"
               /\ received'[c] = received[c] /\ hand'[c] = <<>>
               /\ \E m \in Message :
                    /\ hand[c] = <<m>>
                    /\ \/ failed'[c] = failed[c] /\ stored'[c] = Append(stored[c], m)
                       \/ /\ failed'[c] = failed[c] \cup {m}
                          /\ stored'[c] = stored[c] \/ stored'[c] = Append(stored[c], m)
      <4>1. PICK m \in Message :
              \/ failed'[c] = failed[c] /\ stored'[c] = Append(stored[c], m)
              \/ /\ failed'[c] = failed[c] \cup {m}
                 /\ stored'[c] = stored[c] \/ stored'[c] = Append(stored[c], m)
        BY <3>3
      <4>2. Len(Append(stored[c], m)) = Len(stored[c]) + 1
        BY <1>t
      <4>3. /\ IsFiniteSet(failed[c] \cup {m})
            /\ \A G \in {failed[c], failed[c] \cup {m}},
                  e \in {stored[c], Append(stored[c], m)} : Cardinality(G \ Range(e)) \in Nat
            /\ Cardinality(failed[c] \ Range(Append(stored[c], m))) <= count(c)
            /\ Cardinality((failed[c] \cup {m}) \ Range(stored[c])) <= count(c) + 1
            /\ Cardinality((failed[c] \cup {m}) \ Range(Append(stored[c], m))) <= count(c)
        BY <1>o, <1>t, UnsettledCount
      <4>4. IsFiniteSet(failed'[c]) /\ count(c)' \in Nat /\ Len(stored'[c]) \in Nat
            /\ Len(stored'[c]) + count(c)' <= Len(stored[c]) + count(c) + 1
        <5>0. Len(stored[c]) \in Nat /\ count(c) \in Nat /\ IsFiniteSet(failed[c])
          BY <1>o
        <5>1. CASE failed'[c] = failed[c] /\ stored'[c] = Append(stored[c], m)
          <6>1. /\ count(c)' = Cardinality(failed[c] \ Range(Append(stored[c], m)))
                /\ Cardinality(failed[c] \ Range(Append(stored[c], m))) \in Nat
            BY <4>3, <5>1
          <6>2. count(c)' \in Nat /\ count(c)' <= count(c)
            BY <4>3, <6>1
          <6> HIDE DEF count
          <6> QED BY <4>2, <5>0, <5>1, <6>2
        <5>2. CASE failed'[c] = failed[c] \cup {m} /\ stored'[c] = stored[c]
          <6>1. /\ count(c)' = Cardinality((failed[c] \cup {m}) \ Range(stored[c]))
                /\ Cardinality((failed[c] \cup {m}) \ Range(stored[c])) \in Nat
            BY <4>3, <5>2
          <6>2. count(c)' \in Nat /\ count(c)' <= count(c) + 1
            BY <4>3, <6>1
          <6> HIDE DEF count
          <6> QED BY <4>3, <5>0, <5>2, <6>2
        <5>3. CASE failed'[c] = failed[c] \cup {m} /\ stored'[c] = Append(stored[c], m)
          <6>1. /\ count(c)' = Cardinality((failed[c] \cup {m}) \ Range(Append(stored[c], m)))
                /\ Cardinality((failed[c] \cup {m}) \ Range(Append(stored[c], m))) \in Nat
            BY <4>3, <5>3
          <6>2. count(c)' \in Nat /\ count(c)' <= count(c)
            BY <4>3, <6>1
          <6>3. IsFiniteSet(failed'[c])
            BY <4>3, <5>3
          <6> HIDE DEF count
          <6> QED BY <4>2, <5>0, <5>3, <6>2, <6>3
        <5> QED BY <4>1, <5>1, <5>2, <5>3
      <4> HIDE DEF count
      <4> QED BY <1>o, <2>0, <2>l, <3>3, <4>4
    <3>4. CASE /\ cpc'[c] = cpc[c] /\ received'[c] = received[c] /\ hand'[c] = hand[c]
               /\ failed'[c] = failed[c]
               /\ \E m \in Unsettled(c) : stored'[c] = Append(stored[c], m)
      <4>1. PICK m \in failed[c] \ Range(stored[c]) : stored'[c] = Append(stored[c], m)
        BY <3>4 DEF Unsettled
      <4>2. m \in Message
        BY <1>t
      <4>3. Len(stored'[c]) = Len(stored[c]) + 1
        BY <1>t, <4>1, <4>2
      <4>4. count(c)' \in Nat /\ count(c)' + 1 <= count(c)
        <5>1. /\ Cardinality(failed[c] \ Range(Append(stored[c], m))) \in Nat
              /\ Cardinality(failed[c] \ Range(Append(stored[c], m))) + 1 <= count(c)
          BY <1>o, <1>t, <4>1, <4>2, UnsettledCount
        <5> QED BY <3>4, <4>1, <5>1
      <4> HIDE DEF count
      <4>5. /\ Ok(c) /\ Len(stored[c]) \in Nat /\ Len(hand[c]) \in Nat
            /\ count(c) \in Nat /\ received[c] \in Nat
        BY <1>o
      <4>6. Len(stored'[c]) + count(c)' + Len(hand[c]) <= received[c]
        BY <4>3, <4>4, <4>5
      <4> QED BY <2>0, <3>4, <4>5, <4>6
    <3> QED BY <1>1, <3>1, <3>2, <3>3, <3>4, ConsumerTurns
  <2>3. ASSUME NEW d \in Consumers PROVE Ok(d)'
    <3>1. CASE d = c
      BY <2>2, <3>1
    <3>2. CASE d # c
      BY <1>o, <2>0, <2>1, <3>2
    <3> QED BY <3>1, <3>2
  <2> QED BY <2>t, <2>3 DEF ConsumersOK, Unsettled
<1>2. CASE UNCHANGED consumer
  <2>1. UNCHANGED <<received, failed, stored, hand, cpc>>
    BY <1>2 DEF consumer
  <2>2. ASSUME NEW c \in Consumers PROVE Ok(c)'
    <3>1. count(c)' = count(c)
      BY <2>1
    <3> HIDE DEF count
    <3>2. received[c] <= Len(delivered'[c])
      <4>1. received[c] <= Len(delivered[c]) /\ received[c] \in Nat
            /\ Len(delivered[c]) \in Nat
        BY <1>o
      <4>2. Len(delivered[c]) <= Len(delivered'[c]) /\ Len(delivered'[c]) \in Nat
        BY <1>d
      <4> QED BY <4>1, <4>2
    <3> QED BY <1>o, <2>1, <3>1, <3>2
  <2> QED BY <1>t, <2>1, <2>2 DEF ConsumersOK, Unsettled
<1>3. CASE UNCHANGED vars
  BY <1>2, <1>3 DEF vars
<1>4. ASSUME NEW p \in Producers, ProducerStep(p) PROVE UNCHANGED consumer
  BY <1>4, ProducerSteps
<1>5. CASE Next
  BY <1>1, <1>2, <1>4, <1>5, BrokerSteps DEF Next
<1> QED BY <1>3, <1>5

\* Every step keeps every variable in its type.
LEMMA TypeStep == TypeOK /\ [Next]_vars => TypeOK'
<1> SUFFICES ASSUME TypeOK, [Next]_vars PROVE TypeOK'
  OBVIOUS
<1>1. BrokerOK' /\ ConsumersOK'
  BY BrokerMoves, ConsumersStep
<1>2. ASSUME NEW p \in Producers, ProducerStep(p) PROVE TypeOK'
  <2>1. ProducersOK' /\ \A q \in Producers : Len(sent[q]) <= Len(sent'[q])
    BY <1>2, ProducersStep
  <2>2. UNCHANGED <<malformed, offered>>
    BY <1>2, ProducerSteps DEF environment, broker, fanOut
  <2>3. ASSUME NEW q \in Producers PROVE offered'[q] <= Len(sent'[q])
    <3>1. /\ sent[q] \in Seq(1..Rows) /\ sent'[q] \in Seq(1..Rows)
          /\ offered[q] <= Len(sent[q]) /\ offered[q] \in 0..Rows
          /\ Rows \in Nat
      BY <2>1, PipelineAssumption DEF TypeOK, ProducersOK, BrokerOK
    <3> QED BY <2>1, <2>2, <3>1
  <2> QED BY <1>1, <2>1, <2>2, <2>3 DEF TypeOK
<1>3. CASE UNCHANGED <<malformed, producer>>
  <2>1. ProducersOK'
    BY <1>3 DEF TypeOK, ProducersOK, producer
  <2>2. \A p \in Producers : offered'[p] <= Len(sent'[p])
    BY <1>3, BrokerMoves DEF producer
  <2> QED BY <1>1, <1>3, <2>1, <2>2 DEF TypeOK
<1>4. ASSUME NEW c \in Consumers, ConsumerStep(c) PROVE TypeOK'
  BY <1>3, <1>4, ConsumerSteps DEF environment
<1>5. CASE Next
  BY <1>2, <1>3, <1>4, <1>5, BrokerSteps DEF Next, environment
<1> QED BY <1>3, <1>5 DEF vars, environment

\* The type invariant: in particular the broker reads no frame that was not
\* written, and a consumer inserts each frame it reads at most once.
THEOREM TypeCorrect == Spec => []TypeOK
  BY TypeInit, TypeStep, PTL DEF Spec

-----------------------------------------------------------------------------
(* Producers write the file from its beginning, one run at a time.         *)

\* Nothing has been written, and no run has started, initially.
LEMMA ProducersInit == Init => WritesFile /\ RunsInTurn
  BY DEF Init, WritesFile, RunsInTurn

\* Every step keeps what producers have written the beginning of the file.
LEMMA WritesFileStep == TypeOK /\ WritesFile /\ [Next]_vars => WritesFile'
<1> SUFFICES ASSUME TypeOK, WritesFile, [Next]_vars PROVE WritesFile'
  OBVIOUS
<1>t. /\ ppc \in [Producers -> {"new", "streaming", "completed", "failed"}]
      /\ row \in [Producers -> 0..Rows]
      /\ sent \in [Producers -> Seq(1..Rows)]
      /\ \A q \in Producers : Len(sent[q]) <= row[q]
      /\ Rows \in Nat
  BY PipelineAssumption DEF TypeOK, ProducersOK
<1>1. CASE UNCHANGED producer
  BY <1>1 DEF WritesFile, producer
<1>2. ASSUME NEW p \in Producers, ProducerStep(p) PROVE WritesFile'
  <2> DEFINE Ok(q) ==
        /\ \A i \in DOMAIN sent[q] : sent[q][i] = i
        /\ ppc[q] = "new" => row[q] = 0
        /\ ppc[q] \in {"streaming", "completed"} => Len(sent[q]) = row[q]
        /\ ppc[q] = "completed" => row[q] = Rows
  <2>1. Ok(p) /\ \A q \in Producers : Ok(q)
    BY DEF WritesFile
  <2>2. row[p] \in 0..Rows /\ Len(sent[p]) \in Nat /\ Len(sent[p]) <= row[p]
        /\ sent[p] \in Seq(1..Rows)
    BY <1>t
  <2>3. Ok(p)'
    <3>1. CASE StartProducer(p)
      <4>1. /\ row[p] = 0 /\ row' = row /\ sent' = sent
            /\ ppc'[p] \in {"streaming", "failed"}
        BY <1>t, <2>1, <3>1 DEF StartProducer, NewMetricsCSVReader
      <4>2. Len(sent[p]) = 0
        BY <2>2, <4>1
      <4> QED BY <2>1, <4>1, <4>2
    <3>2. CASE ReadRowError(p) \/ KillProducer(p)
      <4>1. sent' = sent /\ ppc'[p] = "failed"
        BY <1>t, <3>2 DEF ReadRowError, ReturnError, KillProducer
      <4> QED BY <2>1, <4>1
    <3>3. CASE Complete(p)
      <4>1. /\ UNCHANGED <<row, sent>>
            /\ ppc[p] = "streaming" /\ ppc'[p] = "completed"
            /\ row[p] + 1 > Rows
        BY <1>t, <3>3 DEF Complete, GetsEOF, NextRow
      <4>2. row[p] = Rows
        BY <1>t, <2>2, <4>1
      <4> QED BY <2>1, <4>1, <4>2
    <3>4. CASE StreamRow(p)
      <4>1. CASE sent' = sent /\ ppc' = [ppc EXCEPT ![p] = "failed"]
        BY <1>t, <2>1, <4>1
      <4>2. CASE sent' = [sent EXCEPT ![p] = Append(@, NextRow(p))] /\ ppc' = ppc
        <5>1. /\ ppc[p] = "streaming" /\ ppc'[p] = "streaming"
              /\ NextRow(p) \in 1..Rows /\ NextRow(p) = row[p] + 1
              /\ row'[p] = row[p] + 1
          BY <1>t, <3>4, <4>2 DEF StreamRow, GetsRow, NextRow
        <5>2. sent'[p] = Append(sent[p], row[p] + 1) /\ Len(sent[p]) = row[p]
          BY <1>t, <2>1, <4>2, <5>1
        <5>3. Len(sent'[p]) = row'[p]
          BY <2>2, <5>1, <5>2
        <5>4. \A i \in DOMAIN sent'[p] : sent'[p][i] = i
          BY <2>1, <2>2, <5>1, <5>2
        <5> QED BY <5>1, <5>3, <5>4
      <4> QED BY <3>4, <4>1, <4>2 DEF StreamRow
    <3> QED BY <1>2, <3>1, <3>2, <3>3, <3>4 DEF ProducerStep
  <2>4. ASSUME NEW q \in Producers, q # p
        PROVE  ppc'[q] = ppc[q] /\ row'[q] = row[q] /\ sent'[q] = sent[q]
    BY <1>2, <1>t, <2>4 DEF ProducerStep, StartProducer, StreamRow, ReadRowError,
                           Complete, KillProducer
  <2>5. ASSUME NEW q \in Producers PROVE Ok(q)'
    <3>1. CASE q = p
      BY <2>3, <3>1
    <3>2. CASE q # p
      BY <2>1, <2>4, <3>2
    <3> QED BY <3>1, <3>2
  <2> QED BY <2>5 DEF WritesFile
<1>3. ASSUME NEW c \in Consumers, ConsumerStep(c) PROVE WritesFile'
  BY <1>1, <1>3, ConsumerSteps
<1>4. CASE Next
  BY <1>1, <1>2, <1>3, <1>4, BrokerSteps DEF Next
<1> QED BY <1>1, <1>4 DEF vars

\* Every step starts a container's run only after all earlier runs failed.
LEMMA RunsInTurnStep == TypeOK /\ RunsInTurn /\ [Next]_vars => RunsInTurn'
<1> SUFFICES ASSUME TypeOK, RunsInTurn, [Next]_vars PROVE RunsInTurn'
  OBVIOUS
<1>t. ppc \in [Producers -> {"new", "streaming", "completed", "failed"}]
  BY DEF TypeOK, ProducersOK
<1>1. CASE UNCHANGED ppc
  BY <1>1 DEF RunsInTurn
<1>2. ASSUME NEW p \in Producers, ProducerStep(p) PROVE RunsInTurn'
  <2>1. \A q \in Producers : q # p => ppc'[q] = ppc[q]
    BY <1>2, <1>t DEF ProducerStep, StartProducer, StreamRow, ReadRowError,
                     Complete, KillProducer
  <2>2. CASE StartProducer(p)
    <3>1. ppc[p] = "new" /\ (p[2] > 1 => ppc[<<p[1], p[2] - 1>>] = "failed")
      BY <2>2 DEF StartProducer, OnFailure
    \* The runs before p had failed: the one before it had, and so those before.
    <3>2. ASSUME NEW q \in Producers, q[1] = p[1], q[2] < p[2]
          PROVE  ppc[q] = "failed"
      <4>1. /\ p \in ProducerPods \X (1..ProducerRuns)
            /\ q \in ProducerPods \X (1..ProducerRuns)
            /\ ProducerRuns \in Nat
        BY PipelineAssumption DEF Producers
      <4>2. /\ p[1] \in ProducerPods /\ p[2] \in 1..ProducerRuns
            /\ q[1] \in ProducerPods /\ q[2] \in 1..ProducerRuns
            /\ q = <<q[1], q[2]>>
        BY <4>1
      <4> DEFINE before == <<p[1], p[2] - 1>>
      <4>3. p[2] > 1 /\ before \in Producers
            /\ before[1] = p[1] /\ before[2] = p[2] - 1
        BY <3>2, <4>1, <4>2 DEF Producers
      <4>4. ppc[before] = "failed"
        BY <3>1, <4>3
      <4>5. CASE q[2] = p[2] - 1
        BY <3>2, <4>2, <4>4, <4>5
      <4>6. CASE q[2] < p[2] - 1
        BY <3>2, <4>3, <4>4, <4>6 DEF RunsInTurn
      <4> QED BY <3>2, <4>1, <4>2, <4>5, <4>6
    \* No later run had started: p would have failed.
    <3>3. ASSUME NEW q \in Producers, q[1] = p[1], p[2] < q[2]
          PROVE  ppc[q] = "new"
      BY <3>1, <3>3 DEF RunsInTurn
    <3>4. ASSUME NEW q \in Producers, NEW r \in Producers,
                 q[1] = r[1], q[2] < r[2], ppc'[r] # "new"
          PROVE  ppc'[q] = "failed"
      <4>1. q \in ProducerPods \X (1..ProducerRuns) /\ ProducerRuns \in Nat
        BY PipelineAssumption DEF Producers
      <4>2. q[2] \in Nat
        BY <4>1
      <4>3. q # r
        BY <3>4, <4>2
      <4>4. CASE r = p
        BY <2>1, <3>2, <3>4, <4>3, <4>4
      <4>5. CASE q = p
        BY <2>1, <3>3, <3>4, <4>3, <4>5
      <4>6. CASE r # p /\ q # p
        BY <2>1, <3>4, <4>6 DEF RunsInTurn
      <4> QED BY <4>4, <4>5, <4>6
    <3> QED BY <3>4 DEF RunsInTurn
  <2>3. CASE StreamRow(p) \/ ReadRowError(p) \/ Complete(p) \/ KillProducer(p)
    <3>1. ppc[p] = "streaming"
      BY <2>3 DEF StreamRow, ReadRowError, Complete, KillProducer
    <3>2. \A q \in Producers : ppc'[q] # "new" => ppc[q] # "new"
      BY <2>1, <3>1
    <3>3. \A q \in Producers : ppc[q] = "failed" => ppc'[q] = "failed"
      BY <2>1, <3>1
    <3> QED BY <3>2, <3>3 DEF RunsInTurn
  <2> QED BY <1>2, <2>2, <2>3 DEF ProducerStep
<1>3. ASSUME NEW c \in Consumers, ConsumerStep(c) PROVE UNCHANGED ppc
  BY <1>3, ConsumerSteps DEF producer
<1>4. CASE Next
  BY <1>1, <1>2, <1>3, <1>4, BrokerSteps DEF Next, producer
<1> QED BY <1>1, <1>4 DEF vars, producer

\* A producer that exits with status 0 has written the whole file, whatever
\* rows of it are malformed and however often its container was started over.
THEOREM CompletedPodsWroteTheFile == Spec => []CompletedMeansWhole
<1>1. TypeOK /\ WritesFile => CompletedMeansWhole
  <2> SUFFICES ASSUME TypeOK, WritesFile, NEW p \in Producers, ppc[p] = "completed"
               PROVE  sent[p] = [n \in 1..Rows |-> n]
    BY DEF CompletedMeansWhole
  <2>1. sent[p] \in Seq(1..Rows) /\ Rows \in Nat
    BY PipelineAssumption DEF TypeOK, ProducersOK
  <2>2. Len(sent[p]) = Rows /\ \A i \in DOMAIN sent[p] : sent[p][i] = i
    BY DEF WritesFile
  <2>3. DOMAIN sent[p] = 1..Rows /\ sent[p] = [i \in DOMAIN sent[p] |-> sent[p][i]]
    BY <2>1, <2>2
  <2> QED BY <2>2, <2>3
<1> QED
  BY <1>1, TypeInit, TypeStep, ProducersInit, WritesFileStep, PTL DEF Spec

-----------------------------------------------------------------------------
(* The frames in the broker.                                               *)

\* A frame in a sequence of frames names a producer and a row.
LEMMA RangeMessage ==
  ASSUME NEW s \in Seq(Message), NEW m \in Range(s)
  PROVE  m \in Message /\ m.from \in Producers /\ m.seq \in 1..Rows
  BY RangeType DEF Message

\* There are no frames initially.
LEMMA BrokerInit == Init => OneMode /\ OnTheWay /\ Apart
<1> SUFFICES ASSUME Init PROVE OneMode /\ OnTheWay /\ Apart
  OBVIOUS
<1>0. Range(<<>>) = {}
  BY RangeShort
<1>1. InOrder(<<>>) /\ Range(<<>>) = {}
  BY <1>0 DEF InOrder
<1>2. /\ waiting = <<>>
      /\ \A c \in Consumers : pending[c] = <<>> /\ delivered[c] = <<>> /\ taken[c] = <<>>
      /\ \A p \in Producers : offered[p] = 0 /\ last[p] = 0
  BY DEF Init, Broadcast!Init, Queue!Init
<1> QED BY <1>1, <1>2 DEF OneMode, OnTheWay, Apart, Has, Accepted, NotAhead, Before

\* Every step keeps to the broker's mode, and queues frames it was offered.
LEMMA OneModeStep == TypeOK /\ OneMode /\ [Next]_vars => OneMode'
<1> SUFFICES ASSUME TypeOK, OneMode, [Next]_vars PROVE OneMode'
  OBVIOUS
<1>t. /\ mode \in {"broadcast", "queue"}
      /\ offered \in [Producers -> 0..Rows]
      /\ last \in [Producers -> 0..Rows]
      /\ waiting \in Seq(Message)
      /\ pending \in [Consumers -> Seq(Message)]
      /\ delivered \in [Consumers -> Seq(Message)]
      /\ taken \in [Consumers -> Seq(Message)]
      /\ Rows \in Nat
  BY PipelineAssumption DEF TypeOK, BrokerOK
<1> USE DEF broker, fanOut, workQueue, environment
<1>1. CASE \/ \E p \in Producers : ProducerStep(p)
           \/ \E c \in Consumers : ConsumerStep(c) \/ BrokerCuts(c)
           \/ UNCHANGED vars
  BY <1>1, ProcessSteps DEF OneMode, Accepted
<1>2. ASSUME NEW p \in Producers, BrokerReads(p) PROVE OneMode'
  <2>1. /\ UNCHANGED <<mode, last, waiting, pending, delivered, taken>>
        /\ offered' = [offered EXCEPT ![p] = @ + 1]
    BY <1>2 DEF BrokerReads, Broadcast!Offer
  <2>2. \A q \in Producers : last[q] <= offered'[q]
    <3> TAKE q \in Producers
    <3>1. last[q] <= offered[q] /\ last[q] \in Nat /\ offered[q] \in Nat
      BY <1>t DEF OneMode
    <3>2. offered'[q] = offered[q] \/ offered'[q] = offered[q] + 1
      BY <1>t, <2>1
    <3> QED BY <3>1, <3>2
  <2> QED BY <2>1, <2>2 DEF OneMode, Accepted
<1>3. ASSUME NEW p \in Producers, Enqueue(p) PROVE OneMode'
  <2> DEFINE m == [from |-> p, seq |-> offered[p]]
  <2>1. /\ mode = "queue"
        /\ UNCHANGED <<mode, offered, pending, delivered, taken>>
        /\ last' = [last EXCEPT ![p] = offered[p]]
        /\ last[p] < offered[p]
        /\ waiting' = Append(waiting, m)
    BY <1>3 DEF Enqueue, Queue!Accept
  <2>2. m \in Message
    <3>1. offered[p] \in 1..Rows
      BY <1>t, <2>1
    <3> QED BY <3>1 DEF Message
  <2>3. Range(waiting') = Range(waiting) \cup {m}
    <3> HIDE DEF m
    <3> QED BY <1>t, <2>1, <2>2, RangeAppend
  <2>4. \A q \in Producers : last[q] <= last'[q] /\ last'[q] <= offered[q]
    <3> TAKE q \in Producers
    <3>1. last[q] <= offered[q] /\ last[q] \in Nat /\ offered[q] \in Nat
      BY <1>t DEF OneMode
    <3>2. last'[q] = IF q = p THEN offered[q] ELSE last[q]
      BY <1>t, <2>1
    <3> QED BY <3>1, <3>2
  <2>5. ASSUME NEW s \in Seq(Message), Accepted(s)
        PROVE  \A n \in Range(s) : n.seq <= last'[n.from]
    <3> TAKE n \in Range(s)
    <3>1. n.from \in Producers /\ n.seq \in Nat /\ n.seq <= last[n.from]
      BY <1>t, <2>5, RangeMessage DEF Accepted
    <3>2. last[n.from] \in Nat /\ last'[n.from] \in Nat
      BY <1>t, <2>1, <3>1
    <3> QED BY <2>4, <3>1, <3>2
  <2>6. Accepted(waiting)'
    <3>1. \A n \in Range(waiting) : n.seq <= last'[n.from]
      BY <1>t, <2>1, <2>5 DEF OneMode
    <3>2. m.seq <= last'[m.from]
      BY <1>t, <2>1
    <3> QED BY <2>3, <3>1, <3>2 DEF Accepted
  <2>7. \A c \in Consumers : Accepted(taken[c])' /\ Accepted(delivered[c])'
    <3> TAKE c \in Consumers
    <3>1. \A n \in Range(taken[c]) : n.seq <= last'[n.from]
      BY <1>t, <2>1, <2>5 DEF OneMode
    <3>2. \A n \in Range(delivered[c]) : n.seq <= last'[n.from]
      BY <1>t, <2>1, <2>5 DEF OneMode
    <3> QED BY <2>1, <3>1, <3>2 DEF Accepted
  <2> QED BY <2>1, <2>4, <2>6, <2>7 DEF OneMode
<1>4. ASSUME NEW c \in Consumers,
             BrokerWrites(c) \/ \E p \in Producers : BrokerAccepts(p, c)
      PROVE  OneMode'
  <2>1. mode = "broadcast" /\ UNCHANGED <<mode, offered, last, waiting, taken>>
    BY <1>4 DEF BrokerAccepts, BrokerWrites, Broadcasts, Broadcast!Accept,
                Broadcast!Deliver
  <2> QED BY <2>1 DEF OneMode
<1>5. ASSUME NEW c \in Consumers, Dequeue(c) PROVE OneMode'
  <2>1. /\ mode = "queue"
        /\ UNCHANGED <<mode, offered, last, pending, delivered>>
        /\ waiting # <<>>
        /\ taken' = [taken EXCEPT ![c] = <<Head(waiting)>>]
        /\ waiting' = Tail(waiting)
    BY <1>5 DEF Dequeue, Queue!Take
  <2>2. Range(waiting) = {Head(waiting)} \cup Range(waiting')
    BY <1>t, <2>1, RangeTail
  <2>3. \A d \in Consumers : Accepted(taken[d])'
    <3> TAKE d \in Consumers
    <3>1. CASE d = c
      <4>1. Range(taken'[d]) = {Head(waiting)}
        BY <1>t, <2>1, <3>1, RangeShort
      <4> QED BY <2>1, <2>2, <4>1 DEF OneMode, Accepted
    <3>2. CASE d # c
      BY <1>t, <2>1, <3>2 DEF OneMode, Accepted
    <3> QED BY <3>1, <3>2
  <2> QED BY <2>1, <2>2, <2>3 DEF OneMode, Accepted
<1>6. ASSUME NEW c \in Consumers, WriteDequeued(c) \/ WriteFails(c) PROVE OneMode'
  <2>1. /\ UNCHANGED <<mode, offered, last, waiting, pending>>
        /\ taken[c] # <<>>
        /\ taken' = [taken EXCEPT ![c] = <<>>]
        /\ \/ delivered' = delivered
           \/ delivered' = [delivered EXCEPT ![c] = Append(@, Head(taken[c]))]
    BY <1>6 DEF WriteDequeued, WriteFails, Queue!Deliver, Queue!Lose
  <2>2. mode = "queue"
    BY <1>t, <2>1 DEF OneMode
  <2>3. /\ Head(taken[c]) \in Message /\ Head(taken[c]) \in Range(taken[c])
        /\ Range(Append(delivered[c], Head(taken[c])))
             = Range(delivered[c]) \cup {Head(taken[c])}
    BY <1>t, <2>1, TailType, RangeTail, RangeAppend
  <2>4. \A d \in Consumers : /\ Range(taken'[d]) \subseteq Range(taken[d])
                             /\ Range(delivered'[d]) \subseteq
                                  Range(delivered[d]) \cup Range(taken[d])
    <3> TAKE d \in Consumers
    <3>1. CASE d = c
      BY <1>t, <2>1, <2>3, <3>1, RangeShort
    <3>2. CASE d # c
      BY <1>t, <2>1, <3>2
    <3> QED BY <3>1, <3>2
  <2> QED BY <2>1, <2>2, <2>4 DEF OneMode, Accepted
<1>7. CASE Next
  BY <1>1, <1>2, <1>3, <1>4, <1>5, <1>6, <1>7 DEF Next
<1> QED BY <1>1, <1>7

\* The frame a producer has offered last is newer than those of s.
LEMMA OfferedLast ==
  ASSUME TypeOK, NEW p \in Producers, NEW s \in Seq(Message), NotAhead(s),
         [from |-> p, seq |-> offered[p]] \notin Range(s)
  PROVE  \A n \in Range(s) : n.from = p => n.seq < offered[p]
<1>1. ASSUME NEW n \in Range(s), n.from = p PROVE n.seq < offered[p]
  <2>1. n \in Message /\ n.seq \in 1..Rows /\ n.seq <= offered[p]
    BY <1>1, RangeMessage DEF NotAhead
  <2>2. n = [from |-> n.from, seq |-> n.seq]
    BY <2>1 DEF Message
  <2>3. n.seq # offered[p]
    BY <1>1, <2>2
  <2>4. offered[p] \in 0..Rows /\ Rows \in Nat
    BY PipelineAssumption DEF TypeOK, BrokerOK
  <2> QED BY <2>1, <2>3, <2>4
<1> QED BY <1>1

\* Every step keeps the frames on their way to a consumer in order.
LEMMA OnTheWayStep ==
  TypeOK /\ OneMode /\ OnTheWay /\ [Next]_vars => OnTheWay'
<1> SUFFICES ASSUME TypeOK, OneMode, OnTheWay, [Next]_vars PROVE OnTheWay'
  OBVIOUS
<1>t. /\ mode \in {"broadcast", "queue"}
      /\ offered \in [Producers -> 0..Rows]
      /\ last \in [Producers -> 0..Rows]
      /\ waiting \in Seq(Message)
      /\ pending \in [Consumers -> Seq(Message)]
      /\ delivered \in [Consumers -> Seq(Message)]
      /\ taken \in [Consumers -> Seq(Message)]
      /\ Rows \in Nat
  BY PipelineAssumption DEF TypeOK, BrokerOK
<1> USE DEF broker, fanOut, workQueue, environment
<1>e. InOrder(<<>>) /\ Range(<<>>) = {}
  <2>1. Range(<<>>) = {}
    BY RangeShort
  <2> QED BY <2>1 DEF InOrder
\* What OnTheWay says of one consumer, of the old state and of the new one.
<1> DEFINE Way(c) ==
      /\ InOrder(delivered[c]) /\ InOrder(pending[c])
      /\ Before(delivered[c], pending[c])
      /\ Before(delivered[c], taken[c])
      /\ Before(delivered[c], waiting)
      /\ Before(taken[c], waiting)
      /\ NotAhead(delivered[c]) /\ NotAhead(pending[c])
<1>w. InOrder(waiting) /\ \A c \in Consumers : Way(c)
  BY DEF OnTheWay
<1>1. CASE \/ \E p \in Producers : ProducerStep(p)
           \/ \E c \in Consumers : ConsumerStep(c) \/ BrokerCuts(c)
           \/ UNCHANGED vars
  <2>1. /\ UNCHANGED <<offered, waiting, delivered, taken>>
        /\ \A c \in Consumers : pending'[c] = pending[c] \/ pending'[c] = <<>>
    BY <1>1, ProcessSteps
  <2>2. ASSUME NEW c \in Consumers PROVE Way(c)'
    <3>1. CASE pending'[c] = pending[c]
      BY <1>w, <2>1, <3>1 DEF NotAhead
    <3>2. CASE pending'[c] = <<>>
      BY <1>e, <1>w, <2>1, <3>2 DEF NotAhead, Before
    <3> QED BY <2>1, <3>1, <3>2
  <2> QED BY <1>w, <2>1, <2>2 DEF OnTheWay
<1>2. ASSUME NEW p \in Producers, BrokerReads(p) PROVE OnTheWay'
  <2>1. /\ UNCHANGED <<waiting, pending, delivered, taken>>
        /\ offered' = [offered EXCEPT ![p] = @ + 1]
    BY <1>2 DEF BrokerReads, Broadcast!Offer
  <2>2. ASSUME NEW s \in Seq(Message), NotAhead(s)
        PROVE  \A m \in Range(s) : m.seq <= offered'[m.from]
    <3> TAKE m \in Range(s)
    <3>1. m.from \in Producers /\ m.seq \in Nat /\ m.seq <= offered[m.from]
      BY <1>t, <2>2, RangeMessage DEF NotAhead
    <3>2. /\ offered[m.from] \in Nat
          /\ offered'[m.from] = offered[m.from] \/ offered'[m.from] = offered[m.from] + 1
      BY <1>t, <2>1, <3>1
    <3> QED BY <3>1, <3>2
  <2>3. ASSUME NEW c \in Consumers
        PROVE  NotAhead(delivered[c])' /\ NotAhead(pending[c])'
    <3>1. \A m \in Range(delivered[c]) : m.seq <= offered'[m.from]
      BY <1>t, <1>w, <2>2
    <3>2. \A m \in Range(pending[c]) : m.seq <= offered'[m.from]
      BY <1>t, <1>w, <2>2
    <3> QED BY <2>1, <3>1, <3>2 DEF NotAhead
  <2> QED BY <1>w, <2>1, <2>3 DEF OnTheWay
<1>3. ASSUME NEW p \in Producers, Enqueue(p) PROVE OnTheWay'
  <2> DEFINE m == [from |-> p, seq |-> offered[p]]
  <2>1. /\ mode = "queue"
        /\ UNCHANGED <<offered, pending, delivered, taken>>
        /\ last[p] < offered[p]
        /\ waiting' = Append(waiting, m)
    BY <1>3 DEF Enqueue, Queue!Accept
  <2>2. m \in Message /\ m.from = p /\ m.seq = offered[p]
    <3>1. offered[p] \in 1..Rows
      BY <1>t, <2>1
    <3> QED BY <3>1 DEF Message
  <2> HIDE DEF m
  <2>3. ASSUME NEW s \in Seq(Message), Accepted(s)
        PROVE  \A n \in Range(s) : n.from = m.from => n.seq < m.seq
    <3> TAKE n \in Range(s)
    <3>1. n.seq \in Nat /\ n.seq <= last[n.from]
      BY <1>t, <2>3, RangeMessage DEF Accepted
    <3>2. last[p] \in Nat /\ offered[p] \in Nat
      BY <1>t
    <3> QED BY <2>1, <2>2, <3>1, <3>2
  <2>4. Range(waiting') = Range(waiting) \cup {m}
    BY <1>t, <2>1, <2>2, RangeAppend
  <2>5. InOrder(waiting')
    <3>1. \A n \in Range(waiting) : n.from = m.from => n.seq < m.seq
      BY <1>t, <2>1, <2>3 DEF OneMode
    <3> QED BY <1>t, <1>w, <2>1, <2>2, <3>1, AppendOrder
  <2>6. ASSUME NEW c \in Consumers PROVE Way(c)'
    <3>1. \A n \in Range(taken[c]) : n.from = m.from => n.seq < m.seq
      BY <1>t, <2>1, <2>3 DEF OneMode
    <3>2. \A n \in Range(delivered[c]) : n.from = m.from => n.seq < m.seq
      BY <1>t, <2>1, <2>3 DEF OneMode
    <3>3. Before(delivered[c], waiting') /\ Before(taken[c], waiting')
      BY <1>w, <2>4, <3>1, <3>2 DEF Before
    <3> QED BY <1>w, <2>1, <3>3 DEF NotAhead
  <2> QED BY <2>5, <2>6 DEF OnTheWay
<1>4. ASSUME NEW p \in Producers, NEW c \in Consumers, BrokerAccepts(p, c)
      PROVE  OnTheWay'
  <2> DEFINE m == [from |-> p, seq |-> offered[p]]
  <2>1. /\ mode = "broadcast"
        /\ UNCHANGED <<offered, waiting, delivered, taken>>
        /\ offered[p] > 0
        /\ m \notin Range(pending[c]) \cup Range(delivered[c])
        /\ pending' = [pending EXCEPT ![c] = Append(@, m)]
    BY <1>4 DEF BrokerAccepts, Broadcasts, Broadcast!Accept, Broadcast!Range, Range
  <2>2. m \in Message /\ m.from = p /\ m.seq = offered[p]
    <3>1. offered[p] \in 1..Rows
      BY <1>t, <2>1
    <3> QED BY <3>1 DEF Message
  <2>3. /\ \A n \in Range(pending[c]) : n.from = p => n.seq < offered[p]
        /\ \A n \in Range(delivered[c]) : n.from = p => n.seq < offered[p]
    BY <1>t, <1>w, <2>1, OfferedLast
  <2> HIDE DEF m
  <2>4. /\ pending'[c] = Append(pending[c], m)
        /\ Range(pending'[c]) = Range(pending[c]) \cup {m}
    BY <1>t, <2>1, <2>2, RangeAppend
  <2>5. InOrder(pending'[c])
    BY <1>t, <1>w, <2>2, <2>3, <2>4, AppendOrder
  <2>6. Before(delivered[c], pending'[c])
    BY <1>w, <2>2, <2>3, <2>4 DEF Before
  <2>7. \A n \in Range(pending'[c]) : n.seq <= offered[n.from]
    <3>1. m.seq <= offered[m.from]
      BY <1>t, <2>2
    <3> QED BY <1>w, <2>4, <3>1 DEF NotAhead
  <2>8. ASSUME NEW d \in Consumers PROVE Way(d)'
    <3>1. CASE d = c
      BY <1>w, <2>1, <2>5, <2>6, <2>7, <3>1 DEF NotAhead
    <3>2. CASE d # c
      <4>1. pending'[d] = pending[d]
        BY <1>t, <2>1, <3>2
      <4> QED BY <1>w, <2>1, <4>1 DEF NotAhead
    <3> QED BY <3>1, <3>2
  <2> QED BY <1>w, <2>1, <2>8 DEF OnTheWay
<1>5. ASSUME NEW c \in Consumers, BrokerWrites(c) PROVE OnTheWay'
  <2> DEFINE m == Head(pending[c])
  <2>1. /\ mode = "broadcast"
        /\ UNCHANGED <<offered, waiting, taken>>
        /\ pending[c] # <<>>
        /\ delivered' = [delivered EXCEPT ![c] = Append(@, m)]
        /\ pending' = [pending EXCEPT ![c] = Tail(@)]
    BY <1>5 DEF BrokerWrites, Broadcasts, Broadcast!Deliver
  <2>2. waiting = <<>> /\ taken[c] = <<>>
    BY <2>1 DEF OneMode
  <2>3. /\ m \in Message
        /\ delivered'[c] = Append(delivered[c], m)
        /\ pending'[c] = Tail(pending[c])
    BY <1>t, <2>1, TailType
  <2>4. /\ Range(pending[c]) = {m} \cup Range(pending'[c])
        /\ InOrder(pending'[c]) /\ Before(<<m>>, pending'[c])
    BY <1>t, <1>w, <2>1, <2>3, RangeTail, TailOrder
  <2> HIDE DEF m
  <2>5. Range(delivered'[c]) = Range(delivered[c]) \cup {m} /\ Range(<<m>>) = {m}
    BY <1>t, <2>3, RangeAppend, RangeShort
  <2>6. InOrder(delivered'[c])
    BY <1>t, <1>w, <2>3, <2>4, AppendOrder DEF Before
  <2>7. Before(delivered'[c], pending'[c])
    BY <1>w, <2>4, <2>5 DEF Before
  <2>8. Before(delivered'[c], <<>>)
    BY <1>e DEF Before
  <2>9. /\ \A n \in Range(delivered'[c]) : n.seq <= offered[n.from]
        /\ \A n \in Range(pending'[c]) : n.seq <= offered[n.from]
    BY <1>w, <2>4, <2>5 DEF NotAhead
  <2>10. ASSUME NEW d \in Consumers PROVE Way(d)'
    <3>1. CASE d = c
      BY <1>w, <2>1, <2>2, <2>4, <2>6, <2>7, <2>8, <2>9, <3>1 DEF NotAhead
    <3>2. CASE d # c
      <4>1. pending'[d] = pending[d] /\ delivered'[d] = delivered[d]
        BY <1>t, <2>1, <3>2
      <4> QED BY <1>w, <2>1, <4>1 DEF NotAhead
    <3> QED BY <3>1, <3>2
  <2> QED BY <1>w, <2>1, <2>10 DEF OnTheWay
<1>6. ASSUME NEW c \in Consumers, Dequeue(c) PROVE OnTheWay'
  <2> DEFINE m == Head(waiting)
  <2>1. /\ UNCHANGED <<offered, pending, delivered>>
        /\ waiting # <<>>
        /\ taken' = [taken EXCEPT ![c] = <<m>>]
        /\ waiting' = Tail(waiting)
    BY <1>6 DEF Dequeue, Queue!Take
  <2>2. /\ Range(waiting) = {m} \cup Range(waiting')
        /\ InOrder(waiting') /\ Before(<<m>>, waiting')
    BY <1>t, <1>w, <2>1, RangeTail, TailOrder
  <2> HIDE DEF m
  <2>3. Range(<<m>>) = {m}
    BY RangeShort
  <2>4. ASSUME NEW d \in Consumers PROVE Way(d)'
    <3>1. Before(delivered[d], waiting') /\ Before(taken[d], waiting')
      BY <1>w, <2>2 DEF Before
    <3>2. CASE d = c
      <4>1. taken'[d] = <<m>>
        BY <1>t, <2>1, <3>2
      <4>2. Before(delivered[d], <<m>>)
        BY <1>w, <2>2, <2>3 DEF Before
      <4> QED BY <1>w, <2>1, <2>2, <3>1, <4>1, <4>2 DEF NotAhead
    <3>3. CASE d # c
      <4>1. taken'[d] = taken[d]
        BY <1>t, <2>1, <3>3
      <4> QED BY <1>w, <2>1, <3>1, <4>1 DEF NotAhead
    <3> QED BY <3>2, <3>3
  <2> QED BY <2>2, <2>4 DEF OnTheWay
<1>7. ASSUME NEW c \in Consumers, WriteDequeued(c) PROVE OnTheWay'
  <2> DEFINE m == Head(taken[c])
  <2>1. /\ UNCHANGED <<offered, last, waiting, pending>>
        /\ taken[c] # <<>>
        /\ taken' = [taken EXCEPT ![c] = <<>>]
        /\ delivered' = [delivered EXCEPT ![c] = Append(@, m)]
    BY <1>7 DEF WriteDequeued, Queue!Deliver
  <2>2. mode = "queue" /\ pending[c] = <<>>
    BY <1>t, <2>1 DEF OneMode
  <2>3. /\ m \in Message
        /\ m \in Range(taken[c])
        /\ taken'[c] = <<>>
        /\ delivered'[c] = Append(delivered[c], m)
    BY <1>t, <2>1, TailType, RangeTail
  <2> HIDE DEF m
  <2>4. Range(delivered'[c]) = Range(delivered[c]) \cup {m}
    BY <1>t, <2>3, RangeAppend
  <2>5. InOrder(delivered'[c])
    BY <1>t, <1>w, <2>3, AppendOrder DEF Before
  <2>6. /\ Before(delivered'[c], waiting)
        /\ Before(delivered'[c], <<>>) /\ Before(<<>>, waiting)
    BY <1>e, <1>w, <2>3, <2>4 DEF Before
  <2>7. \A n \in Range(delivered'[c]) : n.seq <= offered[n.from]
    <3>1. m.from \in Producers /\ m.seq \in Nat /\ m.seq <= last[m.from]
      BY <1>t, <2>2, <2>3, RangeMessage DEF OneMode, Accepted
    <3>2. /\ last[m.from] <= offered[m.from]
          /\ last[m.from] \in Nat /\ offered[m.from] \in Nat
      BY <1>t, <3>1 DEF OneMode
    <3>3. m.seq <= offered[m.from]
      BY <3>1, <3>2
    <3> QED BY <1>w, <2>4, <3>3 DEF NotAhead
  <2>8. ASSUME NEW d \in Consumers PROVE Way(d)'
    <3>1. CASE d = c
      BY <1>w, <2>1, <2>2, <2>3, <2>5, <2>6, <2>7, <3>1 DEF NotAhead
    <3>2. CASE d # c
      <4>1. taken'[d] = taken[d] /\ delivered'[d] = delivered[d]
        BY <1>t, <2>1, <3>2
      <4> QED BY <1>w, <2>1, <4>1 DEF NotAhead
    <3> QED BY <3>1, <3>2
  <2> QED BY <1>w, <2>1, <2>8 DEF OnTheWay
<1>8. ASSUME NEW c \in Consumers, WriteFails(c) PROVE OnTheWay'
  <2>1. /\ UNCHANGED <<offered, waiting, pending, delivered>>
        /\ taken' = [taken EXCEPT ![c] = <<>>]
    BY <1>8 DEF WriteFails, Queue!Lose
  <2>2. ASSUME NEW d \in Consumers PROVE Way(d)'
    <3>1. taken'[d] = taken[d] \/ taken'[d] = <<>>
      BY <1>t, <2>1
    <3>2. /\ Before(delivered[d], taken'[d])
          /\ Before(taken'[d], waiting)
      BY <1>e, <1>w, <3>1 DEF Before
    <3> QED BY <1>w, <2>1, <3>2 DEF NotAhead
  <2> QED BY <1>w, <2>1, <2>2 DEF OnTheWay
<1>9. CASE Next
  BY <1>1, <1>2, <1>3, <1>4, <1>5, <1>6, <1>7, <1>8, <1>9 DEF Next
<1> QED BY <1>1, <1>9

\* Every step keeps the frames of competing consumers apart.
LEMMA ApartStep ==
  TypeOK /\ OneMode /\ OnTheWay /\ Apart /\ [Next]_vars => Apart'
<1> SUFFICES ASSUME TypeOK, OneMode, OnTheWay, Apart, [Next]_vars PROVE Apart'
  OBVIOUS
<1>t. /\ waiting \in Seq(Message)
      /\ delivered \in [Consumers -> Seq(Message)]
      /\ taken \in [Consumers -> Seq(Message)]
  BY DEF TypeOK, BrokerOK
<1> USE DEF broker, fanOut, workQueue, environment
<1>1. ASSUME mode' = mode,
             mode = "queue" => \A c \in Consumers : Has(c)' \subseteq Has(c)
      PROVE  Apart'
  BY <1>1 DEF Apart
<1>2. CASE UNCHANGED <<mode, taken, delivered>>
  BY <1>1, <1>2 DEF Has
<1>3. CASE \/ \E p \in Producers : ProducerStep(p)
           \/ \E c \in Consumers : ConsumerStep(c) \/ BrokerCuts(c)
           \/ UNCHANGED vars
  BY <1>2, <1>3, ProcessSteps
<1>4. ASSUME NEW p \in Producers,
             BrokerReads(p) \/ Enqueue(p) \/ \E c \in Consumers : BrokerAccepts(p, c)
      PROVE  Apart'
  BY <1>2, <1>4 DEF BrokerReads, Enqueue, BrokerAccepts, Broadcast!Offer,
                    Queue!Accept, Broadcast!Accept
<1>5. ASSUME NEW c \in Consumers, BrokerWrites(c) PROVE Apart'
  <2>1. mode = "broadcast" /\ mode' = mode
    BY <1>5 DEF BrokerWrites, Broadcasts
  <2> QED BY <1>1, <2>1
<1>6. ASSUME NEW c \in Consumers, Dequeue(c) PROVE Apart'
  <2>1. /\ UNCHANGED <<mode, delivered>>
        /\ waiting # <<>>
        /\ taken' = [taken EXCEPT ![c] = <<Head(waiting)>>]
    BY <1>6 DEF Dequeue, Queue!Take
  <2>2. PICK m \in Message : m = Head(waiting) /\ m \in Range(waiting)
    BY <1>t, <2>1, TailType, RangeTail
  <2>3. /\ Has(c)' \subseteq Has(c) \cup {m}
        /\ \A d \in Consumers : d # c => Has(d)' = Has(d)
    <3>1. Range(<<m>>) = {m}
      BY RangeShort
    <3>2. /\ taken'[c] = <<m>>
          /\ \A d \in Consumers : d # c => taken'[d] = taken[d]
      BY <1>t, <2>1, <2>2
    <3> QED BY <2>1, <3>1, <3>2 DEF Has
  \* The head of the line is newer than what anyone has of its producer.
  <2>4. ASSUME NEW d \in Consumers PROVE m \notin Has(d)
    <3>1. ASSUME m \in Has(d) PROVE m.seq < m.seq
      BY <2>2, <3>1 DEF Has, OnTheWay, Before
    <3>2. m.seq \in Nat
      BY <2>2 DEF Message
    <3> QED BY <3>1, <3>2
  <2>5. ASSUME mode = "queue", NEW a \in Consumers, NEW b \in Consumers, a # b,
               NEW n \in Has(a)'
        PROVE  n \notin Has(b)'
    <3>1. CASE n = m
      BY <2>3, <2>4, <2>5, <3>1
    <3>2. CASE n # m
      <4>1. n \in Has(a)
        BY <2>3, <2>5, <3>2
      <4>2. n \notin Has(b)
        BY <2>5, <4>1 DEF Apart
      <4> QED BY <2>3, <3>2, <4>2
    <3> QED BY <3>1, <3>2
  <2> QED BY <2>1, <2>5 DEF Apart
<1>7. ASSUME NEW c \in Consumers, WriteDequeued(c) \/ WriteFails(c) PROVE Apart'
  <2>1. /\ mode' = mode
        /\ taken[c] # <<>>
        /\ taken' = [taken EXCEPT ![c] = <<>>]
        /\ \/ delivered' = delivered
           \/ delivered' = [delivered EXCEPT ![c] = Append(@, Head(taken[c]))]
    BY <1>7 DEF WriteDequeued, WriteFails, Queue!Deliver, Queue!Lose
  <2>2. /\ Head(taken[c]) \in Range(taken[c])
        /\ Range(Append(delivered[c], Head(taken[c])))
             = Range(delivered[c]) \cup {Head(taken[c])}
    BY <1>t, <2>1, TailType, RangeTail, RangeAppend
  <2>3. ASSUME NEW d \in Consumers PROVE Has(d)' \subseteq Has(d)
    <3>1. CASE d = c
      <4>1. Range(taken'[d]) = {}
        BY <1>t, <2>1, <3>1, RangeShort
      <4>2. Range(delivered'[d]) \subseteq Range(delivered[d]) \cup {Head(taken[d])}
        BY <1>t, <2>1, <2>2, <3>1
      <4> QED BY <2>2, <3>1, <4>1, <4>2 DEF Has
    <3>2. CASE d # c
      BY <1>t, <2>1, <3>2 DEF Has
    <3> QED BY <3>1, <3>2
  <2> QED BY <1>1, <2>1, <2>3
<1>8. CASE Next
  BY <1>3, <1>4, <1>5, <1>6, <1>7, <1>8 DEF Next
<1> QED BY <1>3, <1>8

-----------------------------------------------------------------------------
(* What consumers store.                                                   *)

\* Nothing has been stored initially.
LEMMA StoresInit == Init => StoresWhatItReads
<1> SUFFICES ASSUME Init PROVE StoresWhatItReads
  OBVIOUS
<1>1. Range(<<>>) = {}
  BY RangeShort
<1>2. \A c \in Consumers : stored[c] = <<>> /\ failed[c] = {} /\ cpc[c] = "new"
  BY DEF Init
<1> QED BY <1>1, <1>2 DEF StoresWhatItReads, Tried, LateFailed

\* A document that lands is newer than those of its producer that have landed,
\* or its insert had failed.
LEMMA LandsRight ==
  ASSUME NEW docs \in Seq(Message), NEW F, NEW G, F \subseteq G, LateFailed(docs, F)
  PROVE  /\ LateFailed(docs, G)
         /\ \A m \in Message :
              (\A n \in Range(docs) : n.from = m.from =>
                 n.seq < m.seq \/ (n.seq > m.seq /\ m \in G))
              => LateFailed(Append(docs, m), G)
<1>1. LateFailed(docs, G)
  BY DEF LateFailed
<1>2. ASSUME NEW m \in Message,
             \A n \in Range(docs) : n.from = m.from =>
               n.seq < m.seq \/ (n.seq > m.seq /\ m \in G)
      PROVE  LateFailed(Append(docs, m), G)
  <2>1. /\ DOMAIN Append(docs, m) = 1..(Len(docs) + 1)
        /\ DOMAIN docs = 1..Len(docs)
        /\ Len(docs) \in Nat
        /\ Append(docs, m)[Len(docs) + 1] = m
        /\ \A i \in 1..Len(docs) : Append(docs, m)[i] = docs[i]
    OBVIOUS
  <2> DEFINE more == Append(docs, m)
  <2>2. ASSUME NEW i \in 1..(Len(docs) + 1), NEW j \in 1..(Len(docs) + 1), i < j,
               more[i].from = more[j].from
        PROVE  \/ more[i].seq < more[j].seq
               \/ more[i].seq > more[j].seq /\ more[j] \in G
    <3>1. i \in 1..Len(docs)
      BY <2>1, <2>2
    <3>2. CASE j = Len(docs) + 1
      <4>1. docs[i] \in Range(docs) /\ more[i] = docs[i] /\ more[j] = m
        BY <2>1, <3>1, <3>2 DEF Range
      <4> QED BY <1>2, <2>2, <4>1
    <3>3. CASE j # Len(docs) + 1
      <4>1. j \in 1..Len(docs)
        BY <2>1, <3>3
      <4>2. more[i] = docs[i] /\ more[j] = docs[j]
        BY <2>1, <3>1, <4>1
      <4> HIDE DEF more
      <4> QED BY <1>1, <2>1, <2>2, <3>1, <4>1, <4>2 DEF LateFailed
    <3> QED BY <3>2, <3>3
  <2> HIDE DEF more
  <2>3. DOMAIN more = 1..(Len(docs) + 1)
    BY <2>1 DEF more
  <2>4. LateFailed(more, G)
    BY <2>2, <2>3 DEF LateFailed
  <2> QED BY <2>4 DEF more
<1> QED BY <1>1, <1>2

\* A frame is there once, late or not.
LEMMA LandsOnce ==
  ASSUME NEW docs \in Seq(Message), NEW F, LateFailed(docs, F),
         NEW i \in DOMAIN docs, NEW j \in DOMAIN docs,
         docs[i] = docs[j], docs[i].seq \in Nat
  PROVE  i = j
<1>1. i \in Nat /\ j \in Nat
  OBVIOUS
<1>2. ASSUME i < j \/ j < i
      PROVE  docs[i].seq < docs[i].seq \/ docs[i].seq > docs[i].seq
  BY <1>2 DEF LateFailed
<1> QED BY <1>1, <1>2

\* What a consumer stores it has read.
LEMMA ReadBeforeStored ==
  ASSUME TypeOK, NEW c \in Consumers, cpc[c] = "storing"
  PROVE  received[c] > 0
<1>1. /\ received[c] \in Nat /\ Len(stored[c]) \in Nat
      /\ IsFiniteSet(failed[c]) /\ Len(hand[c]) = 1
      /\ Len(stored[c]) + Cardinality(failed[c] \ Range(stored[c])) + Len(hand[c])
           <= received[c]
  BY DEF TypeOK, ConsumersOK, Unsettled
<1>2. failed[c] \ Range(stored[c]) \in SUBSET failed[c]
  OBVIOUS
<1>3. Cardinality(failed[c] \ Range(stored[c])) \in Nat
  BY <1>1, <1>2, FS_Subset, FS_CardinalityType
<1> QED BY <1>1, <1>3

\* The frames a consumer has still to read when one more is delivered to it.
LEMMA UnreadGrows ==
  ASSUME TypeOK, UNCHANGED consumer, NEW c \in Consumers, NEW m \in Message,
         delivered'[c] = Append(delivered[c], m)
  PROVE  /\ \A i \in Unread(c)' : \/ i \in Unread(c) /\ delivered'[c][i] = delivered[c][i]
                                  \/ delivered'[c][i] = m
         /\ Range(delivered'[c]) = Range(delivered[c]) \cup {m}
         /\ cpc[c] = "storing" => delivered'[c][received[c]] = delivered[c][received[c]]
<1>1. /\ delivered[c] \in Seq(Message)
      /\ received[c] \in Nat /\ received[c] <= Len(delivered[c])
      /\ cpc[c] = "storing" => received[c] > 0
      /\ UNCHANGED <<received, cpc>>
  <2>1. cpc[c] = "storing" => received[c] > 0
    BY ReadBeforeStored
  <2> QED BY <2>1 DEF TypeOK, BrokerOK, ConsumersOK, consumer
<1>2. /\ DOMAIN delivered'[c] = 1..(Len(delivered[c]) + 1)
      /\ DOMAIN delivered[c] = 1..Len(delivered[c])
      /\ Len(delivered[c]) \in Nat
      /\ delivered'[c][Len(delivered[c]) + 1] = m
      /\ \A i \in 1..Len(delivered[c]) : delivered'[c][i] = delivered[c][i]
  BY <1>1
<1>3. \A i \in Unread(c)' : \/ i \in Unread(c) /\ delivered'[c][i] = delivered[c][i]
                            \/ delivered'[c][i] = m
  BY <1>1, <1>2 DEF Unread
<1>4. cpc[c] = "storing" => received[c] \in 1..Len(delivered[c])
  BY <1>1, <1>2
<1>5. Range(delivered'[c]) = Range(delivered[c]) \cup {m}
  BY <1>1, RangeAppend
<1> QED BY <1>2, <1>3, <1>4, <1>5

\* What is delivered to a consumer is newer than what it was delivered.
LEMMA DeliveredNewer ==
  ASSUME TypeOK, OneMode, OnTheWay, NEW c \in Consumers,
         BrokerWrites(c) \/ WriteDequeued(c)
  PROVE  \E m \in Message :
           /\ delivered'[c] = Append(delivered[c], m)
           /\ \A n \in Range(delivered[c]) : n.from = m.from => n.seq < m.seq
           /\ \A d \in Consumers : d # c => delivered'[d] = delivered[d]
<1>t. /\ pending[c] \in Seq(Message) /\ taken[c] \in Seq(Message)
      /\ delivered \in [Consumers -> Seq(Message)]
  BY DEF TypeOK, BrokerOK
<1>1. CASE BrokerWrites(c)
  <2> DEFINE m == Head(pending[c])
  <2>1. pending[c] # <<>> /\ delivered' = [delivered EXCEPT ![c] = Append(@, m)]
    BY <1>1 DEF BrokerWrites, Broadcast!Deliver
  <2>2. m \in Message /\ m \in Range(pending[c])
    BY <1>t, <2>1, TailType, RangeTail
  <2> HIDE DEF m
  <2>3. \A n \in Range(delivered[c]) : n.from = m.from => n.seq < m.seq
    BY <2>2 DEF OnTheWay, Before
  <2> QED BY <1>t, <2>1, <2>2, <2>3
<1>2. CASE WriteDequeued(c)
  <2> DEFINE m == Head(taken[c])
  <2>1. taken[c] # <<>> /\ delivered' = [delivered EXCEPT ![c] = Append(@, m)]
    BY <1>2 DEF WriteDequeued, Queue!Deliver
  <2>2. m \in Message /\ m \in Range(taken[c])
    BY <1>t, <2>1, TailType, RangeTail
  <2> HIDE DEF m
  <2>3. \A n \in Range(delivered[c]) : n.from = m.from => n.seq < m.seq
    BY <2>2 DEF OnTheWay, Before
  <2> QED BY <1>t, <2>1, <2>2, <2>3
<1> QED BY <1>1, <1>2

\* Every step keeps what consumers store older than what they still read.
LEMMA StoresStep ==
  TypeOK /\ OneMode /\ OnTheWay /\ StoresWhatItReads /\ [Next]_vars
    => StoresWhatItReads'
<1> SUFFICES ASSUME TypeOK, OneMode, OnTheWay, StoresWhatItReads, [Next]_vars
             PROVE  StoresWhatItReads'
  OBVIOUS
<1>t. /\ received \in [Consumers -> Nat]
      /\ failed \in [Consumers -> SUBSET Message]
      /\ stored \in [Consumers -> Seq(Message)]
      /\ delivered \in [Consumers -> Seq(Message)]
      /\ \A c \in Consumers : received[c] <= Len(delivered[c])
  BY DEF TypeOK, BrokerOK, ConsumersOK
<1> DEFINE Ok(c) ==
      /\ LateFailed(stored[c], failed[c])
      /\ Tried(c) \subseteq Range(delivered[c])
      /\ \A m \in Tried(c), i \in Unread(c) :
           m.from = delivered[c][i].from => m.seq < delivered[c][i].seq
      /\ cpc[c] = "storing" => hand[c] = <<delivered[c][received[c]]>>
<1>o. \A c \in Consumers : Ok(c)
  BY DEF StoresWhatItReads
<1>1. CASE UNCHANGED <<consumer, delivered>>
  BY <1>1 DEF StoresWhatItReads, Tried, Unread, consumer
<1>2. ASSUME NEW c \in Consumers, BrokerWrites(c) \/ WriteDequeued(c)
      PROVE  StoresWhatItReads'
  <2>1. PICK m \in Message :
          /\ delivered'[c] = Append(delivered[c], m)
          /\ \A n \in Range(delivered[c]) : n.from = m.from => n.seq < m.seq
          /\ \A d \in Consumers : d # c => delivered'[d] = delivered[d]
    BY <1>2, DeliveredNewer
  <2>2. UNCHANGED consumer /\ UNCHANGED <<cpc, received, hand, failed, stored>>
    BY <1>2, BrokerSteps DEF consumer
  <2>u. \A d : Tried(d)' = Tried(d)
    BY <2>2 DEF Tried
  <2>3. Ok(c)'
    <3>1. /\ \A i \in Unread(c)' :
               \/ i \in Unread(c) /\ delivered'[c][i] = delivered[c][i]
               \/ delivered'[c][i] = m
          /\ Range(delivered'[c]) = Range(delivered[c]) \cup {m}
          /\ cpc[c] = "storing" => delivered'[c][received[c]] = delivered[c][received[c]]
      BY <2>1, <2>2, UnreadGrows
    <3>2. Ok(c)
      BY <1>o
    <3>3. ASSUME NEW n \in Tried(c), NEW i \in Unread(c)',
                 n.from = delivered'[c][i].from
          PROVE  n.seq < delivered'[c][i].seq
      BY <2>1, <3>1, <3>2, <3>3
    <3> QED BY <2>2, <2>u, <3>1, <3>2, <3>3
  <2>4. ASSUME NEW d \in Consumers PROVE Ok(d)'
    <3>1. CASE d = c
      BY <2>3, <3>1
    <3>2. CASE d # c
      BY <1>o, <2>1, <2>2, <2>u, <3>2 DEF Unread
    <3> QED BY <3>1, <3>2
  <2> QED BY <2>4 DEF StoresWhatItReads
<1>3. ASSUME NEW c \in Consumers, ConsumerStep(c) PROVE StoresWhatItReads'
  <2>0. delivered' = delivered
    <3>1. UNCHANGED delivered
      BY <1>3, ProcessSteps
    <3> QED BY <3>1
  <2>1. ASSUME NEW d \in Consumers, d # c
        PROVE  /\ cpc'[d] = cpc[d] /\ received'[d] = received[d] /\ hand'[d] = hand[d]
               /\ failed'[d] = failed[d] /\ stored'[d] = stored[d]
    BY <1>3, <2>1, ConsumerTurns
  <2>o. Ok(c) /\ delivered[c] \in Seq(Message) /\ stored[c] \in Seq(Message)
        /\ received[c] \in Nat /\ received[c] <= Len(delivered[c])
        /\ Len(delivered[c]) \in Nat /\ DOMAIN delivered[c] = 1..Len(delivered[c])
    BY <1>o, <1>t
  \* Steps that try no other frame, and leave no more to read.
  <2>2. ASSUME stored'[c] = stored[c], failed'[c] = failed[c],
               Unread(c)' \subseteq Unread(c),
               cpc'[c] = "storing" => hand'[c] = <<delivered[c][received'[c]]>>
        PROVE  Ok(c)'
    <3>1. Tried(c)' = Tried(c)
      BY <2>2 DEF Tried
    <3> QED BY <2>0, <2>2, <2>o, <3>1
  <2>3. Ok(c)'
    <3>1. CASE /\ cpc[c] # "storing" /\ cpc'[c] # "storing"
               /\ received'[c] = received[c] /\ hand'[c] = <<>>
               /\ failed'[c] = failed[c] /\ stored'[c] = stored[c]
      <4>1. Unread(c)' \subseteq Unread(c)
        BY <2>0, <3>1 DEF Unread
      <4> QED BY <2>2, <3>1, <4>1
    <3>2. CASE /\ cpc[c] # "storing" /\ cpc'[c] = "storing"
               /\ received[c] < Len(delivered[c])
               /\ received'[c] = received[c] + 1
               /\ hand'[c] = <<delivered[c][received[c] + 1]>>
               /\ failed'[c] = failed[c] /\ stored'[c] = stored[c]
      <4>1. Unread(c)' \subseteq Unread(c)
        BY <2>0, <2>o, <3>2 DEF Unread
      <4> QED BY <2>2, <3>2, <4>1
    <3>3. CASE /\ cpc[c] = "storing" /\ cpc'[c] # "storing"
               /\ received'[c] = received[c] /\ hand'[c] = <<>>
               /\ \E m \in Message :
                    /\ hand[c] = <<m>>
                    /\ \/ failed'[c] = failed[c] /\ stored'[c] = Append(stored[c], m)
                       \/ /\ failed'[c] = failed[c] \cup {m}
                          /\ stored'[c] = stored[c] \/ stored'[c] = Append(stored[c], m)
      <4>1. received[c] \in DOMAIN delivered[c] /\ received[c] \in Unread(c)
        <5>1. received[c] > 0
          BY <3>3, ReadBeforeStored
        <5>2. received[c] \in 1..Len(delivered[c])
          BY <2>o, <5>1
        <5> QED BY <2>o, <3>3, <5>2 DEF Unread
      <4>2. PICK m \in Message :
              /\ m = delivered[c][received[c]]
              /\ \/ failed'[c] = failed[c] /\ stored'[c] = Append(stored[c], m)
                 \/ /\ failed'[c] = failed[c] \cup {m}
                    /\ stored'[c] = stored[c] \/ stored'[c] = Append(stored[c], m)
        BY <2>o, <3>3
      <4>3. \A n \in Tried(c) : n.from = m.from => n.seq < m.seq
        BY <2>o, <4>1, <4>2
      <4>4. LateFailed(stored'[c], failed'[c])
        <5>1. \A n \in Range(stored[c]) : n.from = m.from => n.seq < m.seq
          BY <4>3 DEF Tried
        <5>2. failed[c] \subseteq failed'[c] /\ LateFailed(stored[c], failed[c])
          BY <2>o, <4>2
        <5>3. /\ LateFailed(stored[c], failed'[c])
              /\ LateFailed(Append(stored[c], m), failed'[c])
          BY <2>o, <5>1, <5>2, LandsRight
        <5>4. stored'[c] = stored[c] \/ stored'[c] = Append(stored[c], m)
          BY <4>2
        <5> QED BY <5>3, <5>4
      <4>5. Tried(c)' \subseteq Tried(c) \cup {m}
        <5>1. Range(Append(stored[c], m)) = Range(stored[c]) \cup {m}
          BY <2>o, RangeAppend
        <5> QED BY <4>2, <5>1 DEF Tried
      <4>6. m \in Range(delivered[c])
        BY <4>1, <4>2 DEF Range
      <4>7. ASSUME NEW i \in Unread(c)', m.from = delivered[c][i].from
            PROVE  m.seq < delivered[c][i].seq
        <5>1. i \in DOMAIN delivered[c] /\ i > received[c]
          BY <2>0, <3>3 DEF Unread
        <5>2. InOrder(delivered[c])
          BY DEF OnTheWay
        <5> QED BY <4>1, <4>2, <4>7, <5>1, <5>2 DEF InOrder
      <4>8. Unread(c)' \subseteq Unread(c)
        BY <2>0, <3>3 DEF Unread
      <4>9. ASSUME NEW n \in Tried(c)', NEW i \in Unread(c)',
                   n.from = delivered[c][i].from
            PROVE  n.seq < delivered[c][i].seq
        <5>1. CASE n = m
          BY <4>7, <4>9, <5>1
        <5>2. CASE n \in Tried(c)
          BY <2>o, <4>8, <4>9, <5>2
        <5> QED BY <4>5, <5>1, <5>2
      <4> QED BY <2>0, <2>o, <3>3, <4>4, <4>5, <4>6, <4>9
    \* The frame of a late insert is newer or older than each that has landed.
    <3>4. CASE /\ cpc'[c] = cpc[c] /\ received'[c] = received[c] /\ hand'[c] = hand[c]
               /\ failed'[c] = failed[c]
               /\ \E m \in Unsettled(c) : stored'[c] = Append(stored[c], m)
      <4>1. PICK m \in failed[c] : /\ m \notin Range(stored[c])
                                   /\ stored'[c] = Append(stored[c], m)
        BY <3>4 DEF Unsettled
      <4>2. m \in Message /\ m.seq \in Nat
            /\ \A n \in Range(stored[c]) : n \in Message /\ n.seq \in Nat
        <5>1. Range(stored[c]) \subseteq Message /\ m \in Message
          BY <1>t, <2>o, RangeType
        <5>2. \A n \in Message : n.seq \in Nat
          BY DEF Message
        <5> QED BY <5>1, <5>2
      <4>3. ASSUME NEW n \in Range(stored[c]), n.from = m.from
            PROVE  n.seq < m.seq \/ (n.seq > m.seq /\ m \in failed'[c])
        <5>1. n.seq # m.seq
          <6>1. n # m
            BY <4>1
          <6>2. n = [from |-> n.from, seq |-> n.seq] /\ m = [from |-> m.from, seq |-> m.seq]
            BY <4>2 DEF Message
          <6> QED BY <4>3, <6>1, <6>2
        <5> QED BY <3>4, <4>2, <5>1
      <4>4. LateFailed(stored'[c], failed'[c])
        BY <2>o, <3>4, <4>1, <4>2, <4>3, LandsRight
      <4>5. Tried(c)' = Tried(c)
        <5>1. Range(Append(stored[c], m)) = Range(stored[c]) \cup {m}
          BY <2>o, <4>2, RangeAppend
        <5> QED BY <3>4, <4>1, <5>1 DEF Tried
      <4>6. Unread(c)' = Unread(c)
        BY <2>0, <3>4 DEF Unread
      <4> QED BY <2>0, <2>o, <3>4, <4>4, <4>5, <4>6
    <3> QED BY <1>3, <3>1, <3>2, <3>3, <3>4, ConsumerTurns
  <2>4. ASSUME NEW d \in Consumers PROVE Ok(d)'
    <3>1. CASE d = c
      BY <2>3, <3>1
    <3>2. CASE d # c
      BY <1>o, <2>0, <2>1, <3>2 DEF Unread, Tried
    <3> QED BY <3>1, <3>2
  <2> QED BY <2>4 DEF StoresWhatItReads
<1>4. ASSUME NEW p \in Producers, ProducerStep(p) PROVE StoresWhatItReads'
  BY <1>1, <1>4, ProducerSteps DEF broker, fanOut
<1>5. ASSUME NEW p \in Producers,
             BrokerReads(p) \/ Enqueue(p) \/ \E c \in Consumers : BrokerAccepts(p, c)
      PROVE  StoresWhatItReads'
  <2>1. UNCHANGED delivered
    BY <1>5 DEF BrokerReads, Enqueue, BrokerAccepts, Broadcast!Offer,
                Broadcast!Accept, fanOut
  <2> QED BY <1>1, <1>5, <2>1, BrokerSteps
<1>6. ASSUME NEW c \in Consumers, BrokerCuts(c) \/ Dequeue(c) \/ WriteFails(c)
      PROVE  StoresWhatItReads'
  <2>1. UNCHANGED delivered
    BY <1>6 DEF BrokerCuts, Dequeue, WriteFails, Broadcast!Cut, Queue!Lose, fanOut
  <2> QED BY <1>1, <1>6, <2>1, BrokerSteps
<1>7. CASE Next
  BY <1>2, <1>3, <1>4, <1>5, <1>6, <1>7 DEF Next
<1>8. CASE UNCHANGED vars
  BY <1>1, <1>8 DEF vars, broker, fanOut
<1> QED BY <1>7, <1>8

-----------------------------------------------------------------------------
(* The safety properties.                                                  *)

\* The inductive invariant.
THEOREM Invariance == Spec => []IInv
<1>1. Init => IInv
  BY TypeInit, ProducersInit, BrokerInit, StoresInit DEF IInv
<1>2. IInv /\ [Next]_vars => IInv'
  BY TypeStep, WritesFileStep, RunsInTurnStep, OneModeStep, OnTheWayStep,
     ApartStep, StoresStep DEF IInv
<1> QED BY <1>1, <1>2, PTL DEF Spec

\* A document lands behind that of a later row only if its own insert failed, and
\* none lands twice, through both delivery modes, lost frames, kills and inserts
\* that are carried out long after they were given up on.
THEOREM AcknowledgedInOrder == Spec => []LateOnlyIfFailed
<1>1. IInv => LateOnlyIfFailed
  BY DEF IInv, StoresWhatItReads, LateOnlyIfFailed
<1> QED BY <1>1, Invariance, PTL

\* A stored frame carries the row of its number, and its producer has started.
LEMMA StoredFrame ==
  ASSUME IInv, NEW c \in Consumers, NEW m \in Range(stored[c])
  PROVE  /\ m \in Message /\ m.from \in Producers /\ m.seq \in 1..Rows
         /\ m = [from |-> m.from, seq |-> m.seq]
         /\ RowOf(m) = m.seq
         /\ ppc[m.from] # "new"
<1>1. /\ TypeOK /\ WritesFile /\ OnTheWay /\ StoresWhatItReads
      /\ Rows \in Nat
  BY PipelineAssumption DEF IInv
<1>2. m \in Range(delivered[c])
  BY <1>1 DEF StoresWhatItReads, Tried
<1>3. m \in Message /\ m.from \in Producers /\ m.seq \in 1..Rows
  <2>1. delivered[c] \in Seq(Message)
    BY <1>1 DEF TypeOK, BrokerOK
  <2> QED BY <1>2, <2>1, RangeMessage
<1>4. /\ m.seq <= offered[m.from] /\ offered[m.from] <= Len(sent[m.from])
      /\ offered[m.from] \in 0..Rows
      /\ sent[m.from] \in Seq(1..Rows)
      /\ Len(sent[m.from]) <= row[m.from]
  BY <1>1, <1>2, <1>3 DEF OnTheWay, NotAhead, TypeOK, BrokerOK, ProducersOK
<1>5. m.seq \in DOMAIN sent[m.from] /\ Len(sent[m.from]) > 0
      /\ Len(sent[m.from]) \in Nat
  BY <1>1, <1>3, <1>4
<1>6. RowOf(m) = m.seq
  BY <1>1, <1>3, <1>5 DEF WritesFile, RowOf
<1>7. ppc[m.from] # "new"
  <2>1. ASSUME ppc[m.from] = "new" PROVE row[m.from] = 0
    BY <1>1, <1>3, <2>1 DEF WritesFile
  <2> QED BY <1>4, <1>5, <2>1
<1> QED BY <1>3, <1>6, <1>7 DEF Message

\* A row is stored twice on behalf of a pod only because its container failed
\* and was started over: neither lost frames, nor inserts that take effect although
\* they failed, nor consumers that compete, come and go have one frame stored
\* twice.
THEOREM RowsStoredOncePerRun == Spec => []DuplicatesOnlyFromRestarts
<1>1. IInv => DuplicatesOnlyFromRestarts
  <2> SUFFICES ASSUME IInv, NEW c \in Consumers, NEW d \in Consumers,
                      c = d \/ mode = "queue",
                      NEW i \in DOMAIN stored[c], NEW j \in DOMAIN stored[d],
                      <<c, i>> # <<d, j>>,
                      RowOf(stored[c][i]) = RowOf(stored[d][j]),
                      stored[c][i].from[1] = stored[d][j].from[1]
               PROVE  /\ stored[c][i].from # stored[d][j].from
                      /\ stored[c][i].from[2] < stored[d][j].from[2] =>
                           ppc[stored[c][i].from] = "failed"
    BY DEF DuplicatesOnlyFromRestarts
  <2> DEFINE m == stored[c][i]
             n == stored[d][j]
  <2>1. m \in Range(stored[c]) /\ n \in Range(stored[d])
    BY DEF Range
  <2>2. /\ m \in Message /\ m.from \in Producers /\ RowOf(m) = m.seq
        /\ m = [from |-> m.from, seq |-> m.seq]
        /\ m.seq \in 1..Rows
    BY <2>1, StoredFrame
  <2>3. /\ n \in Message /\ n.from \in Producers /\ RowOf(n) = n.seq
        /\ n = [from |-> n.from, seq |-> n.seq]
        /\ ppc[n.from] # "new"
    BY <2>1, StoredFrame
  <2>4. m.seq = n.seq
    BY <2>2, <2>3
  \* One frame is in one place only, of the sequence one consumer has stored.
  <2>5. m # n
    <3> SUFFICES ASSUME m = n PROVE FALSE
      OBVIOUS
    <3>1. CASE c = d
      <4>1. stored[c] \in Seq(Message) /\ LateFailed(stored[c], failed[c])
        BY DEF IInv, TypeOK, ConsumersOK, StoresWhatItReads
      <4>2. stored[c][i] = stored[c][j] /\ j \in DOMAIN stored[c]
            /\ stored[c][i].seq \in Nat
        BY <2>2, <3>1
      <4>3. i = j
        BY <4>1, <4>2, LandsOnce
      <4> QED BY <3>1, <4>3
    <3>2. CASE c # d
      <4>1. mode = "queue" /\ Apart /\ StoresWhatItReads
        BY <3>2 DEF IInv
      <4>2. m \in Has(c) /\ m \in Has(d)
        BY <2>1, <4>1 DEF StoresWhatItReads, Tried, Has
      <4> QED BY <3>2, <4>1, <4>2 DEF Apart
    <3> QED BY <3>1, <3>2
  <2>6. m.from # n.from
    BY <2>2, <2>3, <2>4, <2>5
  <2>7. m.from[2] < n.from[2] => ppc[m.from] = "failed"
    BY <2>2, <2>3 DEF IInv, RunsInTurn
  <2> QED BY <2>6, <2>7
<1> QED BY <1>1, Invariance, PTL

=============================================================================
