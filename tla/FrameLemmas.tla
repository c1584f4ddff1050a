---------------------------- MODULE FrameLemmas ----------------------------
(***************************************************************************)
(* Lemmas about sequences and the order of frames in them, for the proofs  *)
(* about brokers, processes and connections.                               *)
(***************************************************************************)
EXTENDS Frames, TLAPS

\* What a non-empty sequence becomes when its head is taken.
LEMMA TailType ==
  ASSUME NEW S, NEW s \in Seq(S), s # <<>>
  PROVE  /\ Head(s) \in S
         /\ Tail(s) \in Seq(S)
         /\ Len(Tail(s)) = Len(s) - 1
  OBVIOUS

\* The elements of a sequence that grows at its end.
LEMMA RangeAppend ==
  ASSUME NEW S, NEW s \in Seq(S), NEW e \in S
  PROVE  Range(Append(s, e)) = Range(s) \cup {e}
<1>1. /\ DOMAIN Append(s, e) = 1..(Len(s) + 1)
      /\ DOMAIN s = 1..Len(s)
      /\ Len(s) \in Nat
      /\ Append(s, e)[Len(s) + 1] = e
      /\ \A i \in 1..Len(s) : Append(s, e)[i] = s[i]
  OBVIOUS
<1> QED BY <1>1 DEF Range

\* The elements of a sequence that loses its head.
LEMMA RangeTail ==
  ASSUME NEW S, NEW s \in Seq(S), s # <<>>
  PROVE  Range(s) = {Head(s)} \cup Range(Tail(s))
<1>1. /\ Len(s) \in Nat \ {0}
      /\ DOMAIN s = 1..Len(s)
      /\ DOMAIN Tail(s) = 1..(Len(s) - 1)
      /\ Head(s) = s[1]
      /\ \A i \in 1..(Len(s) - 1) : Tail(s)[i] = s[i + 1]
  OBVIOUS
<1>2. \A i \in 2..Len(s) : i - 1 \in 1..(Len(s) - 1) /\ s[i] = Tail(s)[i - 1]
  BY <1>1
<1>3. \A i \in 1..Len(s) : i = 1 \/ i \in 2..Len(s)
  BY <1>1
<1>4. \A i \in 1..(Len(s) - 1) : i + 1 \in 1..Len(s)
  BY <1>1
<1>5. 1 \in 1..Len(s)
  BY <1>1
<1>6. ASSUME NEW x \in Range(s) PROVE x \in {Head(s)} \cup Range(Tail(s))
  <2>1. PICK i \in 1..Len(s) : x = s[i]
    BY <1>1 DEF Range
  <2> QED BY <1>1, <1>2, <1>3, <2>1 DEF Range
<1>7. ASSUME NEW x \in Range(Tail(s)) PROVE x \in Range(s)
  <2>1. PICK i \in 1..(Len(s) - 1) : x = s[i + 1]
    BY <1>1 DEF Range
  <2> QED BY <1>1, <1>4, <2>1 DEF Range
<1>8. Head(s) \in Range(s)
  BY <1>1, <1>5 DEF Range
<1> QED BY <1>6, <1>7, <1>8

\* The elements of two sequences put together.
LEMMA RangeConcat ==
  ASSUME NEW S, NEW s \in Seq(S), NEW t \in Seq(S)
  PROVE  Range(s \o t) = Range(s) \cup Range(t)
<1>1. /\ Len(s) \in Nat /\ Len(t) \in Nat
      /\ DOMAIN s = 1..Len(s) /\ DOMAIN t = 1..Len(t)
      /\ DOMAIN (s \o t) = 1..(Len(s) + Len(t))
      /\ \A i \in 1..Len(s) : (s \o t)[i] = s[i]
      /\ \A i \in 1..Len(t) : (s \o t)[Len(s) + i] = t[i]
  OBVIOUS
<1>2. ASSUME NEW x \in Range(s \o t) PROVE x \in Range(s) \cup Range(t)
  <2>1. PICK i \in 1..(Len(s) + Len(t)) : x = (s \o t)[i]
    BY <1>1 DEF Range
  <2>2. CASE i <= Len(s)
    BY <1>1, <2>1, <2>2 DEF Range
  <2>3. CASE i > Len(s)
    <3>1. i - Len(s) \in 1..Len(t) /\ Len(s) + (i - Len(s)) = i
      BY <1>1, <2>3
    <3>2. x = t[i - Len(s)]
      BY <1>1, <2>1, <3>1
    <3> QED BY <1>1, <3>1, <3>2 DEF Range
  <2> QED BY <1>1, <2>2, <2>3
<1>3. Range(s) \subseteq Range(s \o t)
  BY <1>1 DEF Range
<1>4. ASSUME NEW x \in Range(t) PROVE x \in Range(s \o t)
  <2>1. PICK i \in 1..Len(t) : x = t[i]
    BY <1>1, <1>4 DEF Range
  <2>2. Len(s) + i \in 1..(Len(s) + Len(t))
    BY <1>1
  <2> QED BY <1>1, <2>1, <2>2 DEF Range
<1> QED BY <1>2, <1>3, <1>4

\* The elements of the sequences a handler can hold.
LEMMA RangeShort ==
  ASSUME NEW e
  PROVE  Range(<<>>) = {} /\ Range(<<e>>) = {e}
  BY DEF Range

\* The elements of a sequence over a set are in it.
LEMMA RangeType == ASSUME NEW S, NEW s \in Seq(S) PROVE Range(s) \subseteq S
  BY DEF Range

\* A newer frame keeps a sequence in order.
LEMMA AppendOrder ==
  ASSUME NEW S, NEW s \in Seq(S), NEW m \in S, InOrder(s),
         \A n \in Range(s) : n.from = m.from => n.seq < m.seq
  PROVE  InOrder(Append(s, m))
<1>1. /\ DOMAIN Append(s, m) = 1..(Len(s) + 1)
      /\ DOMAIN s = 1..Len(s)
      /\ Len(s) \in Nat
      /\ Append(s, m)[Len(s) + 1] = m
      /\ \A i \in 1..Len(s) : Append(s, m)[i] = s[i]
  OBVIOUS
<1>2. \A i \in 1..Len(s) : s[i].from = m.from => s[i].seq < m.seq
  BY <1>1 DEF Range
<1>3. ASSUME NEW i \in 1..(Len(s) + 1), NEW j \in 1..(Len(s) + 1), i < j
      PROVE  Append(s, m)[i].from = Append(s, m)[j].from =>
               Append(s, m)[i].seq < Append(s, m)[j].seq
  <2>1. i \in 1..Len(s)
    BY <1>1, <1>3
  <2>2. CASE j = Len(s) + 1
    BY <1>1, <1>2, <2>1, <2>2
  <2>3. CASE j \in 1..Len(s)
    BY <1>1, <1>3, <2>1, <2>3 DEF InOrder
  <2> QED BY <1>1, <2>2, <2>3
<1> QED BY <1>1, <1>3 DEF InOrder

\* What follows the head of an ordered sequence is ordered and newer.
LEMMA TailOrder ==
  ASSUME NEW S, NEW s \in Seq(S), s # <<>>, InOrder(s)
  PROVE  InOrder(Tail(s)) /\ Before(<<Head(s)>>, Tail(s))
<1>1. /\ Len(s) \in Nat \ {0}
      /\ DOMAIN s = 1..Len(s)
      /\ DOMAIN Tail(s) = 1..(Len(s) - 1)
      /\ Head(s) = s[1]
      /\ \A i \in 1..(Len(s) - 1) : Tail(s)[i] = s[i + 1]
  OBVIOUS
<1>2. ASSUME NEW i \in 1..(Len(s) - 1), NEW j \in 1..(Len(s) - 1), i < j
      PROVE  s[i + 1].from = s[j + 1].from => s[i + 1].seq < s[j + 1].seq
  <2>1. i + 1 \in DOMAIN s /\ j + 1 \in DOMAIN s /\ i + 1 < j + 1
    BY <1>1, <1>2
  <2> QED BY <2>1 DEF InOrder
<1>3. ASSUME NEW j \in 1..(Len(s) - 1)
      PROVE  s[1].from = s[j + 1].from => s[1].seq < s[j + 1].seq
  <2>1. 1 \in DOMAIN s /\ j + 1 \in DOMAIN s /\ 1 < j + 1
    BY <1>1
  <2> QED BY <2>1 DEF InOrder
<1>4. InOrder(Tail(s))
  BY <1>1, <1>2 DEF InOrder
<1>5. \A n \in Range(Tail(s)) : s[1].from = n.from => s[1].seq < n.seq
  BY <1>1, <1>3 DEF Range
<1>6. Before(<<Head(s)>>, Tail(s))
  BY <1>1, <1>5, RangeShort DEF Before
<1> QED BY <1>4, <1>6


\* The head of a queue of frames occurs in it once.
LEMMA HeadOnce ==
  ASSUME NEW S, NEW s \in Seq(S), s # <<>>, InOrder(s), Head(s).seq \in Nat
  PROVE  Head(s) \notin Range(Tail(s))
<1>1. Before(<<Head(s)>>, Tail(s))
  BY TailOrder
<1>2. ASSUME Head(s) \in Range(Tail(s)) PROVE Head(s).seq < Head(s).seq
  BY <1>1, <1>2, RangeShort DEF Before
<1>3. ~(Head(s).seq < Head(s).seq)
  OBVIOUS
<1> QED BY <1>2, <1>3

\* A frame has one index in a sequence of frames that is in order.
LEMMA IndexOnce ==
  ASSUME NEW S, NEW s \in Seq(S), InOrder(s),
         NEW i \in DOMAIN s, NEW j \in DOMAIN s, s[i] = s[j], s[i].seq \in Nat
  PROVE  i = j
<1>1. i \in Nat /\ j \in Nat
  OBVIOUS
<1>2. ASSUME i < j \/ j < i PROVE s[i].seq < s[i].seq
  BY <1>2 DEF InOrder
<1>3. ~(s[i].seq < s[i].seq)
  OBVIOUS
<1> QED BY <1>1, <1>2, <1>3

=============================================================================
