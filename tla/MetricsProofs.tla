---------------------------- MODULE MetricsProofs ----------------------------
(***************************************************************************)
(* Theorems about MetricsAPI, for any documents, any number of requests,   *)
(* any parameters and any size of int.                                     *)
(***************************************************************************)
EXTENDS MetricsAPI, SequenceTheorems, FiniteSetTheorems, TLAPS

-----------------------------------------------------------------------------
(* The inductive invariant.                                                *)

\* A command is sent on behalf of a request of its path that has no answer yet.
Dispatched(r) ==
  /\ pc[r] # "answered" => reply[r] = NoReply
  /\ pc[r] \in {"distinct uuid", "distinct gpu_id"} => query[r] \in ListQuery
  /\ pc[r] \in {"count", "find"} => query[r] \in TelemetryQuery

\* What was found are values of one field.
OneField(r) ==
  \E field \in {"uuid", "gpu_id"} : found[r] \subseteq Identifiers(field)

\* gpu_ids are asked for only if no document had a uuid, and so none that was
\* there when the request arrived.
FellBack(r) ==
  pc[r] = "distinct gpu_id" => found[r] = {} /\ \A d \in before[r] : d.uuid = None

\* The documents that were counted are still there.
StillThere(r) ==
  pc[r] = "find" => total[r] <= Cardinality(Matching(docs, query[r]))

IInv ==
  /\ TypeOK
  /\ \A r \in Requests : Dispatched(r) /\ OneField(r) /\ FellBack(r) /\ StillThere(r)
  /\ ListPageRight /\ GPUsListedOnce /\ PageCoversCount /\ TelemetryPageRight

-----------------------------------------------------------------------------
(* Arithmetic of int.                                                      *)

\* A natural number that is an int does not wrap around, a larger one wraps
\* around to something smaller.
LEMMA WrapNat ==
  ASSUME NEW n \in Nat
  PROVE  /\ Wrap(n) \in Int
         /\ Wrap(n) <= n
         /\ n <= MaxInt => Wrap(n) = n
<1> DEFINE half == MaxInt + 1
           m == n + half
<1>1. MaxInt \in Nat
  BY MetricsAssumption
<1>2. m \in Nat /\ 2 * half \in Nat /\ 2 * half > 0
  BY <1>1
<1>3. \A a, b \in Nat : b > 0 => a % b \in Int /\ a % b <= a /\ (a < b => a % b = a)
  OBVIOUS
<1>4. m % (2 * half) \in Int /\ m % (2 * half) <= m
  BY <1>2, <1>3
<1>5. n <= MaxInt => m % (2 * half) = m
  BY <1>1, <1>2, <1>3
<1>6. Wrap(n) = (m % (2 * half)) - half
  BY <1>1 DEF Wrap
<1> QED
  BY <1>1, <1>4, <1>5, <1>6

\* Whatever a client sends, it is served with a positive limit and page.
LEMMA PagingType ==
  ASSUME NEW q \in ListQuery \cup TelemetryQuery
  PROVE  Limit(q) \in 1..MaxInt /\ Page(q) \in 1..MaxInt
<1>1. q.limit \in LimitTexts /\ q.page \in PageTexts
  BY DEF ListQuery, TelemetryQuery
<1>2. DefaultLimit \in 1..MaxInt /\ MaxInt \in Nat
  BY MetricsAssumption
<1>3. 1 \in 1..MaxInt
  BY <1>2
<1> QED BY <1>1, <1>2, <1>3 DEF Limit, Page, ParseInt

\* The number of items that come before page p.
LEMMA SkippedNat ==
  ASSUME NEW p \in Nat \ {0}, NEW l \in Nat \ {0}
  PROVE  /\ (p - 1) * l \in Nat
         /\ p = 1 \/ (p - 1) * l >= l
<1>1. PICK k \in Nat : k = p - 1
  OBVIOUS
<1>2. k * l \in Nat
  OBVIOUS
<1>3. k = 0 \/ k * l >= l
  <2>1. CASE k > 0
    <3>1. PICK j \in Nat : k = j + 1
      BY <2>1
    <3>2. j * l \in Nat /\ k * l = j * l + l
      BY <3>1
    <3> QED BY <3>2
  <2> QED BY <2>1
<1> QED BY <1>1, <1>2, <1>3

\* A sequence over a set is one over any larger set.
LEMMA SeqOfSubset ==
  ASSUME NEW S, NEW T, S \subseteq T, NEW s \in Seq(S)
  PROVE  s \in Seq(T)
OBVIOUS

-----------------------------------------------------------------------------
(* Sets laid out as sequences.                                             *)

\* A sequence made of a finite set has each element of it in one place.
LEMMA LaidOut ==
  ASSUME NEW S, IsFiniteSet(S), NEW s \in SetToSeqs(S)
  PROVE  /\ s \in Seq(S) /\ Len(s) = Cardinality(S) /\ Cardinality(S) \in Nat
         /\ IsInjective(s)
         /\ \A x \in S : \E i \in DOMAIN s : s[i] = x
<1> DEFINE n == Cardinality(S)
<1>1. n \in Nat
  BY FS_CardinalityType
<1>2. s \in [1..n -> S] /\ \A i, j \in 1..n : i # j => s[i] # s[j]
  BY DEF SetToSeqs
<1>3. s \in Seq(S) /\ Len(s) = n /\ DOMAIN s = 1..n
  BY <1>1, <1>2
<1>4. IsInjective(s)
  BY <1>2, <1>3 DEF IsInjective
<1>5. s \in Injection(1..n, S)
  BY <1>2, <1>4 DEF Injection
<1>6. Cardinality(1..n) = n
  BY <1>1, FS_Interval
<1>7. s \in Surjection(1..n, S)
  BY <1>5, <1>6, FS_Injection
<1>8. \A x \in S : \E i \in 1..n : s[i] = x
  BY <1>7 DEF Surjection
<1> QED BY <1>1, <1>3, <1>4, <1>8

\* What stands in a stretch of s,
Between(s, a, b) == {s[i] : i \in a..b}

\* as many elements as the stretch has places, if s repeats none.
LEMMA Stretch ==
  ASSUME NEW s, IsInjective(s), NEW a \in Nat, NEW b \in Int,
         a..b \subseteq DOMAIN s, b >= a - 1
  PROVE  /\ IsFiniteSet(Between(s, a, b))
         /\ Cardinality(Between(s, a, b)) = b - a + 1
<1> DEFINE T == Between(s, a, b)
           f == [i \in a..b |-> s[i]]
<1>1. IsFiniteSet(a..b) /\ Cardinality(a..b) = b - a + 1
  BY FS_Interval
<1>2. f \in [a..b -> T] /\ \A t \in T : \E i \in a..b : f[i] = t
  BY DEF Between
<1>3. IsInjective(f)
  BY DEF IsInjective
<1>4. f \in Bijection(a..b, T)
  BY <1>2, <1>3 DEF Bijection, Injection, Surjection
<1>5. ExistsBijection(a..b, T)
  BY <1>4 DEF ExistsBijection
<1> QED BY <1>1, <1>5, FS_Bijection

-----------------------------------------------------------------------------
(* Pages.                                                                  *)

\* What an answer of status 200 holds.
LEMMA OKFields ==
  ASSUME NEW items
  PROVE  OK(items).status = 200 /\ OK(items).items = items /\ OK(items).error = ""
BY DEF OK, Answer

\* A stretch of a sequence, item by item.
LEMMA SubSeqItems ==
  ASSUME NEW S, NEW s \in Seq(S), NEW o \in Nat, NEW e \in o..Len(s)
  PROVE  LET items == SubSeq(s, o + 1, e) IN
         /\ items \in Seq(S)
         /\ Len(items) = e - o
         /\ DOMAIN items = 1..(e - o)
         /\ \A k \in 1..(e - o) : items[k] = s[o + k] /\ o + k \in 1..Len(s)
<1>1. o \in Int /\ e \in Int /\ Len(s) \in Nat /\ o <= e /\ e <= Len(s)
  OBVIOUS
<1>2. o + 1 \in Int /\ \A k \in 1..(e - o) : o + k \in 1..Len(s)
  BY <1>1
<1>3. \A i \in (o + 1)..e : s[i] \in S
  BY <1>1
<1> DEFINE items == SubSeq(s, o + 1, e)
<1>4. /\ items \in Seq(S)
      /\ Len(items) = IF o + 1 <= e THEN e - (o + 1) + 1 ELSE 0
      /\ \A k \in 1..(e - (o + 1) + 1) : items[k] = s[o + 1 + k - 1]
  BY <1>1, <1>2, <1>3, SubSeqProperties
<1> HIDE DEF items
<1>5. Len(items) = e - o
  BY <1>1, <1>4
<1>6. DOMAIN items = 1..(e - o)
  BY <1>4, <1>5, LenProperties
<1>7. \A k \in 1..(e - o) : items[k] = s[o + k]
  <2> SUFFICES ASSUME NEW k \in 1..(e - o) PROVE items[k] = s[o + k]
    OBVIOUS
  <2>1. k \in 1..(e - (o + 1) + 1) /\ o + 1 + k - 1 = o + k
    BY <1>1
  <2> QED BY <1>4, <2>1
<1> QED BY <1>2, <1>4, <1>5, <1>6, <1>7 DEF items

\* Whatever wraps around, a page is empty, or a stretch of the slice no longer
\* than the limit, or slicing panics; it is the stretch from offset to offset
\* plus limit when that is an int.
LEMMA PageFits ==
  ASSUME NEW S, NEW s \in Seq(S), NEW o \in Int, NEW l \in Nat \ {0}
  PROVE  /\ Typed(PaginateSlice(s, o, l), S, l)
         /\ o >= Len(s) => PaginateSlice(s, o, l) = OK(<<>>)
         /\ o \in Nat /\ o < Len(s) /\ o + l <= MaxInt =>
              PaginateSlice(s, o, l) = OK(SubSeq(s, o + 1, UpTo(o + l, Len(s))))
<1> DEFINE e == PageEnd(o, l, Len(s))
           a == PaginateSlice(s, o, l)
<1>1. a = IF o >= Len(s) THEN OK(<<>>)
          ELSE IF o \in 0..e THEN OK(SubSeq(s, o + 1, e)) ELSE Recovered
  BY DEF PaginateSlice
<1>2. o \in Nat => /\ e \in Int /\ e <= o + l /\ e <= Len(s)
                   /\ o + l <= MaxInt => e = UpTo(o + l, Len(s))
  <2>1. ASSUME o \in Nat
        PROVE  Wrap(o + l) \in Int /\ Wrap(o + l) <= o + l
               /\ (o + l <= MaxInt => Wrap(o + l) = o + l)
    BY <2>1, WrapNat
  <2> QED BY <2>1 DEF PageEnd, UpTo
<1>3. o \in Nat /\ o < Len(s) /\ o + l <= MaxInt => o \in 0..UpTo(o + l, Len(s))
  BY DEF UpTo
<1> HIDE DEF e
<1>4. ASSUME o < Len(s), o \in 0..e
      PROVE  Typed(OK(SubSeq(s, o + 1, e)), S, l)
  <2>1. o \in Nat /\ e \in o..Len(s) /\ e - o <= l
    BY <1>2, <1>4
  <2>2. SubSeq(s, o + 1, e) \in Seq(S) /\ Len(SubSeq(s, o + 1, e)) <= l
    BY <2>1, SubSeqItems
  <2> QED BY <2>2, OKFields DEF Typed, OK, Answer
<1>5. Typed(OK(<<>>), S, l) /\ Typed(Recovered, S, l)
  BY DEF Typed, OK, Recovered, Answer
<1>6. Typed(a, S, l)
  <2> HIDE DEF a
  <2> QED BY <1>1, <1>4, <1>5
<1> QED BY <1>1, <1>2, <1>3, <1>6

\* What ListGPUs answers when the offset does not overflow: the page asked for.
LEMMA RightIds ==
  ASSUME NEW q \in ListQuery, NEW ids \in SUBSET Nat, IsFiniteSet(ids),
         2 * Cardinality(ids) <= MaxInt, Skipped(q) <= MaxInt,
         NEW s \in SortStrings(ids, q.asc)
  PROVE  LET a == PaginateSlice(s, CalculateOffset(Page(q), Limit(q)), Limit(q)) IN
         a.status = 200 /\ PageOfIds(q, ids, a.items)
<1> DEFINE l == Limit(q)
           o == Skipped(q)
           n == Cardinality(ids)
           a == PaginateSlice(s, o, l)
           Ahead(id) == {x \in ids : IF q.asc THEN x < id ELSE x > id}
<1>1. l \in 1..MaxInt /\ Page(q) \in Nat \ {0} /\ MaxInt \in Nat
  BY PagingType, MetricsAssumption
<1>2. CalculateOffset(Page(q), l) = o /\ o \in Nat /\ (o = 0 \/ o >= l)
  BY <1>1, SkippedNat, WrapNat DEF CalculateOffset, Skipped
<1>3. s \in SetToSeqs(ids)
  BY DEF SortStrings
<1>4. /\ s \in Seq(ids) /\ Len(s) = n /\ n \in Nat /\ IsInjective(s)
      /\ \A x \in ids : \E i \in DOMAIN s : s[i] = x
  BY <1>3, LaidOut
<1>5. \A i, j \in 1..n : i < j => IF q.asc THEN s[i] < s[j] ELSE s[i] > s[j]
  BY <1>4 DEF SortStrings
<1>6. SUFFICES a.status = 200 /\ PageOfIds(q, ids, a.items)
  BY <1>2
<1> HIDE DEF o, l, n, a
<1>7. /\ o >= n => a = OK(<<>>)
      /\ o < n /\ o + l <= MaxInt => a = OK(SubSeq(s, o + 1, UpTo(o + l, n)))
  BY <1>1, <1>2, <1>4, PageFits DEF a
<1>8. CASE o >= n
  <2>1. a.status = 200 /\ a.items = <<>>
    <3>1. a = OK(<<>>)
      BY <1>7, <1>8
    <3>2. OK(<<>>).status = 200 /\ OK(<<>>).items = <<>>
      BY OKFields
    <3> QED BY <3>1, <3>2
  <2>2. Smaller(l, n - o) <= 0 /\ Len(<<>>) = 0 /\ DOMAIN <<>> = {}
    BY <1>1, <1>2, <1>4, <1>8 DEF Smaller
  <2>3. Smaller(l, n - o) \in Int
    BY <1>1, <1>2, <1>4 DEF Smaller
  <2> QED BY <2>1, <2>2, <2>3 DEF PageOfIds, l, n, o
<1>9. CASE o < n
  \* A page that begins inside the slice ends at an int.
  <2>1. o + l <= MaxInt
    BY <1>1, <1>2, <1>4, <1>9 DEF n
  <2> DEFINE e == UpTo(o + l, n)
             items == SubSeq(s, o + 1, e)
  <2>4. a.status = 200 /\ a.items = items
    <3>1. a = OK(items)
      BY <1>7, <1>9, <2>1
    <3>2. OK(items).status = 200 /\ OK(items).items = items
      BY OKFields
    <3> QED BY <3>1, <3>2
  <2>5. e \in o..n /\ e \in Nat /\ e - o >= Smaller(l, n - o)
    BY <1>1, <1>2, <1>4, <1>9 DEF UpTo, Smaller
  <2> HIDE DEF e
  <2>6. /\ Len(items) = e - o
        /\ DOMAIN items = 1..(e - o)
        /\ \A k \in 1..(e - o) : items[k] = s[o + k] /\ o + k \in 1..n
    BY <1>2, <1>4, <2>5, SubSeqItems
  <2> HIDE DEF items
  <2>7. Len(items) >= Smaller(l, n - o)
    BY <2>5, <2>6
  <2>8. ASSUME NEW k \in DOMAIN items
        PROVE  items[k] \in ids /\ Cardinality(Ahead(items[k])) = o + k - 1
    <3> DEFINE p == o + k
    <3>1. p \in 1..n /\ items[k] = s[p]
      BY <1>2, <2>6
    <3>2. s[p] \in ids
      BY <1>4, <3>1
    <3>3. Ahead(s[p]) = Between(s, 1, p - 1)
      <4>1. ASSUME NEW i \in 1..(p - 1) PROVE s[i] \in Ahead(s[p])
        BY <1>4, <1>5, <3>1
      <4>2. ASSUME NEW x \in Ahead(s[p]) PROVE \E i \in 1..(p - 1) : s[i] = x
        <5>1. PICK i \in 1..n : s[i] = x
          BY <1>4
        <5>2. x \in Nat /\ s[p] \in Nat /\ IF q.asc THEN x < s[p] ELSE x > s[p]
          BY <3>2
        <5>3. i < p
          BY <1>4, <1>5, <3>1, <5>1, <5>2
        <5> QED BY <3>1, <5>1, <5>3
      <4> QED BY <4>1, <4>2 DEF Between
    <3>4. 1..(p - 1) \subseteq DOMAIN s
      BY <1>4, <3>1
    <3>5. Cardinality(Between(s, 1, p - 1)) = p - 1
      <4> HIDE DEF p
      <4>1. p - 1 \in Nat /\ p - 1 >= 1 - 1 /\ p - 1 - 1 + 1 = p - 1
        BY <1>4, <3>1
      <4> QED BY <1>4, <3>4, <4>1, Stretch
    <3>6. p - 1 = o + k - 1
      BY <1>2, <2>5, <2>6
    <3> QED BY <3>1, <3>2, <3>3, <3>5, <3>6
  <2>9. PageOfIds(q, ids, items)
    BY <2>7, <2>8 DEF PageOfIds, l, n, o
  <2> QED BY <2>4, <2>9
<1> QED BY <1>2, <1>4, <1>8, <1>9

\* What Find answers when the offset does not overflow: any arrangement of the
\* matching documents gives a page of the length asked for,
LEMMA RightLength ==
  ASSUME NEW q \in TelemetryQuery, NEW all, IsFiniteSet(all),
         Skipped(q) <= MaxInt,
         NEW s \in SetToSeqs(all)
  PROVE  LET skip == Skip(Page(q), Limit(q))
             items == SubSeq(s, skip + 1, UpTo(skip + Limit(q), Len(s)))
         IN /\ skip = Skipped(q)
            /\ Len(items) \in Nat
            /\ Len(items) >= Smaller(Limit(q), Cardinality(all) - Skipped(q))
<1> DEFINE l == Limit(q)
           o == Skipped(q)
           e == UpTo(o + l, Len(s))
<1>1. l \in 1..MaxInt /\ Page(q) \in Nat \ {0} /\ MaxInt \in Nat
  BY PagingType, MetricsAssumption
<1>2. Skip(Page(q), l) = o /\ o \in Nat
  BY <1>1, SkippedNat, WrapNat DEF Skip, Skipped
<1>3. s \in Seq(all) /\ Len(s) = Cardinality(all) /\ Len(s) \in Nat
  BY LaidOut
<1> SUFFICES /\ Len(SubSeq(s, o + 1, e)) \in Nat
             /\ Len(SubSeq(s, o + 1, e)) >= Smaller(l, Len(s) - o)
  BY <1>2, <1>3
<1> HIDE DEF l, o
<1>4. /\ o >= Len(s) => e = Len(s) /\ 0 >= Smaller(l, Len(s) - o)
      /\ o < Len(s) => e \in o..Len(s) /\ e - o >= Smaller(l, Len(s) - o)
  BY <1>1, <1>2, <1>3 DEF UpTo, Smaller
<1> HIDE DEF e
<1>5. CASE o >= Len(s)
  <2>1. SubSeq(s, o + 1, e) = <<>>
    BY <1>2, <1>3, <1>4, <1>5
  <2> QED BY <1>4, <1>5, <2>1
<1>6. CASE o < Len(s)
  <2>1. e \in o..Len(s) /\ e - o >= Smaller(l, Len(s) - o)
    BY <1>4, <1>6
  <2>2. Len(SubSeq(s, o + 1, e)) = e - o
    BY <1>2, <1>3, <2>1, SubSeqItems
  <2>3. e - o \in Nat
    BY <1>2, <1>3, <2>1
  <2> QED BY <2>1, <2>2, <2>3
<1>7. o >= Len(s) \/ o < Len(s)
  BY <1>2, <1>3
<1> QED BY <1>5, <1>6, <1>7

\* a page never holds more than the limit,
LEMMA FindFits ==
  ASSUME NEW S, NEW s \in Seq(S), NEW o \in Nat, NEW l \in Nat
  PROVE  LET items == SubSeq(s, o + 1, UpTo(o + l, Len(s))) IN
         /\ items \in Seq(S)
         /\ Len(items) <= l
         /\ \A k \in DOMAIN items : items[k] = s[o + k] /\ o + k \in 1..Len(s)
<1> DEFINE e == UpTo(o + l, Len(s))
<1>1. e \in Int /\ e <= Len(s) /\ e <= o + l
  BY DEF UpTo
<1> HIDE DEF e
<1>2. CASE e < o
  <2>1. SubSeq(s, o + 1, e) = <<>>
    <3>1. o + 1 \in Int /\ e < o + 1
      BY <1>1, <1>2
    <3> QED BY <1>1, <3>1, SubSeqEmpty
  <2>2. <<>> \in Seq(S) /\ Len(<<>>) <= l /\ DOMAIN <<>> = {}
    OBVIOUS
  <2> QED BY <2>1, <2>2 DEF e
<1>3. CASE e >= o
  <2>1. e \in o..Len(s) /\ e - o <= l
    BY <1>1, <1>3
  <2>2. /\ SubSeq(s, o + 1, e) \in Seq(S)
        /\ Len(SubSeq(s, o + 1, e)) <= l
        /\ \A k \in DOMAIN SubSeq(s, o + 1, e) :
             SubSeq(s, o + 1, e)[k] = s[o + k] /\ o + k \in 1..Len(s)
    BY <2>1, SubSeqItems
  <2> QED BY <2>2 DEF e
<1> QED BY <1>1, <1>2, <1>3

\* and a sorted arrangement of them the right page.
LEMMA RightDocuments ==
  ASSUME NEW q \in TelemetryQuery, NEW all \in SUBSET Documents, IsFiniteSet(all),
         NEW s \in Orders(all, q.asc)
  PROVE  PageOfDocuments(q, all, SubSeq(s, Skipped(q) + 1,
                                        UpTo(Skipped(q) + Limit(q), Len(s))))
<1> DEFINE l == Limit(q)
           o == Skipped(q)
           n == Cardinality(all)
           items == SubSeq(s, o + 1, UpTo(o + l, Len(s)))
           Later(d) == {x \in all : IF q.asc THEN x.timestamp > d.timestamp
                                             ELSE x.timestamp < d.timestamp}
           Earlier(d) == {x \in all : IF q.asc THEN x.timestamp < d.timestamp
                                               ELSE x.timestamp > d.timestamp}
<1>1. l \in 1..MaxInt /\ Page(q) \in Nat \ {0} /\ MaxInt \in Nat
  BY PagingType, MetricsAssumption
<1>2. o \in Nat
  BY <1>1, SkippedNat DEF Skipped
<1>3. s \in SetToSeqs(all)
  BY DEF Orders
<1>4. /\ s \in Seq(all) /\ Len(s) = n /\ n \in Nat /\ IsInjective(s)
      /\ \A x \in all : \E i \in DOMAIN s : s[i] = x
  BY <1>3, LaidOut
<1>5. \A i, j \in 1..n : i < j => IF q.asc THEN s[i].timestamp <= s[j].timestamp
                                           ELSE s[i].timestamp >= s[j].timestamp
  BY <1>4 DEF Orders, SortedBefore
<1>6. \A d \in all : d.timestamp \in Nat
  BY MetricsAssumption
<1> HIDE DEF o, l, n, items
<1>7. /\ items \in Seq(all)
      /\ \A k \in DOMAIN items : items[k] = s[o + k] /\ o + k \in 1..n
  <2>1. l \in Nat /\ s \in Seq(all)
    BY <1>1, <1>4
  <2>2. /\ items \in Seq(all)
        /\ \A k \in DOMAIN items : items[k] = s[o + k] /\ o + k \in 1..Len(s)
    BY <1>2, <2>1, FindFits DEF items
  <2> QED BY <1>4, <2>2
<1>8. IsInjective(items)
  <2> SUFFICES ASSUME NEW j \in DOMAIN items, NEW k \in DOMAIN items,
                      items[j] = items[k]
               PROVE  j = k
    BY DEF IsInjective
  <2>1. j \in Nat /\ k \in Nat
    BY <1>7
  <2>2. o + j = o + k
    BY <1>4, <1>7 DEF IsInjective
  <2> QED BY <1>2, <2>1, <2>2
<1>9. ASSUME NEW k \in DOMAIN items
      PROVE  /\ items[k] \in all
             /\ Cardinality(Earlier(items[k])) < o + k
             /\ o + k <= n - Cardinality(Later(items[k]))
  <2> DEFINE p == o + k
             d == s[p]
  <2>1. items[k] = d /\ p \in 1..n /\ d \in all
    BY <1>4, <1>7
  <2>2. Earlier(d) \subseteq Between(s, 1, p - 1)
    <3> SUFFICES ASSUME NEW x \in Earlier(d) PROVE \E i \in 1..(p - 1) : s[i] = x
      BY DEF Between
    <3>1. PICK i \in 1..n : s[i] = x
      BY <1>4
    <3>2. i < p
      BY <1>4, <1>5, <1>6, <2>1, <3>1
    <3> QED BY <2>1, <3>1, <3>2
  <2>3. Later(d) \subseteq Between(s, p + 1, n)
    <3> SUFFICES ASSUME NEW x \in Later(d) PROVE \E i \in (p + 1)..n : s[i] = x
      BY DEF Between
    <3>1. PICK i \in 1..n : s[i] = x
      BY <1>4
    <3>2. i > p
      BY <1>4, <1>5, <1>6, <2>1, <3>1
    <3> QED BY <2>1, <3>1, <3>2
  <2> HIDE DEF d
  <2>4. /\ IsFiniteSet(Between(s, 1, p - 1)) /\ Cardinality(Between(s, 1, p - 1)) = p - 1
        /\ IsFiniteSet(Between(s, p + 1, n)) /\ Cardinality(Between(s, p + 1, n)) = n - p
    <3> HIDE DEF p
    <3>1. /\ p \in Nat /\ p - 1 \in Nat /\ p - 1 >= 1 - 1 /\ p - 1 - 1 + 1 = p - 1
          /\ p + 1 \in Nat /\ n \in Int /\ n >= p + 1 - 1 /\ n - (p + 1) + 1 = n - p
          /\ 1..(p - 1) \subseteq DOMAIN s /\ (p + 1)..n \subseteq DOMAIN s
      BY <1>4, <2>1
    <3>2. /\ IsFiniteSet(Between(s, 1, p - 1))
          /\ Cardinality(Between(s, 1, p - 1)) = p - 1
      BY <1>4, <3>1, Stretch
    <3>3. /\ IsFiniteSet(Between(s, p + 1, n))
          /\ Cardinality(Between(s, p + 1, n)) = n - p
      BY <1>4, <3>1, Stretch
    <3> QED BY <3>2, <3>3
  <2>5. /\ Cardinality(Earlier(d)) \in Nat /\ Cardinality(Earlier(d)) <= p - 1
        /\ Cardinality(Later(d)) \in Nat /\ Cardinality(Later(d)) <= n - p
    <3> HIDE DEF p, Earlier, Later
    <3>1. /\ IsFiniteSet(Earlier(d)) /\ Cardinality(Earlier(d)) <= p - 1
      BY <2>2, <2>4, FS_Subset
    <3>2. /\ IsFiniteSet(Later(d)) /\ Cardinality(Later(d)) <= n - p
      BY <2>3, <2>4, FS_Subset
    <3> QED BY <3>1, <3>2, FS_CardinalityType
  <2> HIDE DEF Earlier, Later
  <2> QED BY <1>4, <2>1, <2>5
<1> QED BY <1>8, <1>9 DEF PageOfDocuments, o, l, n, items

-----------------------------------------------------------------------------
(* Requests.                                                               *)

\* Which queries belong to which path, and what they are answered with.
LEMMA Paths ==
  /\ \A q \in ListQuery : q.path = "gpus" /\ Items(q) = Nat
  /\ \A q \in TelemetryQuery : q.path = "telemetry" /\ Items(q) = Documents
  /\ NoQuery.path = "none"
BY DEF ListQuery, TelemetryQuery, NoQuery, Items

\* Nothing about x changes.
Same(x) ==
  /\ pc'[x] = pc[x] /\ query'[x] = query[x] /\ reply'[x] = reply[x]
  /\ found'[x] = found[x] /\ total'[x] = total[x]
  /\ before'[x] = before[x] /\ fetched'[x] = fetched[x]

Step(r) ==
  \/ StopInMiddleware(r) \/ ListGPUs(r) \/ QueryGPUTelemetry(r)
  \/ DistinctUUID(r) \/ DistinctGPUID(r)
  \/ CountDocuments(r) \/ Find(r) \/ StoreError(r)

\* An answer to one request is none to another.
LEMMA ReplyTo ==
  ASSUME NEW r \in Requests, NEW a, Reply(r, a),
         DOMAIN pc = Requests, DOMAIN reply = Requests
  PROVE  /\ pc'[r] = "answered" /\ reply'[r] = a
         /\ \A x \in Requests \ {r} : pc'[x] = pc[x] /\ reply'[x] = reply[x]
BY DEF Reply

\* A step of one request changes nothing about another, nor the collection.
LEMMA OthersSame ==
  ASSUME TypeOK, NEW r \in Requests, Step(r)
  PROVE  /\ docs' = docs /\ server' = server
         /\ \A x \in Requests \ {r} : Same(x)
<1>1. /\ pc \in [Requests -> {"new", "distinct uuid", "distinct gpu_id", "count",
                              "find", "answered"}]
      /\ DOMAIN query = Requests /\ DOMAIN found = Requests /\ DOMAIN total = Requests
      /\ DOMAIN before = Requests /\ DOMAIN fetched = Requests
      /\ DOMAIN reply = Requests
  BY DEF TypeOK
<1>2. CASE StopInMiddleware(r)
  <2>1. PICK status \in {204, 401} : Reply(r, Refused(status))
    BY <1>2 DEF StopInMiddleware
  <2>2. UNCHANGED <<docs, server, query, found, total, before, fetched>>
    BY <1>2 DEF StopInMiddleware, Arrive
  <2>3. \A x \in Requests \ {r} : pc'[x] = pc[x] /\ reply'[x] = reply[x]
    BY <1>1, <2>1, ReplyTo
  <2> QED BY <2>2, <2>3 DEF Same
<1>3. CASE ListGPUs(r)
  <2>1. UNCHANGED <<docs, server, found, total, fetched>>
    BY <1>3 DEF ListGPUs, Arrive
  <2>2. before' = [before EXCEPT ![r] = docs]
    BY <1>3 DEF ListGPUs
  <2>3. PICK q \in ListQuery : query' = [query EXCEPT ![r] = q]
    BY <1>3 DEF ListGPUs
  <2>4. \/ Reply(r, Refused(400))
        \/ pc' = [pc EXCEPT ![r] = "distinct uuid"] /\ reply' = reply
    BY <1>3 DEF ListGPUs
  <2>5. \A x \in Requests \ {r} : pc'[x] = pc[x] /\ reply'[x] = reply[x]
    <3>1. CASE Reply(r, Refused(400))
      BY <1>1, <3>1, ReplyTo
    <3> QED BY <1>1, <2>4, <3>1
  <2> QED BY <1>1, <2>1, <2>2, <2>3, <2>5 DEF Same
<1>4. CASE QueryGPUTelemetry(r)
  <2>1. UNCHANGED <<docs, server, found, total, fetched>>
    BY <1>4 DEF QueryGPUTelemetry, Arrive
  <2>2. PICK q \in TelemetryQuery : query' = [query EXCEPT ![r] = q]
    BY <1>4 DEF QueryGPUTelemetry
  <2>3. \/ Reply(r, Refused(400))
        \/ pc' = [pc EXCEPT ![r] = "count"] /\ reply' = reply
    BY <1>4 DEF QueryGPUTelemetry
  <2>4. before' = before
    BY <1>4 DEF QueryGPUTelemetry
  <2>5. \A x \in Requests \ {r} : pc'[x] = pc[x] /\ reply'[x] = reply[x]
    <3>1. CASE Reply(r, Refused(400))
      BY <1>1, <3>1, ReplyTo
    <3> QED BY <1>1, <2>3, <3>1
  <2> QED BY <1>1, <2>1, <2>2, <2>4, <2>5 DEF Same
<1>5. CASE DistinctUUID(r)
  BY <1>1, <1>5 DEF DistinctUUID, ListResponse, Reply, Same
<1>6. CASE DistinctGPUID(r)
  BY <1>1, <1>6 DEF DistinctGPUID, ListResponse, Reply, Same
<1>7. CASE CountDocuments(r)
  BY <1>1, <1>7 DEF CountDocuments, Same
<1>8. CASE Find(r)
  BY <1>1, <1>8 DEF Find, Reply, Same
<1>9. CASE StoreError(r)
  BY <1>1, <1>9 DEF StoreError, Reply, local, Same
<1> QED BY <1>2, <1>3, <1>4, <1>5, <1>6, <1>7, <1>8, <1>9 DEF Step

\* A typed answer keeps the types of all answers.
LEMMA Replying ==
  ASSUME TypeOK, NEW r \in Requests, NEW a, Reply(r, a),
         \A x \in Requests \ {r} : query'[x] = query[x],
         Typed(a, Items(query'[r]), Limit(query'[r]))
  PROVE  /\ pc' \in [Requests -> {"new", "distinct uuid", "distinct gpu_id", "count",
                                  "find", "answered"}]
         /\ pc'[r] = "answered" /\ reply'[r] = a
         /\ DOMAIN reply' = Requests
         /\ \A x \in Requests : Typed(reply'[x], Items(query'[x]), Limit(query'[x]))
<1>1. /\ pc \in [Requests -> {"new", "distinct uuid", "distinct gpu_id", "count",
                              "find", "answered"}]
      /\ DOMAIN reply = Requests
      /\ \A x \in Requests : Typed(reply[x], Items(query[x]), Limit(query[x]))
  BY DEF TypeOK
<1>2. /\ pc' = [pc EXCEPT ![r] = "answered"]
      /\ reply' = [reply EXCEPT ![r] = a]
  BY DEF Reply
<1>3. ASSUME NEW x \in Requests
      PROVE  Typed(reply'[x], Items(query'[x]), Limit(query'[x]))
  <2>1. CASE x = r
    BY <1>1, <1>2, <2>1
  <2>2. CASE x # r
    BY <1>1, <1>2, <2>2
  <2> QED BY <2>1, <2>2
<1> QED BY <1>1, <1>2, <1>3

\* Steps of a request keep the types.
LEMMA StepTypes ==
  ASSUME TypeOK, NEW r \in Requests, Dispatched(r), FellBack(r), Step(r)
  PROVE  TypeOK' /\ Dispatched(r)'
<1>1. /\ docs' = docs /\ server' = server
      /\ \A x \in Requests \ {r} : Same(x)
  BY OthersSame
<1>2. /\ docs \subseteq Documents /\ IsFiniteSet(docs) /\ Cardinality(docs) \in Nat
      /\ server \in {"serving", "draining", "exited"}
      /\ pc \in [Requests -> {"new", "distinct uuid", "distinct gpu_id", "count",
                              "find", "answered"}]
      /\ query \in [Requests -> {NoQuery} \cup ListQuery \cup TelemetryQuery]
      /\ found \in [Requests -> SUBSET Nat]
      /\ total \in [Requests -> 0..Cardinality(docs)]
      /\ before \in [Requests -> SUBSET docs]
      /\ fetched \in [Requests -> SUBSET docs]
      /\ DOMAIN reply = Requests
      /\ \A x \in Requests : Typed(reply[x], Items(query[x]), Limit(query[x]))
  BY FS_CardinalityType DEF TypeOK
<1>3. \A x \in Requests \ {r} : query'[x] = query[x]
  BY <1>1 DEF Same
<1>4. \A S, l : /\ Typed(StoreFailed, S, l) /\ Typed(NoReply, S, l)
                /\ Typed(Refused(204), S, l) /\ Typed(Refused(400), S, l)
                /\ Typed(Refused(401), S, l)
  BY DEF Typed, Answer, StoreFailed, Refused, NoReply
\* An answered request, and one whose reply is still missing.
<1>5. ASSUME query' \in [Requests -> {NoQuery} \cup ListQuery \cup TelemetryQuery],
             found' \in [Requests -> SUBSET Nat],
             total' \in [Requests -> 0..Cardinality(docs)],
             before' \in [Requests -> SUBSET docs],
             fetched' \in [Requests -> SUBSET docs],
             NEW a, Reply(r, a), Typed(a, Items(query'[r]), Limit(query'[r]))
      PROVE  TypeOK' /\ Dispatched(r)'
  <2>1. /\ pc' \in [Requests -> {"new", "distinct uuid", "distinct gpu_id", "count",
                                 "find", "answered"}]
        /\ pc'[r] = "answered" /\ DOMAIN reply' = Requests
        /\ \A x \in Requests : Typed(reply'[x], Items(query'[x]), Limit(query'[x]))
    BY <1>3, <1>5, Replying
  <2>2. Dispatched(r)'
    BY <2>1 DEF Dispatched
  <2> QED BY <1>1, <1>2, <1>5, <2>1, <2>2 DEF TypeOK
<1>6. ASSUME query' \in [Requests -> {NoQuery} \cup ListQuery \cup TelemetryQuery],
             found' \in [Requests -> SUBSET Nat],
             total' \in [Requests -> 0..Cardinality(docs)],
             before' \in [Requests -> SUBSET docs],
             fetched' \in [Requests -> SUBSET docs],
             reply' = reply, pc[r] # "answered",
             NEW next \in {"distinct uuid", "distinct gpu_id", "count", "find"},
             pc' = [pc EXCEPT ![r] = next],
             next \in {"distinct uuid", "distinct gpu_id"} => query'[r] \in ListQuery,
             next \in {"count", "find"} => query'[r] \in TelemetryQuery
      PROVE  TypeOK' /\ Dispatched(r)'
  <2>1. reply[r] = NoReply
    BY <1>6 DEF Dispatched
  <2>2. \A x \in Requests : Typed(reply'[x], Items(query'[x]), Limit(query'[x]))
    BY <1>2, <1>3, <1>4, <1>6, <2>1
  <2>3. pc' \in [Requests -> {"new", "distinct uuid", "distinct gpu_id", "count",
                              "find", "answered"}] /\ pc'[r] = next
    BY <1>2, <1>6
  <2>4. Dispatched(r)'
    BY <1>6, <2>1, <2>3 DEF Dispatched
  <2> QED BY <1>1, <1>2, <1>6, <2>2, <2>3, <2>4 DEF TypeOK
\* What Distinct returns, and a page of it.
<1>7. \A field \in {"uuid", "gpu_id"} :
        /\ Distinct(field) \subseteq Nat
        /\ IsFiniteSet(Distinct(field))
  <2> SUFFICES ASSUME NEW field \in {"uuid", "gpu_id"}
               PROVE  Distinct(field) \subseteq Nat /\ IsFiniteSet(Distinct(field))
    OBVIOUS
  <2>1. Distinct(field) \subseteq Nat
    BY <1>2, MetricsAssumption DEF Distinct
  <2>2. Distinct(field) \subseteq Identifiers(field)
    BY <1>2 DEF Distinct, Identifiers
  <2> QED BY <2>1, <2>2, SliceAssumption, FS_Subset
<1>8. ASSUME NEW ids \in SUBSET Nat, query[r] \in ListQuery, IsFiniteSet(ids),
             query' = query, ListResponse(r, ids)
      PROVE  \E a : Reply(r, a) /\ Typed(a, Items(query'[r]), Limit(query'[r]))
  <2> DEFINE q == query[r]
             o == CalculateOffset(Page(q), Limit(q))
  <2>1. PICK s \in SortStrings(ids, q.asc) : Reply(r, PaginateSlice(s, o, Limit(q)))
    BY <1>8 DEF ListResponse
  <2>2. s \in Seq(ids)
    BY <1>8, LaidOut DEF SortStrings
  <2>3. s \in Seq(Nat)
    BY <2>2, SeqOfSubset
  <2>4. Limit(q) \in 1..MaxInt /\ Page(q) \in 1..MaxInt /\ MaxInt \in Nat
    BY <1>8, PagingType, MetricsAssumption
  <2>5. (Page(q) - 1) * Limit(q) \in Nat
    BY <2>4, SkippedNat
  <2>6. o \in Int
    BY <2>5, WrapNat DEF CalculateOffset
  <2>7. Typed(PaginateSlice(s, o, Limit(q)), Nat, Limit(q))
    <3>1. Limit(q) \in Nat \ {0}
      BY <2>4
    <3> HIDE DEF o
    <3> QED BY <2>3, <2>6, <3>1, PageFits
  <2>8. Items(query'[r]) = Nat /\ query'[r] = q
    BY <1>8, Paths
  <2> QED BY <2>1, <2>7, <2>8
<1>10. CASE StopInMiddleware(r)
  <2>1. PICK status \in {204, 401} : Reply(r, Refused(status))
    BY <1>10 DEF StopInMiddleware
  <2>2. UNCHANGED <<query, found, total, before, fetched>>
    BY <1>10 DEF StopInMiddleware, Arrive
  <2>3. Typed(Refused(status), Items(query'[r]), Limit(query'[r]))
    BY <1>4
  <2> QED BY <1>2, <1>5, <2>1, <2>2, <2>3
<1>11. CASE ListGPUs(r)
  <2>1. PICK q \in ListQuery :
          /\ query' = [query EXCEPT ![r] = q]
          /\ \/ Reply(r, Refused(400))
             \/ pc' = [pc EXCEPT ![r] = "distinct uuid"] /\ reply' = reply
    BY <1>11 DEF ListGPUs
  <2>2. /\ UNCHANGED <<found, total, fetched>>
        /\ before' = [before EXCEPT ![r] = docs]
        /\ pc[r] # "answered"
    BY <1>11 DEF ListGPUs, Arrive
  <2>3. /\ query' \in [Requests -> {NoQuery} \cup ListQuery \cup TelemetryQuery]
        /\ query'[r] = q
        /\ before' \in [Requests -> SUBSET docs]
    BY <1>2, <2>1, <2>2
  <2>4. CASE Reply(r, Refused(400))
    <3>1. Typed(Refused(400), Items(query'[r]), Limit(query'[r]))
      BY <1>4
    <3> QED BY <1>2, <1>5, <2>2, <2>3, <2>4, <3>1
  <2>5. CASE pc' = [pc EXCEPT ![r] = "distinct uuid"] /\ reply' = reply
    BY <1>2, <1>6, <2>2, <2>3, <2>5
  <2> QED BY <2>1, <2>4, <2>5
<1>12. CASE QueryGPUTelemetry(r)
  <2>1. PICK q \in TelemetryQuery :
          /\ query' = [query EXCEPT ![r] = q]
          /\ \/ Reply(r, Refused(400))
             \/ pc' = [pc EXCEPT ![r] = "count"] /\ reply' = reply
    BY <1>12 DEF QueryGPUTelemetry
  <2>2. /\ UNCHANGED <<found, total, before, fetched>>
        /\ pc[r] # "answered"
    BY <1>12 DEF QueryGPUTelemetry, Arrive
  <2>3. /\ query' \in [Requests -> {NoQuery} \cup ListQuery \cup TelemetryQuery]
        /\ query'[r] = q
    BY <1>2, <2>1
  <2>4. CASE Reply(r, Refused(400))
    <3>1. Typed(Refused(400), Items(query'[r]), Limit(query'[r]))
      BY <1>4
    <3> QED BY <1>2, <1>5, <2>2, <2>3, <2>4, <3>1
  <2>5. CASE pc' = [pc EXCEPT ![r] = "count"] /\ reply' = reply
    BY <1>2, <1>6, <2>2, <2>3, <2>5
  <2> QED BY <2>1, <2>4, <2>5
<1>13. CASE StoreError(r)
  <2>1. Reply(r, StoreFailed) /\ UNCHANGED <<query, found, total, before, fetched>>
    BY <1>13 DEF StoreError, local
  <2>2. Typed(StoreFailed, Items(query'[r]), Limit(query'[r]))
    BY <1>4
  <2> QED BY <1>2, <1>5, <2>1, <2>2

<1>14. CASE DistinctUUID(r)
  <2> DEFINE ids == Distinct("uuid")
  <2>1. /\ pc[r] = "distinct uuid"
        /\ found' = [found EXCEPT ![r] = ids]
        /\ UNCHANGED <<query, total, before, fetched>>
        /\ \/ pc' = [pc EXCEPT ![r] = "distinct gpu_id"] /\ reply' = reply
           \/ ListResponse(r, ids)
    BY <1>14 DEF DistinctUUID
  <2>2. query[r] \in ListQuery
    BY <2>1 DEF Dispatched
  <2>3. found' \in [Requests -> SUBSET Nat]
    BY <1>2, <1>7, <2>1
  <2>4. CASE pc' = [pc EXCEPT ![r] = "distinct gpu_id"] /\ reply' = reply
    BY <1>2, <1>6, <2>1, <2>2, <2>3, <2>4
  <2>5. CASE ListResponse(r, ids)
    <3>1. PICK a : Reply(r, a) /\ Typed(a, Items(query'[r]), Limit(query'[r]))
      BY <1>7, <1>8, <2>1, <2>2, <2>5
    <3> QED BY <1>2, <1>5, <2>1, <2>3, <3>1
  <2> QED BY <2>1, <2>4, <2>5
<1>15. CASE DistinctGPUID(r)
  <2> DEFINE ids == found[r] \cup Distinct("gpu_id")
  <2>1. /\ pc[r] = "distinct gpu_id"
        /\ found' = [found EXCEPT ![r] = ids]
        /\ UNCHANGED <<query, total, before, fetched>>
        /\ ListResponse(r, ids)
    BY <1>15 DEF DistinctGPUID
  <2>2. query[r] \in ListQuery
    BY <2>1 DEF Dispatched
  <2>3. found[r] = {}
    BY <2>1 DEF FellBack
  <2>4. ids \in SUBSET Nat /\ IsFiniteSet(ids)
    BY <1>7, <2>3
  <2>5. found' \in [Requests -> SUBSET Nat]
    BY <1>2, <2>1, <2>4
  <2>6. PICK a : Reply(r, a) /\ Typed(a, Items(query'[r]), Limit(query'[r]))
    BY <1>8, <2>1, <2>2, <2>4
  <2> QED BY <1>2, <1>5, <2>1, <2>5, <2>6
<1>16. CASE CountDocuments(r)
  <2>1. /\ pc[r] = "count" /\ pc' = [pc EXCEPT ![r] = "find"]
        /\ total' = [total EXCEPT ![r] = Cardinality(Matching(docs, query[r]))]
        /\ UNCHANGED <<query, reply, found, before, fetched>>
    BY <1>16 DEF CountDocuments
  <2>2. query[r] \in TelemetryQuery
    BY <2>1 DEF Dispatched
  <2>3. Cardinality(Matching(docs, query[r])) \in 0..Cardinality(docs)
    <3>1. Matching(docs, query[r]) \subseteq docs
      BY DEF Matching
    <3> DEFINE all == Matching(docs, query[r])
    <3> HIDE DEF all
    <3>2. IsFiniteSet(all) /\ Cardinality(all) <= Cardinality(docs)
      BY <1>2, <3>1, FS_Subset DEF all
    <3>3. Cardinality(all) \in Nat
      BY <3>2, FS_CardinalityType
    <3>4. Cardinality(docs) \in Nat
      BY <1>2
    <3>5. Cardinality(all) \in 0..Cardinality(docs)
      BY <3>2, <3>3, <3>4
    <3> QED BY <3>5 DEF all
  <2>4. total' \in [Requests -> 0..Cardinality(docs)]
    BY <1>2, <2>1, <2>3
  <2> QED BY <1>2, <1>6, <2>1, <2>2, <2>4
<1>17. CASE Find(r)
  <2> DEFINE q == query[r]
             skip == Skip(Page(q), Limit(q))
             all == Matching(docs, q)
  <2>1. /\ pc[r] = "find"
        /\ fetched' = [fetched EXCEPT ![r] = docs]
        /\ UNCHANGED <<query, found, total, before>>
    BY <1>17 DEF Find
  <2>2. q \in TelemetryQuery /\ fetched' \in [Requests -> SUBSET docs]
    BY <1>2, <2>1 DEF Dispatched
  <2>3. CASE Reply(r, StoreFailed)
    <3>1. Typed(StoreFailed, Items(query'[r]), Limit(query'[r]))
      BY <1>4
    <3> QED BY <1>2, <1>5, <2>1, <2>2, <2>3, <3>1
  <2>4. ASSUME skip >= 0,
               NEW s \in Orders(all, q.asc),
               Reply(r, OK(SubSeq(s, skip + 1, UpTo(skip + Limit(q), Len(s)))))
        PROVE  TypeOK' /\ Dispatched(r)'
    <3> DEFINE items == SubSeq(s, skip + 1, UpTo(skip + Limit(q), Len(s)))
    <3>1. all \subseteq Documents /\ IsFiniteSet(all)
      BY <1>2, FS_Subset DEF Matching
    <3>2. s \in Seq(all)
      BY <3>1, LaidOut DEF Orders
    <3>3. s \in Seq(Documents)
      BY <3>1, <3>2
    <3>4. Limit(q) \in 1..MaxInt /\ Page(q) \in 1..MaxInt /\ MaxInt \in Nat
      BY <2>2, PagingType, MetricsAssumption
    <3>5. skip \in Nat
      BY <2>4, <3>4, SkippedNat, WrapNat DEF Skip
    <3>6. items \in Seq(Documents) /\ Len(items) <= Limit(q)
      <4>1. Limit(q) \in Nat
        BY <3>4
      <4> HIDE DEF skip
      <4> QED BY <3>3, <3>5, <4>1, FindFits
    <3> HIDE DEF items
    <3>7. Typed(OK(items), Documents, Limit(q))
      BY <3>6 DEF Typed, OK, Answer
    <3>8. Items(query'[r]) = Documents /\ query'[r] = q
      BY <2>1, <2>2, Paths
    <3>9. Reply(r, OK(items))
      BY <2>4 DEF items
    <3> QED BY <1>2, <1>5, <2>1, <2>2, <3>7, <3>8, <3>9
  <2> QED BY <1>17, <2>3, <2>4 DEF Find
<1> QED BY <1>10, <1>11, <1>12, <1>13, <1>14, <1>15, <1>16, <1>17 DEF Step

-----------------------------------------------------------------------------
(* The invariant.                                                          *)

\* What IInv says of one request besides its path.
Rest(r) ==
  /\ OneField(r) /\ FellBack(r) /\ StillThere(r)
  /\ IdsRight(r) /\ ListedOnce(r) /\ CoversCount(r) /\ DocumentsRight(r)

\* Identifiers of one field do not hold both names of a GPU.
LEMMA NotBothNames ==
  ASSUME NEW D \in SUBSET Documents, NEW ids,
         \E field \in {"uuid", "gpu_id"} : ids \subseteq Identifiers(field)
  PROVE  \A d \in D : {d.uuid, d.gpu_id} \subseteq ids => d.uuid = d.gpu_id
<1> SUFFICES ASSUME NEW d \in D, d.uuid \in ids, d.gpu_id \in ids PROVE FALSE
  OBVIOUS
<1>1. d.uuid # None /\ d.gpu_id # None
  BY DEF Identifiers
<1>2. d.uuid \in Identifiers("uuid") /\ d.gpu_id \in Identifiers("gpu_id")
  BY <1>1 DEF Identifiers
<1> QED BY <1>2, NamesAssumption

\* More documents never match less.
LEMMA MatchingGrows ==
  ASSUME NEW D, NEW E, D \subseteq E, IsFiniteSet(E), NEW q
  PROVE  /\ IsFiniteSet(Matching(D, q))
         /\ Cardinality(Matching(D, q)) \in Nat
         /\ Cardinality(Matching(E, q)) \in Nat
         /\ Cardinality(Matching(D, q)) <= Cardinality(Matching(E, q))
<1>1. Matching(D, q) \subseteq Matching(E, q) /\ Matching(E, q) \subseteq E
  BY DEF Matching
<1>2. IsFiniteSet(Matching(E, q))
  BY <1>1, FS_Subset
<1>3. /\ IsFiniteSet(Matching(D, q))
      /\ Cardinality(Matching(D, q)) <= Cardinality(Matching(E, q))
  BY <1>1, <1>2, FS_Subset
<1> QED BY <1>2, <1>3, FS_CardinalityType

\* What holds of a request that nothing happens to goes on to hold, also when a
\* document comes in.
LEMMA KeptRest ==
  ASSUME TypeOK, TypeOK', docs \subseteq docs',
         NEW x \in Requests, Same(x), Dispatched(x), Rest(x)
  PROVE  Dispatched(x)' /\ Rest(x)'
<1>1. /\ pc'[x] = pc[x] /\ query'[x] = query[x] /\ reply'[x] = reply[x]
      /\ found'[x] = found[x] /\ total'[x] = total[x]
      /\ before'[x] = before[x] /\ fetched'[x] = fetched[x]
  BY DEF Same
<1>2. Dispatched(x)' /\ OneField(x)' /\ FellBack(x)'
  BY <1>1 DEF Rest, Dispatched, OneField, FellBack
<1>3. StillThere(x)'
  <2>1. IsFiniteSet(docs') /\ total[x] \in Nat
    <3>1. IsFiniteSet(docs) /\ total[x] \in 0..Cardinality(docs)
      BY DEF TypeOK
    <3>2. IsFiniteSet(docs')
      BY DEF TypeOK
    <3> QED BY <3>1, <3>2
  <2>2. /\ Cardinality(Matching(docs, query[x])) \in Nat
        /\ Cardinality(Matching(docs', query[x])) \in Nat
        /\ Cardinality(Matching(docs, query[x])) <= Cardinality(Matching(docs', query[x]))
    BY <2>1, MatchingGrows
  <2> QED BY <1>1, <2>1, <2>2 DEF Rest, StillThere
<1>4. IdsRight(x)'
  BY <1>1 DEF Rest, IdsRight, AnsweredPage
<1>5. ListedOnce(x)'
  <2>1. \A d \in docs' : {d.uuid, d.gpu_id} \subseteq found'[x] => d.uuid = d.gpu_id
    <3>1. docs' \in SUBSET Documents
      BY DEF TypeOK
    <3> QED BY <1>2, <3>1, NotBothNames DEF OneField
  <2> QED BY <1>1, <2>1 DEF Rest, ListedOnce, AnsweredPage
<1>6. CoversCount(x)'
  BY <1>1 DEF Rest, CoversCount, AnsweredPage
<1>7. DocumentsRight(x)'
  BY <1>1 DEF Rest, DocumentsRight, AnsweredPage
<1> QED BY <1>2, <1>3, <1>4, <1>5, <1>6, <1>7 DEF Rest

\* A step of a request keeps what is claimed of its answer.
LEMMA StepRest ==
  ASSUME TypeOK, TypeOK', NEW r \in Requests, Dispatched(r), Rest(r), Step(r)
  PROVE  Rest(r)'
<1>1. /\ docs \subseteq Documents /\ IsFiniteSet(docs)
      /\ DOMAIN pc = Requests /\ DOMAIN query = Requests /\ DOMAIN found = Requests
      /\ DOMAIN total = Requests /\ DOMAIN before = Requests
      /\ DOMAIN fetched = Requests /\ DOMAIN reply = Requests
      /\ before[r] \subseteq docs
  BY DEF TypeOK
<1>2. docs' = docs
  BY OthersSame
<1>3. OneField(r) /\ FellBack(r)
  BY DEF Rest
\* One that keeps what it found is left with no claim or with an answer.
<1>4. ASSUME found'[r] = found[r], pc'[r] \notin {"distinct gpu_id", "find"},
             \/ pc'[r] # "answered"
             \/ reply'[r] = StoreFailed
             \/ \E status \in {204, 400, 401} : reply'[r] = Refused(status)
      PROVE  Rest(r)'
  <2>1. OneField(r)' /\ FellBack(r)' /\ StillThere(r)'
    <3>1. OneField(r)'
      BY <1>3, <1>4 DEF OneField
    <3>2. FellBack(r)' /\ StillThere(r)'
      BY <1>4 DEF FellBack, StillThere
    <3> QED BY <3>1, <3>2
  <2>2. CASE pc'[r] # "answered"
    BY <2>1, <2>2
       DEF Rest, IdsRight, ListedOnce, CoversCount, DocumentsRight, AnsweredPage
  <2>3. CASE reply'[r] = StoreFailed
    <3>1. reply'[r].error = "store" /\ reply'[r].status = 500 /\ reply'[r].items = <<>>
      BY <2>3 DEF StoreFailed, Answer
    <3>2. \A q, all : PageOfDocuments(q, all, <<>>)
      BY DEF PageOfDocuments, IsInjective
    <3> QED BY <2>1, <3>1, <3>2
            DEF Rest, IdsRight, ListedOnce, CoversCount, DocumentsRight
  <2>4. CASE \E status \in {204, 400, 401} : reply'[r] = Refused(status)
    <3>1. reply'[r].error = "refused"
      BY <2>4 DEF Refused, Answer
    <3> QED BY <2>1, <3>1
            DEF Rest, IdsRight, ListedOnce, CoversCount, DocumentsRight, AnsweredPage
  <2> QED BY <1>4, <2>2, <2>3, <2>4
<1>5. \A field \in {"uuid", "gpu_id"} :
        /\ Distinct(field) \subseteq Identifiers(field)
        /\ Distinct(field) \subseteq Nat
        /\ IsFiniteSet(Distinct(field))
        /\ 2 * Cardinality(Distinct(field)) <= MaxInt
  <2> SUFFICES ASSUME NEW field \in {"uuid", "gpu_id"}
               PROVE  /\ Distinct(field) \subseteq Identifiers(field)
                      /\ Distinct(field) \subseteq Nat
                      /\ IsFiniteSet(Distinct(field))
                      /\ 2 * Cardinality(Distinct(field)) <= MaxInt
    OBVIOUS
  <2>1. Distinct(field) \subseteq Identifiers(field)
    BY <1>1 DEF Distinct, Identifiers
  <2>2. Distinct(field) \subseteq Nat
    BY <1>1, MetricsAssumption DEF Distinct
  <2> DEFINE I == Identifiers(field)
             D == Distinct(field)
  <2> HIDE DEF I, D
  <2>3. IsFiniteSet(I) /\ 2 * Cardinality(I) <= MaxInt /\ MaxInt \in Nat
    BY SliceAssumption, MetricsAssumption DEF I
  <2>4. IsFiniteSet(D) /\ Cardinality(D) <= Cardinality(I)
    BY <2>1, <2>3, FS_Subset DEF I, D
  <2>5. Cardinality(D) \in Nat /\ Cardinality(I) \in Nat
    BY <2>3, <2>4, FS_CardinalityType
  <2>6. 2 * Cardinality(D) <= MaxInt
    BY <2>3, <2>4, <2>5
  <2> QED BY <2>1, <2>2, <2>4, <2>6 DEF D
\* A list answered.
<1>6. ASSUME NEW field \in {"uuid", "gpu_id"}, query[r] \in ListQuery,
             UNCHANGED <<query, total, before, fetched>>,
             found'[r] = Distinct(field),
             ListResponse(r, Distinct(field)),
             {d.uuid : d \in before[r]} \ {None} \subseteq Distinct(field)
      PROVE  Rest(r)'
  <2> DEFINE q == query[r]
             ids == Distinct(field)
             A(s) == PaginateSlice(s, CalculateOffset(Page(q), Limit(q)), Limit(q))
  <2>1. PICK s \in SortStrings(ids, q.asc) : Reply(r, A(s))
    BY <1>6 DEF ListResponse
  <2>2. pc'[r] = "answered" /\ reply'[r] = A(s)
    BY <1>1, <2>1 DEF Reply
  <2>3. q \in ListQuery /\ query'[r] = q /\ q.path = "gpus" /\ found'[r] = ids
    BY <1>6, Paths
  <2>4. Skipped(q) <= MaxInt => A(s).status = 200 /\ PageOfIds(q, ids, A(s).items)
    BY <1>5, <2>3, RightIds
  <2> HIDE DEF A
  <2>5. IdsRight(r)'
    BY <2>2, <2>3, <2>4 DEF IdsRight, AnsweredPage
  <2>6. OneField(r)'
    BY <1>5, <2>3 DEF OneField
  <2>7. ListedOnce(r)'
    <3>1. \A d \in docs : {d.uuid, d.gpu_id} \subseteq ids => d.uuid = d.gpu_id
      BY <1>1, <1>5, NotBothNames
    <3> QED BY <1>2, <1>6, <2>3, <3>1 DEF ListedOnce
  <2>8. FellBack(r)' /\ StillThere(r)' /\ CoversCount(r)' /\ DocumentsRight(r)'
    BY <2>2, <2>3 DEF FellBack, StillThere, CoversCount, DocumentsRight, AnsweredPage
  <2> QED BY <2>5, <2>6, <2>7, <2>8 DEF Rest
<1>10. CASE StopInMiddleware(r)
  <2>1. PICK status \in {204, 401} : Reply(r, Refused(status))
    BY <1>10 DEF StopInMiddleware
  <2>2. pc'[r] = "answered" /\ reply'[r] = Refused(status) /\ found'[r] = found[r]
    BY <1>1, <1>10, <2>1 DEF StopInMiddleware, Arrive, Reply
  <2> QED BY <1>4, <2>2
<1>11. CASE ListGPUs(r)
  <2>1. found' = found
    BY <1>11 DEF ListGPUs, Arrive
  <2>2. \/ Reply(r, Refused(400))
        \/ pc' = [pc EXCEPT ![r] = "distinct uuid"]
    BY <1>11 DEF ListGPUs
  <2>3. CASE pc' = [pc EXCEPT ![r] = "distinct uuid"]
    <3>1. pc'[r] = "distinct uuid"
      BY <1>1, <2>3
    <3> QED BY <1>4, <2>1, <3>1
  <2>4. CASE Reply(r, Refused(400))
    <3>1. DOMAIN pc = Requests /\ DOMAIN reply = Requests
      BY <1>1
    <3>2. pc'[r] = "answered" /\ reply'[r] = Refused(400)
      BY <2>4, <3>1, ReplyTo
    <3> QED BY <1>4, <2>1, <3>2
  <2> QED BY <2>2, <2>3, <2>4
<1>12. CASE QueryGPUTelemetry(r)
  <2>1. found' = found
    BY <1>12 DEF QueryGPUTelemetry, Arrive
  <2>2. \/ Reply(r, Refused(400))
        \/ pc' = [pc EXCEPT ![r] = "count"]
    BY <1>12 DEF QueryGPUTelemetry
  <2>3. CASE pc' = [pc EXCEPT ![r] = "count"]
    <3>1. pc'[r] = "count"
      BY <1>1, <2>3
    <3> QED BY <1>4, <2>1, <3>1
  <2>4. CASE Reply(r, Refused(400))
    <3>1. DOMAIN pc = Requests /\ DOMAIN reply = Requests
      BY <1>1
    <3>2. pc'[r] = "answered" /\ reply'[r] = Refused(400)
      BY <2>4, <3>1, ReplyTo
    <3> QED BY <1>4, <2>1, <3>2
  <2> QED BY <2>2, <2>3, <2>4
<1>13. CASE StoreError(r)
  <2>1. pc'[r] = "answered" /\ reply'[r] = StoreFailed /\ found'[r] = found[r]
    BY <1>1, <1>13 DEF StoreError, Reply, local
  <2> QED BY <1>4, <2>1
<1>14. CASE DistinctUUID(r)
  <2> DEFINE ids == Distinct("uuid")
  <2>1. /\ pc[r] = "distinct uuid"
        /\ found'[r] = ids
        /\ UNCHANGED <<query, total, before, fetched>>
        /\ \/ ids = {} /\ pc'[r] = "distinct gpu_id"
           \/ ListResponse(r, ids)
    BY <1>1, <1>14 DEF DistinctUUID, FallsBack
  <2>2. {d.uuid : d \in before[r]} \ {None} \subseteq ids
    BY <1>1 DEF Distinct
  <2>3. CASE ids = {} /\ pc'[r] = "distinct gpu_id"
    <3>1. OneField(r)'
      BY <2>1, <2>3 DEF OneField
    <3>2. FellBack(r)' /\ StillThere(r)'
      BY <2>1, <2>2, <2>3 DEF FellBack, StillThere
    <3>3. IdsRight(r)' /\ ListedOnce(r)' /\ CoversCount(r)' /\ DocumentsRight(r)'
      BY <2>3 DEF IdsRight, ListedOnce, CoversCount, DocumentsRight, AnsweredPage
    <3> QED BY <3>1, <3>2, <3>3 DEF Rest
  <2>4. CASE ListResponse(r, ids)
    <3>1. query[r] \in ListQuery
      BY <2>1 DEF Dispatched
    <3> QED BY <1>6, <2>1, <2>2, <2>4, <3>1
  <2> QED BY <2>1, <2>3, <2>4
<1>15. CASE DistinctGPUID(r)
  <2>1. /\ pc[r] = "distinct gpu_id"
        /\ found'[r] = found[r] \cup Distinct("gpu_id")
        /\ UNCHANGED <<query, total, before, fetched>>
        /\ ListResponse(r, found[r] \cup Distinct("gpu_id"))
    BY <1>1, <1>15 DEF DistinctGPUID
  <2>2. query[r] \in ListQuery
    BY <2>1 DEF Dispatched
  <2>3. found[r] = {} /\ \A d \in before[r] : d.uuid = None
    BY <1>3, <2>1 DEF FellBack
  <2>4. found[r] \cup Distinct("gpu_id") = Distinct("gpu_id")
    BY <2>3
  <2>5. {d.uuid : d \in before[r]} \ {None} \subseteq Distinct("gpu_id")
    BY <2>3
  <2> QED BY <1>6, <2>1, <2>2, <2>4, <2>5
<1>16. CASE CountDocuments(r)
  <2>1. /\ pc'[r] = "find" /\ query'[r] = query[r] /\ found'[r] = found[r]
        /\ total'[r] = Cardinality(Matching(docs, query[r]))
    BY <1>1, <1>16 DEF CountDocuments
  <2>2. OneField(r)' /\ FellBack(r)'
    BY <1>3, <2>1 DEF OneField, FellBack
  <2>3. StillThere(r)'
    <3>1. Cardinality(Matching(docs, query[r])) \in Nat
      BY <1>1, MatchingGrows
    <3> QED BY <1>2, <2>1, <3>1 DEF StillThere
  <2>4. IdsRight(r)' /\ ListedOnce(r)' /\ CoversCount(r)' /\ DocumentsRight(r)'
    BY <2>1 DEF IdsRight, ListedOnce, CoversCount, DocumentsRight, AnsweredPage
  <2> QED BY <2>2, <2>3, <2>4 DEF Rest
<1>17. CASE Find(r)
  <2> DEFINE q == query[r]
             skip == Skip(Page(q), Limit(q))
             all == Matching(docs, q)
             Found(s) == SubSeq(s, skip + 1, UpTo(skip + Limit(q), Len(s)))
  <2>1. /\ pc[r] = "find" /\ found'[r] = found[r] /\ query'[r] = q
        /\ fetched'[r] = docs /\ total'[r] = total[r]
        /\ \/ Reply(r, StoreFailed)
           \/ \E s \in Orders(all, q.asc) : Reply(r, OK(Found(s)))
    BY <1>1, <1>17 DEF Find
  <2>2. CASE Reply(r, StoreFailed)
    <3>1. pc'[r] = "answered" /\ reply'[r] = StoreFailed
      BY <1>1, <2>2 DEF Reply
    <3> QED BY <1>4, <2>1, <3>1
  <2>3. CASE \E s \in Orders(all, q.asc) : Reply(r, OK(Found(s)))
    <3>1. PICK s \in Orders(all, q.asc) : Reply(r, OK(Found(s)))
      BY <2>3
    <3>2. pc'[r] = "answered" /\ reply'[r] = OK(Found(s))
      BY <1>1, <3>1 DEF Reply
    <3>3. q \in TelemetryQuery /\ q.path = "telemetry"
      BY <2>1, Paths DEF Dispatched
    <3>4. /\ all \subseteq Documents /\ IsFiniteSet(all) /\ Cardinality(all) \in Nat
          /\ total[r] <= Cardinality(all)
      <4>1. IsFiniteSet(all) /\ Cardinality(all) \in Nat
        BY <1>1, MatchingGrows
      <4>2. total[r] <= Cardinality(all)
        BY <2>1 DEF Rest, StillThere
      <4> QED BY <1>1, <4>1, <4>2 DEF Matching
    <3>5. Skipped(q) <= MaxInt =>
            /\ Len(Found(s)) \in Nat
            /\ Len(Found(s)) >= Smaller(Limit(q), Cardinality(all) - Skipped(q))
            /\ PageOfDocuments(q, all, Found(s))
      <4>1. s \in SetToSeqs(all)
        BY DEF Orders
      <4>2. Skipped(q) <= MaxInt =>
              /\ skip = Skipped(q)
              /\ Len(Found(s)) \in Nat
              /\ Len(Found(s)) >= Smaller(Limit(q), Cardinality(all) - Skipped(q))
        <5> HIDE DEF all
        <5> QED BY <3>3, <3>4, <4>1, RightLength
      <4>3. all \in SUBSET Documents
        BY <3>4
      <4>4. skip = Skipped(q) => PageOfDocuments(q, all, Found(s))
        <5> HIDE DEF all, skip
        <5> QED BY <3>3, <3>4, <4>3, RightDocuments
      <4> QED BY <4>2, <4>4
    <3> HIDE DEF Found, skip
    <3>6. OK(Found(s)).status = 200 /\ OK(Found(s)).items = Found(s)
      BY OKFields
    <3>7. CoversCount(r)'
      <4> SUFFICES ASSUME Skipped(q) <= MaxInt
                   PROVE  Len(Found(s)) >= Smaller(Limit(q), total[r] - Skipped(q))
        BY <2>1, <3>2, <3>6 DEF CoversCount, AnsweredPage
      <4>1. /\ Len(Found(s)) \in Nat
            /\ Len(Found(s)) >= Smaller(Limit(q), Cardinality(all) - Skipped(q))
        BY <3>5
      <4>2. Limit(q) \in Int /\ Skipped(q) \in Int /\ total[r] \in Int
        <5>1. Limit(q) \in 1..MaxInt /\ Page(q) \in 1..MaxInt /\ MaxInt \in Nat
          BY <3>3, PagingType, MetricsAssumption
        <5>2. total[r] \in 0..Cardinality(docs)
          BY DEF TypeOK
        <5> QED BY <5>1, <5>2 DEF Skipped
      <4> QED BY <3>4, <4>1, <4>2 DEF Smaller
    <3>8. DocumentsRight(r)'
      BY <2>1, <3>2, <3>5, <3>6 DEF DocumentsRight, AnsweredPage
    <3>9. OneField(r)' /\ FellBack(r)' /\ StillThere(r)' /\ IdsRight(r)' /\ ListedOnce(r)'
      BY <1>3, <2>1, <3>2, <3>3
         DEF OneField, FellBack, StillThere, IdsRight, ListedOnce, AnsweredPage
    <3> QED BY <3>7, <3>8, <3>9 DEF Rest
  <2> QED BY <2>1, <2>2, <2>3
<1> QED BY <1>10, <1>11, <1>12, <1>13, <1>14, <1>15, <1>16, <1>17 DEF Step

-----------------------------------------------------------------------------
(* The theorems.                                                           *)

\* IInv, request by request.
LEMMA ByRequest ==
  IInv <=> TypeOK /\ \A r \in Requests : Dispatched(r) /\ Rest(r)
BY DEF IInv, Rest, ListPageRight, GPUsListedOnce, PageCoversCount, TelemetryPageRight

\* At the start there is neither a document nor an answer.
LEMMA MetricsInit == Init => IInv
<1> SUFFICES ASSUME Init PROVE IInv
  OBVIOUS
<1>1. IsFiniteSet({}) /\ Cardinality({}) = 0
  BY FS_EmptySet
<1>2. \A S, l : Typed(NoReply, S, l)
  BY DEF Typed, NoReply, Answer
<1>3. TypeOK
  BY <1>1, <1>2 DEF Init, TypeOK
<1>4. ASSUME NEW r \in Requests PROVE Dispatched(r) /\ Rest(r)
  BY DEF Init, Dispatched, Rest, OneField, FellBack, StillThere, IdsRight, ListedOnce,
         CoversCount, DocumentsRight, AnsweredPage
<1> QED BY <1>3, <1>4, ByRequest

\* Every step keeps the invariant.
LEMMA MetricsStep == IInv /\ [Next]_vars => IInv'
<1> SUFFICES ASSUME IInv, [Next]_vars PROVE IInv'
  OBVIOUS
<1>1. TypeOK /\ \A r \in Requests : Dispatched(r) /\ Rest(r)
  BY ByRequest
<1>2. SUFFICES TypeOK' /\ \A r \in Requests : Dispatched(r)' /\ Rest(r)'
  BY DEF IInv, Rest, ListPageRight, GPUsListedOnce, PageCoversCount, TelemetryPageRight
\* A step of the process or of a consumer.
<1>3. ASSUME UNCHANGED <<pc, query, reply, local>>,
             docs \subseteq docs', docs' \subseteq Documents, IsFiniteSet(docs'),
             server' \in {"serving", "draining", "exited"}
      PROVE  TypeOK' /\ \A r \in Requests : Dispatched(r)' /\ Rest(r)'
  <2>1. UNCHANGED <<pc, query, reply, found, total, before, fetched>>
    BY <1>3 DEF local
  <2>2. TypeOK'
    <3>1. Cardinality(docs) \in Nat /\ Cardinality(docs') \in Nat
          /\ Cardinality(docs) <= Cardinality(docs')
      BY <1>1, <1>3, FS_Subset, FS_CardinalityType DEF TypeOK
    <3>2. total \in [Requests -> 0..Cardinality(docs')]
      <4>1. total \in [Requests -> 0..Cardinality(docs)]
        BY <1>1 DEF TypeOK
      <4>2. 0..Cardinality(docs) \subseteq 0..Cardinality(docs')
        BY <3>1
      <4> QED BY <4>1, <4>2
    <3>3. before \in [Requests -> SUBSET docs'] /\ fetched \in [Requests -> SUBSET docs']
      BY <1>1, <1>3 DEF TypeOK
    <3> QED BY <1>1, <1>3, <2>1, <3>2, <3>3 DEF TypeOK
  <2>3. \A r \in Requests : Same(r)
    BY <2>1 DEF Same
  <2> QED BY <1>1, <1>3, <2>2, <2>3, KeptRest
<1>4. ASSUME NEW r \in Requests, Step(r)
      PROVE  TypeOK' /\ \A x \in Requests : Dispatched(x)' /\ Rest(x)'
  <2>1. TypeOK' /\ Dispatched(r)'
    BY <1>1, <1>4, StepTypes DEF Rest
  <2>2. Rest(r)'
    BY <1>1, <1>4, <2>1, StepRest
  <2>3. ASSUME NEW x \in Requests, x # r PROVE Dispatched(x)' /\ Rest(x)'
    <3>1. Same(x) /\ docs' = docs
      BY <1>1, <1>4, <2>3, OthersSame
    <3> QED BY <1>1, <2>1, <3>1, KeptRest
  <2> QED BY <2>1, <2>2, <2>3
<1>5. CASE StoreMetric
  <2>1. PICK d \in Documents \ docs : docs' = docs \cup {d}
    BY <1>5 DEF StoreMetric
  <2>2. IsFiniteSet(docs')
    BY <1>1, <2>1, FS_AddElement DEF TypeOK
  <2> QED BY <1>1, <1>3, <1>5, <2>1, <2>2 DEF StoreMetric, TypeOK
<1>6. CASE StopSignal
  BY <1>1, <1>3, <1>6 DEF StopSignal, TypeOK
<1>7. CASE Exit
  BY <1>1, <1>3, <1>7 DEF Exit, TypeOK
<1>8. CASE UNCHANGED vars
  BY <1>1, <1>3, <1>8 DEF vars, TypeOK
<1> QED BY <1>4, <1>5, <1>6, <1>7, <1>8 DEF Next, Step

\* The invariant the other theorems follow from: besides what the properties
\* say, where a request is in its commands, that what it found comes from one
\* field, and that counted documents are still there.
THEOREM Invariance == Spec => []IInv
<1>1. Init => IInv
  BY MetricsInit
<1>2. IInv /\ [Next]_vars => IInv'
  BY MetricsStep
<1> QED BY <1>1, <1>2, PTL DEF Spec

\* Types; no answer of either endpoint holds more items than its limit,
\* whatever the parameters and however offset and end wrap around.
THEOREM TypeCorrect == Spec => []TypeOK
<1>1. IInv => TypeOK
  BY DEF IInv
<1> QED BY <1>1, Invariance, PTL

\* GET /gpus cuts the sorted identifiers into pages: page n holds those that
\* have (n - 1) * limit or more, but fewer than n * limit, ahead of them.
THEOREM PagesOfIds == Spec => []ListPageRight
<1>1. IInv => ListPageRight
  BY DEF IInv
<1> QED BY <1>1, Invariance, PTL

\* Documents that come in between the two Distinct commands of ListGPUs make it
\* neither miss an earlier uuid nor list a GPU under both its names.
THEOREM NoGPUTwice == Spec => []GPUsListedOnce
<1>1. IInv => GPUsListedOnce
  BY DEF IInv
<1> QED BY <1>1, Invariance, PTL

\* Documents that come in between CountDocuments and Find never make a page
\* shorter than the total calls for.
THEOREM PageFillsTotal == Spec => []PageCoversCount
<1>1. IInv => PageCoversCount
  BY DEF IInv
<1> QED BY <1>1, Invariance, PTL

\* Each document of a telemetry page matches, is there once, and has the place
\* in the order asked for that page and position give it.
THEOREM PagesOfDocuments == Spec => []TelemetryPageRight
<1>1. IInv => TelemetryPageRight
  BY DEF IInv
<1> QED BY <1>1, Invariance, PTL

=============================================================================
