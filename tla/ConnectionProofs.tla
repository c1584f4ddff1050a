-------------------------- MODULE ConnectionProofs --------------------------
(***************************************************************************)
(* Theorems about Connection, for any bytes, frames and limits, and any    *)
(* number of frames.                                                       *)
(***************************************************************************)
EXTENDS Connection, SequenceTheorems, Induction, TLAPS

-----------------------------------------------------------------------------
(* Why these hold: an inductive invariant, part by part.                   *)

\* upto is what it is meant to be.
Positions ==
  /\ Len(upto) = Len(begun) + 1
  /\ upto[1] = line
  /\ \A i \in 1..Len(begun) : upto[i + 1] = upto[i] \o Encoded(begun[i])
  /\ \A i, j \in 1..Len(upto) : i <= j => IsPrefix(upto[i], upto[j])

\* Nothing happens before the client has identified itself, and no frame is
\* read or sent by the handler before it has read the role.
RoleFirst ==
  /\ pc["client"] = "dialed" =>
       /\ buffered = <<>> /\ flight["client"] = <<>>
       /\ begun = <<>>
       /\ pc["handler"] # "open"
  /\ pc["handler"] = "role" =>
       partial = <<>> /\ got = <<>> /\ flight["handler"] = <<>>

\* What ReadFrame has collected is the beginning of the frame that is due.
Collecting ==
  /\ Len(got) <= Len(begun)
  /\ partial # <<>> =>
       /\ Len(got) < Len(begun)
       /\ IsPrefix(partial, Encoded(begun[Len(got) + 1]))

\* The bytes that were read as a line or as frames, and those still unread: on
\* their way, in the bufio.Reader or collected.
Used ==
  IF Writer = "client" /\ pc["handler"] = "role" THEN <<>> ELSE upto[Len(got) + 1]
Unread ==
  partial \o (IF Writer = "client" THEN buffered \o flight["client"]
                                   ELSE flight["handler"])

\* The bytes that were passed to Write.
Sent ==
  IF Writer = "client" /\ pc["client"] = "dialed" THEN <<>>
  ELSE IF wrote < Len(begun) THEN upto[wrote + 1] \o BigEndian(Len(Last(begun)))
  ELSE upto[wrote + 1]

\* Until the reader leaves, used and unread bytes make up the beginning of
\* what is to be written; on a connection that has not broken, all that was
\* sent, at least that of the frames whose WriteFrame returned.
Carried ==
  ~Left(Reader) =>
    /\ IsPrefix(Used \o Unread, Last(upto))
    /\ ~broken /\ ~Left(Writer) => Used \o Unread = Sent
    /\ ~broken /\ wrote > 0 => IsPrefix(upto[wrote + 1], Used \o Unread)

\* A reader that ended by itself has read the last frame there will be, or it
\* ended at one that is too large.
Ended ==
  pc[Reader] = "closed" /\ ~broken /\ KnownRole =>
    \/ Left(Writer) /\ Len(got) >= wrote
    \/ Len(got) < Len(begun) /\ Len(begun[Len(got) + 1]) > MaxFrame

IInv == TypeOK /\ Positions /\ RoleFirst /\ Collecting /\ Carried /\ Ended

-----------------------------------------------------------------------------
(* Beginnings of sequences.                                                *)

\* Being a prefix, item by item.
LEMMA PrefixItems ==
  ASSUME NEW S, NEW s \in Seq(S), NEW t \in Seq(S)
  PROVE  IsPrefix(s, t) <=>
           Len(s) <= Len(t) /\ \A i \in 1..Len(s) : s[i] = t[i]
<1>1. SubSeq(s, 1, Len(s)) = s
  BY SubSeqFull
<1>2. ASSUME Len(s) <= Len(t)
      PROVE  SubSeq(t, 1, Len(s)) \in Seq(S)
             /\ Len(SubSeq(t, 1, Len(s))) = Len(s)
             /\ \A i \in 1..Len(s) : SubSeq(t, 1, Len(s))[i] = t[i]
  BY <1>2
<1>3. ASSUME Len(s) <= Len(t), \A i \in 1..Len(s) : s[i] = t[i]
      PROVE  s = SubSeq(t, 1, Len(s))
  BY <1>2, <1>3, SeqEqual
<1> QED BY <1>1, <1>2, <1>3 DEF IsPrefix

\* A sequence begins with itself.
LEMMA PrefixSelf ==
  ASSUME NEW S, NEW s \in Seq(S) PROVE IsPrefix(s, s)
BY DEF IsPrefix

\* A beginning of a beginning is a beginning.
LEMMA PrefixTrans ==
  ASSUME NEW S, NEW s \in Seq(S), NEW t \in Seq(S), NEW u \in Seq(S),
         IsPrefix(s, t), IsPrefix(t, u)
  PROVE  IsPrefix(s, u)
<1>1. Len(s) \in Nat /\ Len(t) \in Nat /\ Len(u) \in Nat
  OBVIOUS
<1>2. Len(s) <= Len(t) /\ \A i \in 1..Len(s) : s[i] = t[i]
  BY PrefixItems
<1>3. Len(t) <= Len(u) /\ \A i \in 1..Len(t) : t[i] = u[i]
  BY PrefixItems
<1>4. Len(s) <= Len(u)
  BY <1>1, <1>2, <1>3
<1>5. \A i \in 1..Len(s) : i \in 1..Len(t)
  BY <1>1, <1>2
<1> QED BY <1>2, <1>3, <1>4, <1>5, PrefixItems

\* What a sequence is continued with leaves it a beginning.
LEMMA PrefixConcat ==
  ASSUME NEW S, NEW s \in Seq(S), NEW t \in Seq(S)
  PROVE  IsPrefix(s, s \o t)
<1> DEFINE st == s \o t
<1>1. st \in Seq(S) /\ Len(st) = Len(s) + Len(t)
  BY ConcatProperties
<1>2. \A i \in 1..Len(s) : st[i] = s[i]
  OBVIOUS
<1>3. Len(s) \in Nat /\ Len(t) \in Nat
  OBVIOUS
<1> HIDE DEF st
<1>4. IsPrefix(s, st)
  BY <1>1, <1>2, <1>3, PrefixItems
<1> QED BY <1>4 DEF st

\* Two continuations of one sequence compare as what they add.
LEMMA PrefixCancel ==
  ASSUME NEW S, NEW r \in Seq(S), NEW s \in Seq(S), NEW t \in Seq(S)
  PROVE  IsPrefix(r \o s, r \o t) <=> IsPrefix(s, t)
<1> DEFINE rs == r \o s
           rt == r \o t
<1>1. /\ rs \in Seq(S) /\ Len(rs) = Len(r) + Len(s)
      /\ rt \in Seq(S) /\ Len(rt) = Len(r) + Len(t)
  BY ConcatProperties
<1>2. Len(r) \in Nat /\ Len(s) \in Nat /\ Len(t) \in Nat
  OBVIOUS
<1>3. /\ \A i \in 1..Len(r) : rs[i] = r[i] /\ rt[i] = r[i]
      /\ \A i \in 1..Len(s) : rs[Len(r) + i] = s[i]
      /\ \A i \in 1..Len(t) : rt[Len(r) + i] = t[i]
  OBVIOUS
<1> HIDE DEF rs, rt
<1>4. ASSUME IsPrefix(rs, rt) PROVE IsPrefix(s, t)
  <2>1. /\ Len(rs) <= Len(rt)
        /\ \A i \in 1..Len(rs) : rs[i] = rt[i]
    <3>1. rs \in Seq(S) /\ rt \in Seq(S)
      BY <1>1
    <3> QED BY <1>4, <3>1, PrefixItems
  <2>2. Len(s) <= Len(t)
    BY <1>1, <1>2, <2>1
  <2>3. ASSUME NEW i \in 1..Len(s) PROVE s[i] = t[i]
    <3>1. Len(r) + i \in 1..Len(rs) /\ i \in 1..Len(t)
      BY <1>1, <1>2, <2>2
    <3> QED BY <1>3, <2>1, <3>1
  <2> QED BY <2>2, <2>3, PrefixItems
<1>5. ASSUME IsPrefix(s, t) PROVE IsPrefix(rs, rt)
  <2>1. Len(s) <= Len(t) /\ \A i \in 1..Len(s) : s[i] = t[i]
    BY <1>5, PrefixItems
  <2>2. Len(rs) <= Len(rt)
    BY <1>1, <1>2, <2>1
  <2>3. ASSUME NEW i \in 1..Len(rs) PROVE rs[i] = rt[i]
    <3>1. CASE i <= Len(r)
      BY <1>1, <1>2, <1>3, <3>1
    <3>2. CASE i > Len(r)
      <4>1. i - Len(r) \in 1..Len(s) /\ i - Len(r) \in 1..Len(t)
        BY <1>1, <1>2, <2>1, <3>2
      <4>2. Len(r) + (i - Len(r)) = i
        BY <1>2
      <4>3. rs[i] = s[i - Len(r)] /\ rt[i] = t[i - Len(r)]
        BY <1>3, <4>1, <4>2
      <4> QED BY <2>1, <4>1, <4>3
    <3>3. i <= Len(r) \/ i > Len(r)
      BY <1>1, <1>2
    <3> QED BY <3>1, <3>2, <3>3
  <2> QED BY <1>1, <2>2, <2>3, PrefixItems
<1> QED BY <1>4, <1>5 DEF rs, rt

\* Of two beginnings of one sequence the longer begins with the shorter.
LEMMA PrefixShorter ==
  ASSUME NEW S, NEW s \in Seq(S), NEW t \in Seq(S), NEW u \in Seq(S),
         IsPrefix(s, u), IsPrefix(t, u), Len(s) <= Len(t)
  PROVE  IsPrefix(s, t)
<1>1. Len(s) \in Nat /\ Len(t) \in Nat
  OBVIOUS
<1>2. \A i \in 1..Len(s) : s[i] = u[i] /\ i \in 1..Len(t)
  BY <1>1, PrefixItems
<1>3. \A i \in 1..Len(t) : t[i] = u[i]
  BY PrefixItems
<1> QED BY <1>2, <1>3, PrefixItems

\* A beginning as long as the whole is the whole.
LEMMA PrefixWhole ==
  ASSUME NEW S, NEW s \in Seq(S), NEW t \in Seq(S), IsPrefix(s, t), Len(t) <= Len(s)
  PROVE  s = t
<1>1. Len(s) \in Nat /\ Len(t) \in Nat /\ Len(s) <= Len(t)
  BY PrefixItems
<1>2. Len(s) = Len(t)
  BY <1>1
<1> QED BY <1>2, PrefixItems, SeqEqual

\* The first k items and the others.
LEMMA CutAt ==
  ASSUME NEW S, NEW s \in Seq(S), NEW k \in 0..Len(s)
  PROVE  /\ SubSeq(s, 1, k) \in Seq(S) /\ Len(SubSeq(s, 1, k)) = k
         /\ SubSeq(s, k + 1, Len(s)) \in Seq(S)
         /\ Len(SubSeq(s, k + 1, Len(s))) = Len(s) - k
         /\ s = SubSeq(s, 1, k) \o SubSeq(s, k + 1, Len(s))
         /\ IsPrefix(SubSeq(s, 1, k), s)
<1>1. k \in Nat /\ Len(s) \in Nat /\ k <= Len(s)
  OBVIOUS
<1>2. SubSeq(s, 1, k) \in Seq(S) /\ Len(SubSeq(s, 1, k)) = k
  BY <1>1
<1>3. /\ SubSeq(s, k + 1, Len(s)) \in Seq(S)
      /\ Len(SubSeq(s, k + 1, Len(s))) = Len(s) - k
  BY <1>1
<1>4. SubSeq(s, 1, k) \o SubSeq(s, k + 1, Len(s)) = SubSeq(s, 1, Len(s))
  <2>1. /\ 1 \in 1..(Len(s) + 1)
        /\ k \in (1 - 1)..Len(s)
        /\ Len(s) \in k..Len(s)
    BY <1>1
  <2> QED BY <2>1, ConcatAdjacentSubSeq
<1>5. s = SubSeq(s, 1, k) \o SubSeq(s, k + 1, Len(s))
  BY <1>4, SubSeqFull
<1> QED BY <1>2, <1>3, <1>5, PrefixConcat

\* Prefixes are beginnings.
LEMMA PrefixesPrefix ==
  ASSUME NEW S, NEW s \in Seq(S), NEW t \in Prefixes(s)
  PROVE  t \in Seq(S) /\ IsPrefix(t, s)
<1>1. PICK k \in 0..Len(s) : t = SubSeq(s, 1, k)
  BY DEF Prefixes
<1> QED BY <1>1, CutAt

-----------------------------------------------------------------------------
(* Frames and the two ends.                                                *)

\* One end writes, the other one reads.
LEMMA TwoEnds ==
  /\ Peer("client") = "handler" /\ Peer("handler") = "client"
  /\ \/ Writer = "client" /\ Reader = "handler"
     \/ Writer = "handler" /\ Reader = "client"
<1>1. Peer("client") = "handler"
  BY DEF Peer, Ends
<1>2. Peer("handler") = "client"
  BY DEF Peer, Ends
<1> QED BY <1>1, <1>2 DEF Reader, Writer

\* The bytes of a number one by one, from the last.
LEMMA ShiftedStep ==
  ASSUME NEW x \in Nat
  PROVE  /\ Shifted(x) \in [0..HeaderLen -> Nat]
         /\ Shifted(x)[0] = x
         /\ \A k \in 1..HeaderLen : Shifted(x)[k] = Shifted(x)[k - 1] \div Base
<1>1. HeaderLen \in Nat /\ Base \in Nat \ {0}
  BY ConnectionAssumption DEF Byte
<1> DEFINE step == [y \in Nat \X (1..HeaderLen) |-> y[1] \div Base]
<1>2. step \in [Nat \X (1..HeaderLen) -> Nat]
  BY <1>1
<1>3. \A n \in Nat, k \in 1..HeaderLen : step[<<n, k>>] = n \div Base
  OBVIOUS
<1> HIDE DEF step
<1>4. PICK f : IsRun(f, Nat, x, HeaderLen, step)
  BY <1>1, <1>2, Recursion
<1>5. /\ f \in [0..HeaderLen -> Nat]
      /\ f[0] = x
      /\ \A k \in 1..HeaderLen : f[k] = step[<<f[k - 1], k>>]
  BY <1>4 DEF IsRun
<1>6. ASSUME NEW k \in 1..HeaderLen PROVE f[k] = f[k - 1] \div Base
  <2>1. k - 1 \in 0..HeaderLen
    BY <1>1
  <2>2. f[k - 1] \in Nat
    BY <1>5, <2>1
  <2> QED BY <1>3, <1>5, <2>2
<1>7. f = [k \in 0..HeaderLen |-> IF k = 0 THEN x ELSE f[k - 1] \div Base]
  <2>1. \A k \in 0..HeaderLen : f[k] = IF k = 0 THEN x ELSE f[k - 1] \div Base
    BY <1>1, <1>5, <1>6
  <2> QED BY <1>5, <2>1
<1> DEFINE g == Shifted(x)
<1>8. g = [k \in 0..HeaderLen |-> IF k = 0 THEN x ELSE g[k - 1] \div Base]
  BY <1>7 DEF Shifted
<1> HIDE DEF g
<1>9. /\ g[0] = x
      /\ \A k \in 1..HeaderLen : g[k] = g[k - 1] \div Base
  BY <1>1, <1>8
<1> DEFINE S == {k \in 0..HeaderLen : g[k] \in Nat}
<1>10. 0 \in S
  BY <1>1, <1>9
<1>11. ASSUME NEW k \in 1..HeaderLen, k - 1 \in S PROVE k \in S
  <2>1. g[k - 1] \in Nat /\ k \in 0..HeaderLen
    BY <1>11
  <2>2. g[k] \in Nat
    BY <1>1, <1>9, <2>1
  <2> QED BY <2>1, <2>2
<1> HIDE DEF S
<1>12. \A k \in 0..HeaderLen : k \in S
  BY <1>1, <1>10, <1>11, UpTo
<1>13. g \in [0..HeaderLen -> Nat]
  <2>1. DOMAIN g = 0..HeaderLen /\ g = [k \in 0..HeaderLen |-> g[k]]
    BY <1>8
  <2>2. \A k \in 0..HeaderLen : g[k] \in Nat
    BY <1>12 DEF S
  <2> QED BY <2>1, <2>2
<1> QED BY <1>9, <1>13 DEF g

\* A number read from bytes, byte by byte.
LEMMA UintStep ==
  ASSUME NEW h \in Seq(Byte)
  PROVE  \E v \in [0..Len(h) -> Nat] :
           /\ Uint(h) = v[Len(h)]
           /\ v[0] = 0
           /\ \A k \in 1..Len(h) : v[k] = v[k - 1] * Base + h[k]
<1>0. PICK m \in Nat : m = Len(h)
  OBVIOUS
<1>1. /\ Base \in Nat
      /\ \A k \in 1..m : h[k] \in Nat
  BY <1>0, ConnectionAssumption DEF Byte
<1>n. \A n, c \in Nat : n * Base + c \in Nat
  <2>1. \A n \in Nat : n * Base \in Nat
    BY <1>1
  <2>2. \A p, c \in Nat : p + c \in Nat
    OBVIOUS
  <2> QED BY <2>1, <2>2
<1> DEFINE step == [y \in Nat \X (1..m) |-> y[1] * Base + h[y[2]]]
<1>2. step \in [Nat \X (1..m) -> Nat]
  <2>1. \A y \in Nat \X (1..m) : y[1] * Base + h[y[2]] \in Nat
    <3> TAKE y \in Nat \X (1..m)
    <3>1. y[1] \in Nat /\ h[y[2]] \in Nat
      BY <1>1
    <3> QED BY <1>n, <3>1
  <2> QED BY <2>1
<1>3. \A n \in Nat, k \in 1..m : step[<<n, k>>] = n * Base + h[k]
  OBVIOUS
<1> HIDE DEF step
<1>4. PICK f : IsRun(f, Nat, 0, m, step)
  BY <1>2, Recursion
<1>5. /\ f \in [0..m -> Nat]
      /\ f[0] = 0
      /\ \A k \in 1..m : f[k] = step[<<f[k - 1], k>>]
  BY <1>4 DEF IsRun
<1>6. ASSUME NEW k \in 1..m PROVE f[k] = f[k - 1] * Base + h[k]
  <2>1. k - 1 \in 0..m
    BY <1>0
  <2>2. f[k - 1] \in Nat
    BY <1>5, <2>1
  <2> QED BY <1>3, <1>5, <2>2
<1>7. f = [k \in 0..m |-> IF k = 0 THEN 0 ELSE f[k - 1] * Base + h[k]]
  <2>1. \A k \in 0..m : f[k] = IF k = 0 THEN 0 ELSE f[k - 1] * Base + h[k]
    BY <1>0, <1>5, <1>6
  <2> QED BY <1>5, <2>1
<1> DEFINE v == CHOOSE n : n = [k \in 0..m |-> IF k = 0 THEN 0 ELSE n[k - 1] * Base + h[k]]
<1>8. v = [k \in 0..m |-> IF k = 0 THEN 0 ELSE v[k - 1] * Base + h[k]]
  BY <1>7
<1>9. Uint(h) = v[m]
  BY <1>0 DEF Uint
<1> HIDE DEF v
<1>10. /\ v[0] = 0
       /\ \A k \in 1..m : v[k] = v[k - 1] * Base + h[k]
  BY <1>0, <1>8
<1> DEFINE S == {k \in 0..m : v[k] \in Nat}
<1>11. 0 \in S
  BY <1>10
<1>12. ASSUME NEW k \in 1..m, k - 1 \in S PROVE k \in S
  <2>1. v[k - 1] \in Nat /\ k \in 0..m
    BY <1>12
  <2>2. v[k] \in Nat
    BY <1>1, <1>10, <1>n, <2>1
  <2> QED BY <2>1, <2>2
<1> HIDE DEF S
<1>13. \A k \in 0..m : k \in S
  BY <1>11, <1>12, UpTo
<1>14. v \in [0..m -> Nat]
  <2>1. DOMAIN v = 0..m /\ v = [k \in 0..m |-> v[k]]
    BY <1>8
  <2>2. \A k \in 0..m : v[k] \in Nat
    BY <1>13 DEF S
  <2> QED BY <2>1, <2>2
<1> QED BY <1>0, <1>9, <1>10, <1>14

\* A length that fits the header is read back from it.
LEMMA HeaderReadsBack ==
  ASSUME NEW b \in Bodies
  PROVE  /\ BigEndian(Len(b)) \in Seq(Byte)
         /\ Len(BigEndian(Len(b))) = HeaderLen
         /\ Uint(BigEndian(Len(b))) = Len(b)
<1>1. HeaderLen \in Nat /\ Base \in Nat \ {0} /\ Len(b) \in Nat
  BY ConnectionAssumption DEF Byte
<1> DEFINE x == Len(b)
           g == Shifted(x)
           h == BigEndian(x)
<1>2. /\ g \in [0..HeaderLen -> Nat]
      /\ g[0] = x
      /\ \A k \in 1..HeaderLen : g[k] = g[k - 1] \div Base
  BY <1>1, ShiftedStep
<1>3. g[HeaderLen] = 0
  BY HeaderAssumption
<1>4. h = [i \in 1..HeaderLen |-> g[HeaderLen - i] % Base]
  BY DEF BigEndian
<1> HIDE DEF x, g, h
<1>5. \A i \in 1..HeaderLen : g[HeaderLen - i] % Base \in Byte
  <2> TAKE i \in 1..HeaderLen
  <2>1. HeaderLen - i \in 0..HeaderLen
    BY <1>1
  <2>2. g[HeaderLen - i] \in Nat
    BY <1>2, <2>1
  <2> QED BY <1>1, <2>2 DEF Byte
<1>6. h \in Seq(Byte) /\ Len(h) = HeaderLen
  BY <1>1, <1>4, <1>5
<1>7. PICK v \in [0..HeaderLen -> Nat] :
        /\ Uint(h) = v[HeaderLen]
        /\ v[0] = 0
        /\ \A k \in 1..HeaderLen : v[k] = v[k - 1] * Base + h[k]
  BY <1>6, UintStep
<1> DEFINE S == {k \in 0..HeaderLen : v[k] = g[HeaderLen - k]}
<1>8. 0 \in S
  BY <1>1, <1>3, <1>7
<1>9. ASSUME NEW k \in 1..HeaderLen, k - 1 \in S PROVE k \in S
  <2> DEFINE j == HeaderLen - k
  <2>1. /\ j \in 0..HeaderLen /\ j + 1 \in 1..HeaderLen /\ (j + 1) - 1 = j
        /\ HeaderLen - (k - 1) = j + 1
    BY <1>1
  <2>2. v[k - 1] = g[j + 1]
    BY <1>9, <2>1
  <2>3. g[j + 1] = g[j] \div Base
    BY <1>2, <2>1
  <2>4. h[k] = g[j] % Base
    BY <1>4
  <2>5. v[k] = v[k - 1] * Base + h[k]
    BY <1>7
  <2> HIDE DEF j
  <2>6. g[j] \in Nat
    BY <1>2, <2>1
  <2>7. \A y \in Nat : y % Base = y - (y \div Base) * Base
    BY <1>1
  <2>8. v[k] = g[j]
    <3> DEFINE y == g[j]
               q == y \div Base
               r == y % Base
    <3>1. y \in Nat /\ r = y - q * Base
      BY <2>6, <2>7
    <3>2. q \in Nat /\ q * Base \in Nat
      <4>1. \A n \in Nat : n \div Base \in Nat
        BY <1>1
      <4>2. \A n \in Nat : n * Base \in Nat
        BY <1>1
      <4>3. q \in Nat
        BY <2>6, <4>1
      <4> HIDE DEF q
      <4> QED BY <4>2, <4>3
    <3>3. v[k] = q * Base + r
      BY <2>2, <2>3, <2>4, <2>5
    <3> DEFINE p == q * Base
    <3> HIDE DEF q, r, p
    <3>4. p \in Nat /\ r = y - p /\ v[k] = p + r
      BY <3>1, <3>2, <3>3 DEF p
    <3> QED BY <3>1, <3>4
  <2> QED BY <2>1, <2>8 DEF j
<1> HIDE DEF S
<1>10. \A k \in 0..HeaderLen : k \in S
  BY <1>1, <1>8, <1>9, UpTo
<1>11. v[HeaderLen] = g[0]
  <2>1. HeaderLen \in 0..HeaderLen /\ HeaderLen - HeaderLen = 0
    BY <1>1
  <2> QED BY <1>10, <2>1 DEF S
<1> QED BY <1>2, <1>6, <1>7, <1>11 DEF h, x

\* A frame's bytes: the header, and then the body.
LEMMA FrameBytes ==
  ASSUME NEW b \in Bodies
  PROVE  /\ b \in Seq(Byte) /\ Len(b) \in Nat
         /\ HeaderLen \in Nat \ {0}
         /\ BigEndian(Len(b)) \in Seq(Byte) /\ Len(BigEndian(Len(b))) = HeaderLen
         /\ Encoded(b) \in Seq(Byte)
         /\ Len(Encoded(b)) = HeaderLen + Len(b)
         /\ SubSeq(Encoded(b), 1, HeaderLen) = BigEndian(Len(b))
         /\ SubSeq(Encoded(b), HeaderLen + 1, Len(Encoded(b))) = b
<1>1. b \in Seq(Byte) /\ Len(b) \in Nat /\ HeaderLen \in Nat \ {0}
  BY ConnectionAssumption
<1> DEFINE h == BigEndian(Len(b))
<1>2. h \in Seq(Byte) /\ Len(h) = HeaderLen
  BY HeaderReadsBack
<1> HIDE DEF h
<1>3. h \o b \in Seq(Byte) /\ Len(h \o b) = HeaderLen + Len(b)
  BY <1>1, <1>2, ConcatProperties
<1>4. SubSeq(h \o b, 1, HeaderLen) = h
  <2>1. 1 \in 1..Len(h) /\ HeaderLen \in 1..Len(h)
    BY <1>1, <1>2
  <2>2. SubSeq(h \o b, 1, HeaderLen) = SubSeq(h, 1, HeaderLen)
    BY <1>1, <1>2, <2>1, SubSeqOfConcat1
  <2> QED BY <1>2, <2>2, SubSeqFull
<1>5. SubSeq(h \o b, HeaderLen + 1, HeaderLen + Len(b)) = b
  <2>1. CASE b = <<>>
    BY <1>1, <2>1, SubSeqEmpty
  <2>2. CASE b # <<>>
    <3>1. /\ HeaderLen + 1 \in (Len(h) + 1)..(Len(h) + Len(b))
          /\ HeaderLen + Len(b) \in (Len(h) + 1)..(Len(h) + Len(b))
      BY <1>1, <1>2, <2>2, EmptySeq
    <3>2. SubSeq(h \o b, HeaderLen + 1, HeaderLen + Len(b))
            = SubSeq(b, HeaderLen + 1 - Len(h), HeaderLen + Len(b) - Len(h))
      BY <1>1, <1>2, <3>1, SubSeqOfConcat2
    <3>3. HeaderLen + 1 - Len(h) = 1 /\ HeaderLen + Len(b) - Len(h) = Len(b)
      BY <1>1, <1>2
    <3> QED BY <1>1, <3>2, <3>3, SubSeqFull
  <2> QED BY <2>1, <2>2
<1> QED BY <1>1, <1>2, <1>3, <1>4, <1>5 DEF Encoded, h

\* What the beginning of a frame tells about it.
LEMMA Header ==
  ASSUME NEW b \in Bodies, NEW p \in Seq(Byte), IsPrefix(p, Encoded(b))
  PROVE  /\ Len(p) <= HeaderLen + Len(b)
         /\ Len(p) >= HeaderLen => Uint(SubSeq(p, 1, HeaderLen)) = Len(b)
         /\ Len(p) = HeaderLen + Len(b) => SubSeq(p, HeaderLen + 1, Len(p)) = b
<1>1. /\ HeaderLen \in Nat \ {0} /\ Len(b) \in Nat /\ Len(p) \in Nat
      /\ Encoded(b) \in Seq(Byte)
      /\ Len(Encoded(b)) = HeaderLen + Len(b)
      /\ SubSeq(Encoded(b), 1, HeaderLen) = BigEndian(Len(b))
      /\ SubSeq(Encoded(b), HeaderLen + 1, Len(Encoded(b))) = b
  BY FrameBytes
<1>2. Len(p) <= Len(Encoded(b)) /\ \A i \in 1..Len(p) : p[i] = Encoded(b)[i]
  BY <1>1, PrefixItems
<1>3. ASSUME Len(p) >= HeaderLen PROVE Uint(SubSeq(p, 1, HeaderLen)) = Len(b)
  <2>1. HeaderLen \in 0..Len(p) /\ HeaderLen \in 0..Len(Encoded(b))
    BY <1>1, <1>2, <1>3
  <2> DEFINE q == SubSeq(p, 1, HeaderLen)
             r == SubSeq(Encoded(b), 1, HeaderLen)
  <2>2. q \in Seq(Byte) /\ Len(q) = HeaderLen /\ IsPrefix(q, p)
    BY <2>1, CutAt, ZenonT(30)
  <2>3. r \in Seq(Byte) /\ Len(r) = HeaderLen /\ IsPrefix(r, Encoded(b))
    BY <1>1, <2>1, CutAt
  <2> HIDE DEF q, r
  <2>4. IsPrefix(q, Encoded(b))
    BY <1>1, <2>2, PrefixTrans
  <2>5. Len(q) <= Len(r) /\ Len(r) <= Len(q)
    BY <1>1, <2>2, <2>3
  <2>6. q = r
    <3>1. IsPrefix(q, r)
      BY <1>1, <2>2, <2>3, <2>4, <2>5, PrefixShorter
    <3> QED BY <2>2, <2>3, <2>5, <3>1, PrefixWhole
  <2> QED BY <1>1, <2>6, HeaderReadsBack DEF q, r
<1>4. ASSUME Len(p) = HeaderLen + Len(b)
      PROVE  SubSeq(p, HeaderLen + 1, Len(p)) = b
  <2>1. p = Encoded(b)
    <3>1. Len(Encoded(b)) <= Len(p)
      BY <1>1, <1>4
    <3> QED BY <1>1, <3>1, PrefixWhole
  <2> QED BY <1>1, <2>1
<1> QED BY <1>1, <1>2, <1>3, <1>4

\* The bytes the invariant speaks of are bytes.
LEMMA Pieces ==
  ASSUME Typed, Positions, Len(got) <= Len(begun)
  PROVE  /\ line \in Seq(Byte) /\ line # <<>>
         /\ Len(begun) \in Nat /\ Len(got) \in Nat /\ wrote \in Nat
         /\ Len(got) + 1 \in 1..Len(upto)
         /\ wrote + 1 \in 1..Len(upto)
         /\ Len(upto) \in 1..Len(upto)
         /\ \A i \in 1..Len(upto) : upto[i] \in Seq(Byte)
         /\ Last(upto) = upto[Len(begun) + 1]
         /\ Last(upto) \in Seq(Byte)
         /\ \A i \in 1..Len(upto) : IsPrefix(upto[i], Last(upto))
         /\ \A i \in 1..Len(begun) : begun[i] \in Bodies
         /\ Used \in Seq(Byte) /\ Unread \in Seq(Byte) /\ Sent \in Seq(Byte)
<1>1. line \in Seq(Byte) /\ line # <<>>
  BY ConnectionAssumption DEF Typed
<1>2. Len(begun) \in Nat /\ Len(got) \in Nat /\ wrote \in Nat /\ wrote <= Len(begun)
  <2>1. begun \in Seq(Bodies) /\ got \in Seq(Bodies) /\ wrote \in Nat
    BY DEF Typed
  <2>2. Len(begun) \in wrote..(wrote + 1)
    BY DEF Typed
  <2> QED BY <2>1, <2>2
<1>3. Len(upto) = Len(begun) + 1
  BY DEF Positions
<1>4. /\ Len(got) + 1 \in 1..Len(upto)
      /\ wrote + 1 \in 1..Len(upto)
      /\ Len(upto) \in 1..Len(upto)
  BY <1>2, <1>3
<1>5. \A i \in 1..Len(upto) : upto[i] \in Seq(Byte)
  <2>1. upto \in Seq(Seq(Byte))
    BY DEF Typed
  <2> QED BY <2>1
<1>6. Last(upto) = upto[Len(begun) + 1]
  BY <1>3 DEF Last
<1>7. \A i \in 1..Len(upto) : IsPrefix(upto[i], Last(upto))
  <2>1. \A i \in 1..Len(upto) : i <= Len(upto)
    BY <1>2, <1>3
  <2> QED BY <1>4, <2>1 DEF Positions, Last
<1>8. \A i \in 1..Len(begun) : begun[i] \in Bodies
  BY DEF Typed
<1>9. <<>> \in Seq(Byte)
  OBVIOUS
<1>10. Used \in Seq(Byte)
  BY <1>4, <1>5, <1>9 DEF Used
<1>11. Unread \in Seq(Byte)
  <2>1. /\ partial \in Seq(Byte) /\ buffered \in Seq(Byte)
        /\ flight["client"] \in Seq(Byte) /\ flight["handler"] \in Seq(Byte)
    BY DEF Typed, Ends
  <2>2. buffered \o flight["client"] \in Seq(Byte)
    BY <2>1
  <2>3. /\ partial \o (buffered \o flight["client"]) \in Seq(Byte)
        /\ partial \o flight["handler"] \in Seq(Byte)
    BY <2>1, <2>2, ConcatProperties
  <2> QED BY <2>3 DEF Unread
<1>12. Sent \in Seq(Byte)
  <2>1. upto[wrote + 1] \in Seq(Byte)
    BY <1>4, <1>5
  <2>2. CASE wrote < Len(begun)
    <3>1. Len(begun) \in 1..Len(begun)
      BY <1>2, <2>2
    <3>2. BigEndian(Len(Last(begun))) \in Seq(Byte)
      BY <1>8, <3>1, HeaderReadsBack DEF Last
    <3>3. upto[wrote + 1] \o BigEndian(Len(Last(begun))) \in Seq(Byte)
      BY <2>1, <3>2, ConcatProperties
    <3> QED BY <1>9, <2>2, <3>3 DEF Sent
  <2>3. CASE ~(wrote < Len(begun))
    BY <1>9, <2>1, <2>3 DEF Sent
  <2> QED BY <2>2, <2>3
<1>13. Last(upto) \in Seq(Byte)
  BY <1>3, <1>4, <1>5, <1>6
<1> QED BY <1>1, <1>2, <1>4, <1>5, <1>6, <1>7, <1>8, <1>10, <1>11, <1>12, <1>13

\* What follows the frames that were read is the frame that is due.
LEMMA Due ==
  ASSUME Typed, Positions, Len(got) <= Len(begun),
         NEW x \in Seq(Byte), x # <<>>,
         IsPrefix(upto[Len(got) + 1] \o x, Last(upto))
  PROVE  LET b == begun[Len(got) + 1] IN
         /\ Len(got) < Len(begun)
         /\ b \in Bodies
         /\ upto[Len(got) + 2] = upto[Len(got) + 1] \o Encoded(b)
         /\ Len(x) <= HeaderLen + Len(b) => IsPrefix(x, Encoded(b))
<1> DEFINE u == upto[Len(got) + 1]
           b == begun[Len(got) + 1]
           e == Encoded(b)
<1>0. /\ Last(upto) \in Seq(Byte) /\ Len(got) \in Nat /\ Len(begun) \in Nat
      /\ Len(got) + 1 \in 1..Len(upto)
      /\ \A i \in 1..Len(upto) : upto[i] \in Seq(Byte)
  BY Pieces
<1>1. u \in Seq(Byte) /\ Last(upto) \in Seq(Byte) /\ Len(got) \in Nat /\ Len(begun) \in Nat
  BY <1>0
<1>2. u \o x \in Seq(Byte) /\ Len(u \o x) = Len(u) + Len(x)
  BY <1>1, ConcatProperties
<1>3. Len(x) \in Nat \ {0} /\ Len(u) \in Nat
  BY <1>1, EmptySeq
<1>4. Len(u) + Len(x) <= Len(Last(upto))
  BY <1>1, <1>2, PrefixItems
<1>5. Len(got) < Len(begun)
  <2>1. ASSUME Len(got) = Len(begun) PROVE FALSE
    <3>1. u = Last(upto)
      BY <2>1, Pieces
    <3> QED BY <1>3, <1>4, <3>1
  <2> QED BY <1>1, <2>1
<1>6. Len(got) + 1 \in 1..Len(begun) /\ Len(got) + 2 = (Len(got) + 1) + 1
  BY <1>1, <1>5
<1>7. b \in Bodies
  BY <1>6, Pieces
<1>8. e \in Seq(Byte) /\ Len(e) = HeaderLen + Len(b) /\ Len(e) \in Nat
  BY <1>7, FrameBytes, SMTT(30)
<1>9. upto[Len(got) + 2] = u \o e
  BY <1>6 DEF Positions
<1>10. IsPrefix(u \o e, Last(upto))
  <2>1. Len(got) + 2 \in 1..Len(upto)
    BY <1>1, <1>5 DEF Positions
  <2> QED BY <1>9, <2>1, Pieces
<1> HIDE DEF u, b, e
<1>11. u \o e \in Seq(Byte) /\ Len(u \o e) = Len(u) + Len(e)
  <2>1. u \in Seq(Byte) /\ e \in Seq(Byte)
    BY <1>1, <1>8
  <2> QED BY <2>1, ConcatProperties
<1>12. ASSUME Len(x) <= HeaderLen + Len(b) PROVE IsPrefix(x, e)
  <2>1. Len(u \o x) <= Len(u \o e)
    BY <1>2, <1>3, <1>8, <1>11, <1>12
  <2>2. IsPrefix(u \o x, Last(upto))
    BY DEF u
  <2> DEFINE ux == u \o x
             ue == u \o e
  <2>3. ux \in Seq(Byte) /\ ue \in Seq(Byte)
    BY <1>2, <1>11
  <2>4. IsPrefix(ux, ue)
    <3> HIDE DEF ux, ue
    <3>1. IsPrefix(ux, Last(upto)) /\ IsPrefix(ue, Last(upto)) /\ Len(ux) <= Len(ue)
      BY <1>10, <2>1, <2>2 DEF ux, ue
    <3> QED BY <1>1, <2>3, <3>1, PrefixShorter
  <2> QED BY <1>1, <1>8, <2>4, PrefixCancel
<1> QED BY <1>5, <1>7, <1>9, <1>12 DEF u, b, e

\* What ReadFrame knows of the frame it is reading is right.
LEMMA Collected ==
  ASSUME Typed, Positions, Collecting
  PROVE  LET b == begun[Len(got) + 1] IN
         /\ partial # <<>> => b \in Bodies /\ Len(got) < Len(begun)
         /\ HasHeader => partial # <<>> /\ Size = Len(b)
         /\ Missing \in Nat
         /\ partial # <<>> => Missing <= HeaderLen + Len(b) - Len(partial)
<1> DEFINE b == begun[Len(got) + 1]
<1>1. HeaderLen \in Nat \ {0} /\ partial \in Seq(Byte) /\ Len(partial) \in Nat
  BY ConnectionAssumption DEF Typed
<1>2. HasHeader => partial # <<>>
  <2>1. HasHeader => Len(partial) # 0
    BY <1>1 DEF HasHeader
  <2> QED BY <2>1
<1>3. CASE partial = <<>>
  <2>1. ~HasHeader /\ Len(partial) = 0
    BY <1>2, <1>3
  <2> QED BY <1>1, <1>3, <2>1 DEF Missing
<1>4. CASE partial # <<>>
  <2>1. Len(got) < Len(begun) /\ IsPrefix(partial, Encoded(b))
    BY <1>4 DEF Collecting
  <2>2. b \in Bodies
    <3>1. Len(got) \in Nat /\ Len(begun) \in Nat /\ \A i \in 1..Len(begun) : begun[i] \in Bodies
      BY Pieces DEF Collecting
    <3> QED BY <2>1, <3>1
  <2>3. /\ Len(partial) <= HeaderLen + Len(b) /\ Len(b) \in Nat
        /\ Len(partial) >= HeaderLen => Size = Len(b)
    BY <1>1, <2>1, <2>2, Header, FrameBytes DEF Size
  <2> HIDE DEF b
  <2>4. Missing \in Nat /\ Missing <= HeaderLen + Len(b) - Len(partial)
    BY <1>1, <2>3 DEF Missing, HasHeader
  <2> QED BY <1>2, <2>1, <2>2, <2>3, <2>4 DEF HasHeader, b
<1> QED BY <1>3, <1>4

\* No frame is longer than its header says.
LEMMA NeverTooMany ==
  ASSUME NEW p \in Seq(Byte), NEW bs \in Seq(Bodies), NEW g \in Nat,
         p # <<>> => g < Len(bs) /\ IsPrefix(p, Encoded(bs[g + 1]))
  PROVE  Len(p) >= HeaderLen => HeaderLen + Uint(SubSeq(p, 1, HeaderLen)) - Len(p) >= 0
<1> SUFFICES ASSUME Len(p) >= HeaderLen
             PROVE  HeaderLen + Uint(SubSeq(p, 1, HeaderLen)) - Len(p) >= 0
  OBVIOUS
<1>1. HeaderLen \in Nat \ {0} /\ Len(p) \in Nat /\ p # <<>>
  BY ConnectionAssumption
<1>2. bs[g + 1] \in Bodies
  BY <1>1
<1>3. /\ Len(bs[g + 1]) \in Nat
      /\ Len(p) <= HeaderLen + Len(bs[g + 1])
      /\ Uint(SubSeq(p, 1, HeaderLen)) = Len(bs[g + 1])
  BY <1>1, <1>2, Header, FrameBytes
<1> QED BY <1>1, <1>3

\* What was sent and what has still to be written make up the whole.
LEMMA Whole ==
  ASSUME Typed, Positions, RoleFirst, Len(got) <= Len(begun)
  PROVE  /\ Unwritten(Writer) \in Seq(Byte)
         /\ Sent \o Unwritten(Writer) = Last(upto)
<1>1. /\ Len(begun) \in Nat /\ wrote \in Nat /\ wrote <= Len(begun) /\ Len(begun) <= wrote + 1
      /\ Last(upto) = upto[Len(begun) + 1]
      /\ Last(upto) \in Seq(Byte) /\ line \in Seq(Byte)
  <2>1. Len(begun) \in wrote..(wrote + 1) /\ wrote \in Nat
    BY DEF Typed
  <2> QED BY <2>1, Pieces
<1>2. pc["handler"] # "dialed"
  BY DEF Typed
<1>3. CASE pc[Writer] = "dialed"
  <2>1. Writer = "client"
    BY <1>2, <1>3, TwoEnds
  <2>2. begun = <<>>
    BY <1>3, <2>1 DEF RoleFirst
  <2>3. Last(upto) = line
    BY <1>1, <2>2 DEF Positions
  <2>4. Sent = <<>> /\ Unwritten(Writer) = line
    BY <1>3, <2>1 DEF Sent, Unwritten
  <2> QED BY <1>1, <2>3, <2>4
<1>4. CASE pc[Writer] # "dialed" /\ wrote < Len(begun)
  <2> DEFINE b == Last(begun)
             u == upto[wrote + 1]
             h == BigEndian(Len(b))
  <2>1. Len(begun) = wrote + 1 /\ Len(begun) \in 1..Len(begun)
    BY <1>1, <1>4
  <2>2. b \in Bodies
    BY <2>1, Pieces DEF Last
  <2>3. h \in Seq(Byte) /\ b \in Seq(Byte)
    BY <2>2, FrameBytes
  <2>4. u \in Seq(Byte)
    <3>1. wrote + 1 \in 1..Len(upto) /\ \A i \in 1..Len(upto) : upto[i] \in Seq(Byte)
      BY Pieces
    <3> QED BY <3>1
  <2>5. Last(upto) = u \o (h \o b)
    BY <1>1, <2>1 DEF Positions, Encoded, Last
  <2>6. Sent = u \o h
    BY <1>4 DEF Sent
  <2>7. Unwritten(Writer) = b
    BY <1>4 DEF Unwritten
  <2> HIDE DEF b, u, h
  <2>8. (u \o h) \o b = u \o (h \o b)
    BY <2>3, <2>4, ConcatAssociative, SMTT(30)
  <2> QED BY <2>3, <2>5, <2>6, <2>7, <2>8
<1>5. CASE pc[Writer] # "dialed" /\ ~(wrote < Len(begun))
  <2>1. Sent = Last(upto)
    BY <1>1, <1>5 DEF Sent
  <2>2. Unwritten(Writer) = <<>>
    BY <1>5 DEF Unwritten
  <2> QED BY <1>1, <2>1, <2>2, ConcatEmptySeq
<1> QED BY <1>3, <1>4, <1>5

-----------------------------------------------------------------------------
(* Types.                                                                  *)

\* Initially the client has dialed and nothing has been sent.
LEMMA ConnectionInit == Init => IInv
<1> SUFFICES ASSUME Init PROVE IInv
  OBVIOUS
<1>1. /\ line \in Lines /\ line \in Seq(Byte)
      /\ pc["client"] = "dialed" /\ pc["handler"] = "role"
      /\ flight["client"] = <<>> /\ flight["handler"] = <<>>
      /\ begun = <<>> /\ wrote = 0 /\ upto = <<line>>
      /\ buffered = <<>> /\ partial = <<>> /\ got = <<>> /\ broken = FALSE
  BY ConnectionAssumption DEF Init, Ends
<1>2. Typed
  <2>1. pc \in [Ends -> {"dialed", "role", "open", "closed", "killed"}]
    BY DEF Init, Ends
  <2>2. flight \in [Ends -> Seq(Byte)]
    BY DEF Init
  <2>3. upto \in Seq(Seq(Byte))
    BY <1>1
  <2>4. /\ begun \in Seq(Bodies) /\ got \in Seq(Bodies)
        /\ wrote \in Nat /\ Len(begun) \in wrote..(wrote + 1)
    <3>1. <<>> \in Seq(Bodies) /\ Len(<<>>) = 0 /\ 0 \in 0..(0 + 1)
      OBVIOUS
    <3> QED BY <1>1, <3>1
  <2>5. buffered \in Seq(Byte) /\ partial \in Seq(Byte) /\ broken \in BOOLEAN
    <3>1. buffered \in Seq(Byte) /\ partial \in Seq(Byte)
      BY <1>1
    <3>2. broken \in BOOLEAN
      BY DEF Init
    <3> QED BY <3>1, <3>2
  <2>6. pc["client"] # "role" /\ pc["handler"] # "dialed"
    BY <1>1
  <2> QED BY <1>1, <2>1, <2>2, <2>3, <2>4, <2>5, <2>6 DEF Typed
<1>3. Positions
  BY <1>1, PrefixSelf DEF Positions
<1>4. RoleFirst /\ Collecting
  BY <1>1 DEF RoleFirst, Collecting
<1>5. TypeOK
  BY <1>2, <1>3, <1>4, Collected DEF TypeOK
<1>6. Carried
  <2>1. Unread = <<>>
    BY <1>1 DEF Unread
  <2>2. Used = IF Writer = "client" THEN <<>> ELSE line
    BY <1>1 DEF Used
  <2>3. Sent = IF Writer = "client" THEN <<>> ELSE line
    BY <1>1 DEF Sent
  <2>4. Used \o Unread = Used
    BY <1>1, <2>1, <2>2
  <2>5. Last(upto) = line
    BY <1>1 DEF Last
  <2>6. IsPrefix(Used, line)
    BY <1>1, <2>2 DEF IsPrefix
  <2>7. IsPrefix(Used \o Unread, Last(upto)) /\ Used \o Unread = Sent
    BY <2>2, <2>3, <2>4, <2>5, <2>6
  <2>8. ~(wrote > 0)
    BY <1>1
  <2> QED BY <2>7, <2>8 DEF Carried
<1>7. Ended
  BY <1>1, TwoEnds DEF Ended
<1> QED BY <1>3, <1>4, <1>5, <1>6, <1>7 DEF IInv

\* An end that goes by itself without another change.
Quits(e) ==
  /\ ~Left(e)
  /\ Leave(e, "closed")
  /\ UNCHANGED <<line, broken, sending, receiving>>

\* How an end may quit.
LEMMA Quitting ==
  ASSUME Typed
  PROVE  /\ RoleError => Quits("handler")
         /\ \A e \in Ends :
              WriteError(e) \/ Finish(e) \/ ReadTooLarge(e) \/ ReadError(e) => Quits(e)
<1>1. RoleError => Quits("handler")
  BY DEF RoleError, Quits, Left
<1>2. ASSUME NEW e \in Ends PROVE WriteError(e) => Quits(e)
  BY DEF WriteError, Quits, Left
<1>3. ASSUME NEW e \in Ends PROVE Finish(e) => Quits(e)
  BY DEF Finish, Quits, Left
<1>4. ASSUME NEW e \in Ends PROVE ReadTooLarge(e) => Quits(e)
  BY DEF ReadTooLarge, Quits, Left
<1>5. ASSUME NEW e \in Ends PROVE ReadError(e) => Quits(e)
  BY DEF ReadError, Quits, Left, Wants
<1> QED BY <1>1, <1>2, <1>3, <1>4, <1>5

\* What leaving means for where the ends are and for what is on its way.
LEMMA Leaving ==
  ASSUME Typed, NEW e \in Ends, NEW how \in {"closed", "killed"}, Leave(e, how)
  PROVE  /\ pc' \in [Ends -> {"dialed", "role", "open", "closed", "killed"}]
         /\ pc'["client"] # "role" /\ pc'["handler"] # "dialed"
         /\ pc'[e] = how /\ \A f \in Ends : f # e => pc'[f] = pc[f]
         /\ flight' \in [Ends -> Seq(Byte)]
         /\ flight'[e] = flight[e] /\ flight'[Peer(e)] = <<>>
<1>1. /\ pc \in [Ends -> {"dialed", "role", "open", "closed", "killed"}]
      /\ pc["client"] # "role" /\ pc["handler"] # "dialed"
      /\ flight \in [Ends -> Seq(Byte)]
  BY DEF Typed
<1>2. pc' = [pc EXCEPT ![e] = how]
  BY DEF Leave
<1>3. flight' = [flight EXCEPT ![Peer(e)] = <<>>]
  BY DEF Leave
<1>4. Peer(e) \in Ends /\ Peer(e) # e
  BY TwoEnds DEF Ends
<1>5. /\ pc' \in [Ends -> {"dialed", "role", "open", "closed", "killed"}]
      /\ pc'[e] = how /\ \A f \in Ends : f # e => pc'[f] = pc[f]
  BY <1>1, <1>2
<1>6. pc'["client"] # "role" /\ pc'["handler"] # "dialed"
  BY <1>1, <1>5 DEF Ends
<1>7. /\ flight' \in [Ends -> Seq(Byte)]
      /\ flight'[e] = flight[e] /\ flight'[Peer(e)] = <<>>
  BY <1>1, <1>3, <1>4
<1> QED BY <1>5, <1>6, <1>7

\* What is put on its way.
LEMMA Putting ==
  ASSUME Typed, NEW e \in Ends, NEW bytes \in Seq(Byte), Put(e, bytes)
  PROVE  /\ flight' \in [Ends -> Seq(Byte)]
         /\ \A f \in Ends : f # e => flight'[f] = flight[f]
         /\ flight'[e] = IF Gone(e) THEN flight[e] ELSE flight[e] \o bytes
<1>1. flight \in [Ends -> Seq(Byte)]
  BY DEF Typed
<1>2. flight[e] \o bytes \in Seq(Byte)
  BY <1>1, ConcatProperties
<1> QED BY <1>1, <1>2 DEF Put

\* A process that is killed leaves a part of what it was writing.
LEMMA Killing ==
  ASSUME Typed, Positions, RoleFirst, Len(got) <= Len(begun), NEW e \in Ends, Kill(e)
  PROVE  /\ pc' \in [Ends -> {"dialed", "role", "open", "closed", "killed"}]
         /\ pc'["client"] # "role" /\ pc'["handler"] # "dialed"
         /\ pc'[e] = "killed" /\ \A f \in Ends : f # e => pc'[f] = pc[f]
         /\ flight' \in [Ends -> Seq(Byte)]
         /\ flight'[Peer(e)] = <<>>
         /\ \/ flight'[e] = flight[e]
            \/ /\ ~Gone(e)
               /\ \E bytes \in Prefixes(Unwritten(e)) : flight'[e] = flight[e] \o bytes
<1>1. /\ pc \in [Ends -> {"dialed", "role", "open", "closed", "killed"}]
      /\ pc["client"] # "role" /\ pc["handler"] # "dialed"
      /\ flight \in [Ends -> Seq(Byte)]
  BY DEF Typed
<1>2. pc' = [pc EXCEPT ![e] = "killed"]
  BY DEF Kill
<1>3. PICK bytes \in Prefixes(Unwritten(e)) :
        flight' = [flight EXCEPT ![e] = IF Gone(e) THEN @ ELSE @ \o bytes,
                                 ![Peer(e)] = <<>>]
  BY DEF Kill
<1>4. Peer(e) \in Ends /\ Peer(e) # e
  BY TwoEnds DEF Ends
<1>5. /\ pc' \in [Ends -> {"dialed", "role", "open", "closed", "killed"}]
      /\ pc'[e] = "killed" /\ \A f \in Ends : f # e => pc'[f] = pc[f]
  BY <1>1, <1>2
<1>6. pc'["client"] # "role" /\ pc'["handler"] # "dialed"
  BY <1>1, <1>5 DEF Ends
<1>7. Unwritten(e) \in Seq(Byte)
  <2>1. CASE e = Writer
    BY <2>1, Whole
  <2>2. CASE e # Writer
    <3>1. line \in Seq(Byte) /\ <<>> \in Seq(Byte)
      BY Pieces
    <3> QED BY <2>2, <3>1 DEF Unwritten
  <2> QED BY <2>1, <2>2
<1>8. bytes \in Seq(Byte)
  BY <1>7, PrefixesPrefix
<1>9. flight[e] \o bytes \in Seq(Byte)
  BY <1>1, <1>8, ConcatProperties
<1>10. /\ flight' \in [Ends -> Seq(Byte)]
       /\ flight'[Peer(e)] = <<>>
       /\ flight'[e] = IF Gone(e) THEN flight[e] ELSE flight[e] \o bytes
  <2> DEFINE new == IF Gone(e) THEN flight[e] ELSE flight[e] \o bytes
  <2>1. new \in Seq(Byte) /\ <<>> \in Seq(Byte)
    BY <1>1, <1>9
  <2>2. flight' = [[flight EXCEPT ![e] = new] EXCEPT ![Peer(e)] = <<>>]
    BY <1>3
  <2> HIDE DEF new
  <2>3. [flight EXCEPT ![e] = new] \in [Ends -> Seq(Byte)]
    BY <1>1, <2>1
  <2>4. flight' \in [Ends -> Seq(Byte)] /\ flight'[Peer(e)] = <<>> /\ flight'[e] = new
    BY <1>1, <1>4, <2>1, <2>2, <2>3
  <2> QED BY <2>4 DEF new
<1> QED BY <1>5, <1>6, <1>10

\* The smaller of two numbers.
LEMMA MinTwo ==
  ASSUME NEW a \in Nat, NEW b \in Nat
  PROVE  Min({a, b}) \in Nat /\ Min({a, b}) <= a /\ Min({a, b}) <= b
<1>1. \E x \in {a, b} : \A y \in {a, b} : x <= y
  <2>1. a <= b \/ b <= a
    OBVIOUS
  <2> QED BY <2>1
<1>2. Min({a, b}) \in {a, b} /\ \A y \in {a, b} : Min({a, b}) <= y
  BY <1>1 DEF Min
<1> QED BY <1>2

\* bufio reads ahead: bytes change their place, not their order.
LEMMA Filling ==
  ASSUME Typed, Fill
  PROVE  /\ flight' \in [Ends -> Seq(Byte)] /\ buffered' \in Seq(Byte)
         /\ buffered' \o flight'["client"] = buffered \o flight["client"]
         /\ flight'["handler"] = flight["handler"]
         /\ flight["client"] # <<>>
         /\ UNCHANGED <<line, pc, broken, begun, wrote, upto, partial, got>>
<1> DEFINE f == flight["client"]
<1>1. flight \in [Ends -> Seq(Byte)] /\ f \in Seq(Byte) /\ buffered \in Seq(Byte)
  BY DEF Typed, Ends
<1>2. PICK k \in 1..Len(f) :
        /\ buffered' = buffered \o SubSeq(f, 1, k)
        /\ flight' = [flight EXCEPT !["client"] = SubSeq(f, k + 1, Len(f))]
  BY DEF Fill
<1> DEFINE head == SubSeq(f, 1, k)
           rest == SubSeq(f, k + 1, Len(f))
<1>3. head \in Seq(Byte) /\ rest \in Seq(Byte) /\ f = head \o rest
  <2>1. k \in 0..Len(f)
    BY <1>1
  <2> HIDE DEF f
  <2> QED BY <1>1, <2>1, CutAt
<1>4. buffered' = buffered \o head /\ flight' = [flight EXCEPT !["client"] = rest]
  BY <1>2
<1>5. f # <<>>
  BY <1>1, <1>2
<1> HIDE DEF f, head, rest
<1>6. buffered' \in Seq(Byte)
  BY <1>1, <1>3, <1>4, ConcatProperties
<1>7. /\ flight' \in [Ends -> Seq(Byte)]
      /\ flight'["client"] = rest /\ flight'["handler"] = flight["handler"]
  BY <1>1, <1>3, <1>4 DEF Ends
<1>8. (buffered \o head) \o rest = buffered \o (head \o rest)
  BY <1>1, <1>3, ConcatAssociative, SMTT(30)
<1>9. UNCHANGED <<line, pc, broken, begun, wrote, upto, partial, got>>
  BY DEF Fill, sending
<1> QED BY <1>3, <1>4, <1>5, <1>6, <1>7, <1>8, <1>9 DEF f

\* The handler's Read: no more than what is missing moves out of the buffer.
LEMMA HandlerTaking ==
  ASSUME Typed, Positions, Collecting, HandlerTakes
  PROVE  /\ Reader = "handler" /\ Writer = "client" /\ pc["handler"] = "open"
         /\ buffered' \in Seq(Byte)
         /\ UNCHANGED <<line, pc, flight, broken, begun, wrote, upto, got>>
         /\ \E bytes \in Seq(Byte) :
              /\ bytes # <<>> /\ Len(bytes) <= Missing
              /\ partial' = partial \o bytes
              /\ buffered = bytes \o buffered'
<1> DEFINE n == BufferedRead
           bytes == SubSeq(buffered, 1, n)
           rest == SubSeq(buffered, n + 1, Len(buffered))
<1>1. /\ pc["handler"] = "open" /\ "handler" = Reader
      /\ n > 0 /\ partial' = partial \o bytes /\ buffered' = rest
  BY DEF HandlerTakes, Wants
<1>2. buffered \in Seq(Byte) /\ Len(buffered) \in Nat /\ Missing \in Nat
  BY Collected DEF Typed
<1>3. n \in Nat /\ n <= Missing /\ n <= Len(buffered)
  BY <1>2, MinTwo DEF BufferedRead
<1> HIDE DEF n
<1>4. n \in 0..Len(buffered)
  BY <1>2, <1>3
<1>5. /\ bytes \in Seq(Byte) /\ rest \in Seq(Byte)
      /\ Len(bytes) = n /\ buffered = bytes \o rest
  BY <1>2, <1>4, CutAt, ZenonT(30)
<1> HIDE DEF bytes, rest
<1>6. bytes # <<>>
  BY <1>1, <1>3, <1>5
<1>7. UNCHANGED <<line, pc, flight, broken, begun, wrote, upto, got>>
  BY DEF HandlerTakes, sending
<1> QED BY <1>1, <1>3, <1>5, <1>6, <1>7, TwoEnds

\* The consumer's Read, straight from the connection.
LEMMA ClientTaking ==
  ASSUME Typed, Positions, Collecting, ClientTakes
  PROVE  /\ Reader = "client" /\ Writer = "handler" /\ pc["client"] = "open"
         /\ flight' \in [Ends -> Seq(Byte)]
         /\ flight'["client"] = flight["client"]
         /\ UNCHANGED <<line, pc, broken, begun, wrote, upto, buffered, got>>
         /\ \E bytes \in Seq(Byte) :
              /\ bytes # <<>> /\ Len(bytes) <= Missing
              /\ partial' = partial \o bytes
              /\ flight["handler"] = bytes \o flight'["handler"]
<1> DEFINE f == flight["handler"]
<1>1. /\ pc["client"] = "open" /\ "client" = Reader
  BY DEF ClientTakes, Wants
<1>2. /\ flight \in [Ends -> Seq(Byte)] /\ f \in Seq(Byte) /\ Len(f) \in Nat
      /\ Missing \in Nat
  BY Collected DEF Typed, Ends
<1>3. PICK n \in 1..Min({Missing, Len(f)}) :
        /\ partial' = partial \o SubSeq(f, 1, n)
        /\ flight' = [flight EXCEPT !["handler"] = SubSeq(f, n + 1, Len(f))]
  BY DEF ClientTakes
<1> DEFINE bytes == SubSeq(f, 1, n)
           rest == SubSeq(f, n + 1, Len(f))
<1>4. partial' = partial \o bytes /\ flight' = [flight EXCEPT !["handler"] = rest]
  BY <1>3
<1> HIDE DEF f
<1>5. n \in Nat /\ n > 0 /\ n <= Missing /\ n <= Len(f)
  <2> DEFINE min == Min({Missing, Len(f)})
  <2>1. min \in Nat /\ min <= Missing /\ min <= Len(f)
    BY <1>2, MinTwo
  <2>2. n \in 1..min
    BY <1>3
  <2> HIDE DEF min
  <2> QED BY <1>2, <2>1, <2>2
<1>6. n \in 0..Len(f)
  BY <1>2, <1>5
<1>7. bytes \in Seq(Byte) /\ rest \in Seq(Byte) /\ Len(bytes) = n /\ f = bytes \o rest
  BY <1>2, <1>6, CutAt
<1> HIDE DEF bytes, rest
<1>8. bytes # <<>>
  BY <1>5, <1>7
<1>9. /\ flight' \in [Ends -> Seq(Byte)]
      /\ flight'["handler"] = rest /\ flight'["client"] = flight["client"]
  BY <1>2, <1>4, <1>7 DEF Ends
<1>10. UNCHANGED <<line, pc, broken, begun, wrote, upto, buffered, got>>
  BY DEF ClientTakes, sending
<1> QED BY <1>1, <1>4, <1>5, <1>7, <1>8, <1>9, <1>10, TwoEnds DEF f

\* What ReadFrame returns is the frame that is due.
LEMMA Returned ==
  ASSUME Typed, Positions, Collecting, Complete
  PROVE  LET b == begun[Len(got) + 1] IN
         /\ b \in Bodies /\ Len(got) < Len(begun)
         /\ Size = Len(b)
         /\ partial = Encoded(b)
         /\ SubSeq(partial, HeaderLen + 1, Len(partial)) = b
<1> DEFINE b == begun[Len(got) + 1]
<1>1. HasHeader /\ Missing = 0
  BY DEF Complete
<1>2. b \in Bodies /\ Len(got) < Len(begun) /\ partial # <<>> /\ Size = Len(b)
  BY <1>1, Collected
<1>3. IsPrefix(partial, Encoded(b))
  BY <1>2 DEF Collecting
<1>4. partial \in Seq(Byte) /\ Len(partial) \in Nat
  BY DEF Typed
<1> HIDE DEF b
<1>5. Len(b) \in Nat /\ HeaderLen \in Nat /\ Encoded(b) \in Seq(Byte)
      /\ Len(Encoded(b)) = HeaderLen + Len(b)
  BY <1>2, FrameBytes
<1>6. Len(partial) = HeaderLen + Len(b)
  BY <1>1, <1>2, <1>4, <1>5 DEF Missing
<1>7. partial = Encoded(b)
  BY <1>3, <1>4, <1>5, <1>6, PrefixWhole
<1>8. SubSeq(partial, HeaderLen + 1, Len(partial)) = b
  BY <1>2, <1>3, <1>4, <1>6, Header
<1> QED BY <1>2, <1>7, <1>8 DEF b

\* The first of the two Writes of WriteFrame.
LEMMA HeaderWritten ==
  ASSUME Typed, Positions, Len(got) <= Len(begun),
         NEW e \in Ends, NEW b \in Bodies, WriteHeader(e, b)
  PROVE  /\ e = Writer /\ pc[e] = "open"
         /\ wrote = Len(begun) /\ Len(begun') = Len(begun) + 1
         /\ begun' \in Seq(Bodies)
         /\ \A i \in 1..Len(begun) : begun'[i] = begun[i]
         /\ begun'[Len(begun) + 1] = b /\ Last(begun') = b
         /\ upto' \in Seq(Seq(Byte)) /\ Len(upto') = Len(upto) + 1
         /\ \A i \in 1..Len(upto) : upto'[i] = upto[i]
         /\ upto'[Len(upto) + 1] = Last(upto) \o Encoded(b)
         /\ Last(upto') = Last(upto) \o Encoded(b)
         /\ Put(e, BigEndian(Len(b)))
         /\ UNCHANGED <<line, pc, broken, wrote, buffered, partial, got>>
<1>1. /\ pc[e] = "open" /\ e = Writer /\ wrote = Len(begun)
      /\ begun' = Append(begun, b)
      /\ upto' = Append(upto, Last(upto) \o Encoded(b))
      /\ Put(e, BigEndian(Len(b)))
      /\ UNCHANGED <<line, pc, broken, wrote, buffered, partial, got>>
  BY DEF WriteHeader, receiving
<1>2. begun \in Seq(Bodies) /\ upto \in Seq(Seq(Byte))
  BY DEF Typed
<1> DEFINE u == Last(upto) \o Encoded(b)
<1>3. u \in Seq(Byte)
  <2>1. Last(upto) \in Seq(Byte) /\ Encoded(b) \in Seq(Byte)
    BY Pieces, FrameBytes
  <2> QED BY <2>1, ConcatProperties
<1>4. upto' = Append(upto, u)
  BY <1>1
<1> HIDE DEF u
<1>5. /\ begun' \in Seq(Bodies) /\ Len(begun') = Len(begun) + 1
      /\ \A i \in 1..Len(begun) : begun'[i] = begun[i]
      /\ begun'[Len(begun) + 1] = b
  BY <1>1, <1>2
<1>6. /\ upto' \in Seq(Seq(Byte)) /\ Len(upto') = Len(upto) + 1
      /\ \A i \in 1..Len(upto) : upto'[i] = upto[i]
      /\ upto'[Len(upto) + 1] = u
  BY <1>2, <1>3, <1>4
<1>7. Last(begun') = b /\ Last(upto') = u
  BY <1>5, <1>6 DEF Last
<1> QED BY <1>1, <1>5, <1>6, <1>7 DEF u

\* The second of the two.
LEMMA BodyWritten ==
  ASSUME Typed, Positions, Len(got) <= Len(begun), NEW e \in Ends, WriteBody(e)
  PROVE  /\ e = Writer /\ pc[e] = "open"
         /\ Len(begun) = wrote + 1 /\ wrote' = wrote + 1
         /\ Last(begun) \in Bodies /\ Last(begun) = begun[wrote + 1]
         /\ Put(e, Last(begun))
         /\ UNCHANGED <<line, pc, broken, begun, upto, buffered, partial, got>>
<1>1. /\ pc[e] = "open" /\ e = Writer
      /\ wrote < Len(begun) /\ wrote' = wrote + 1
      /\ Put(e, Last(begun))
      /\ UNCHANGED <<line, pc, broken, begun, upto, buffered, partial, got>>
  BY DEF WriteBody, receiving
<1>2. Len(begun) \in wrote..(wrote + 1) /\ wrote \in Nat
  BY DEF Typed
<1>3. Len(begun) = wrote + 1
  BY <1>1, <1>2
<1>4. Last(begun) \in Bodies /\ Last(begun) = begun[wrote + 1]
  <2>1. wrote + 1 \in 1..Len(begun)
    BY <1>2, <1>3
  <2> QED BY <1>3, <2>1, Pieces DEF Last
<1> QED BY <1>1, <1>3, <1>4

\* Break loses what was sent last.
LEMMA Breaking ==
  ASSUME Typed, Break
  PROVE  /\ broken' = TRUE
         /\ flight' \in [Ends -> Seq(Byte)]
         /\ \A e \in Ends : IsPrefix(flight'[e], flight[e])
         /\ UNCHANGED <<line, pc, begun, wrote, upto, buffered, partial, got>>
<1>1. flight["client"] \in Seq(Byte) /\ flight["handler"] \in Seq(Byte)
  BY DEF Typed, Ends
<1>2. PICK up \in Prefixes(flight["client"]), down \in Prefixes(flight["handler"]) :
        flight' = [client |-> up, handler |-> down]
  BY DEF Break
<1>3. /\ up \in Seq(Byte) /\ IsPrefix(up, flight["client"])
      /\ down \in Seq(Byte) /\ IsPrefix(down, flight["handler"])
  BY <1>1, PrefixesPrefix
<1>4. flight'["client"] = up /\ flight'["handler"] = down
  BY <1>2
<1>5. flight' \in [Ends -> Seq(Byte)]
  BY <1>2, <1>3 DEF Ends
<1>6. /\ broken' = TRUE
      /\ UNCHANGED <<line, pc, begun, wrote, upto, buffered, partial, got>>
  BY DEF Break, sending, receiving
<1> QED BY <1>3, <1>4, <1>5, <1>6 DEF Ends

\* The role line ends at the first line feed, whatever follows it.
LEMMA FirstLine ==
  ASSUME NEW l \in Lines, NEW s \in Seq(Byte), NEW t \in Seq(Byte), NEW u \in Seq(Byte),
         IsPrefix(l, u), IsPrefix(s \o t, u),
         NEW end \in DOMAIN s, s[end] = LF, \A i \in 1..(end - 1) : s[i] # LF
  PROVE  SubSeq(s, 1, end) = l /\ s = l \o SubSeq(s, end + 1, Len(s))
<1>1. /\ l \in Seq(Byte) /\ Len(l) \in Nat \ {0}
      /\ \A i \in 1..Len(l) : l[i] = LF <=> i = Len(l)
  <2>1. l \in Seq(Byte) /\ l # <<>> /\ \A i \in DOMAIN l : l[i] = LF <=> i = Len(l)
    BY ConnectionAssumption
  <2> QED BY <2>1
<1>2. IsPrefix(s, u)
  <2> DEFINE st == s \o t
  <2>1. st \in Seq(Byte) /\ IsPrefix(s, st) /\ IsPrefix(st, u)
    BY ConcatProperties, PrefixConcat
  <2> HIDE DEF st
  <2> QED BY <2>1, PrefixTrans
<1>3. end \in 1..Len(s) /\ Len(s) \in Nat /\ end \in Nat
  OBVIOUS
<1>4. \A i \in 1..Len(l) : l[i] = u[i]
  BY <1>1, PrefixItems
<1>5. \A i \in 1..Len(s) : s[i] = u[i]
  BY <1>2, PrefixItems
<1>6. ~(end < Len(l))
  <2> SUFFICES ASSUME end < Len(l) PROVE FALSE
    OBVIOUS
  <2>1. end \in 1..Len(l)
    BY <1>1, <1>3
  <2>2. l[end] = LF
    BY <1>3, <1>4, <1>5, <2>1
  <2> QED BY <1>1, <2>1, <2>2
<1>7. ~(end > Len(l))
  <2> SUFFICES ASSUME end > Len(l) PROVE FALSE
    OBVIOUS
  <2>1. Len(l) \in 1..Len(s) /\ Len(l) \in 1..(end - 1) /\ Len(l) \in 1..Len(l)
    BY <1>1, <1>3
  <2>2. s[Len(l)] = LF
    BY <1>1, <1>4, <1>5, <2>1
  <2> QED BY <2>1, <2>2
<1>8. end = Len(l)
  BY <1>1, <1>3, <1>6, <1>7
<1>9. IsPrefix(l, s)
  <2>1. Len(l) <= Len(s)
    BY <1>3, <1>8
  <2> QED BY <1>1, <1>2, <2>1, PrefixShorter
<1> DEFINE q == SubSeq(s, 1, end)
<1>10. /\ q \in Seq(Byte) /\ Len(q) = end /\ IsPrefix(q, s)
       /\ s = q \o SubSeq(s, end + 1, Len(s))
  <2>1. end \in 0..Len(s)
    BY <1>3
  <2> QED BY <2>1, CutAt, ZenonT(30)
<1> HIDE DEF q
<1>11. q = l
  <2>1. Len(q) <= Len(l) /\ Len(l) <= Len(q)
    BY <1>1, <1>8, <1>10
  <2>2. IsPrefix(q, l)
    BY <1>1, <1>9, <1>10, <2>1, PrefixShorter
  <2> QED BY <1>1, <1>10, <2>1, <2>2, PrefixWhole
<1> QED BY <1>10, <1>11 DEF q

\* HandleConn goes on after the role line with what follows it.
LEMMA RoleRead ==
  ASSUME Typed, Positions, RoleFirst, Collecting, Carried, ReadRole
  PROVE  /\ pc["handler"] = "role" /\ buffered # <<>>
         /\ buffered' \in Seq(Byte)
         /\ \/ /\ pc' = [pc EXCEPT !["handler"] = "open"]
               /\ flight' = flight
            \/ Leave("handler", "closed")
         /\ UNCHANGED <<line, broken, begun, wrote, upto, partial, got>>
         /\ Writer = "client" =>
              /\ buffered = line \o buffered'
              /\ KnownRole => pc'["handler"] = "open"
<1>1. buffered \in Seq(Byte) /\ pc["handler"] = "role"
      /\ UNCHANGED <<line, broken, begun, wrote, upto, partial, got>>
  BY DEF ReadRole, Typed, sending
<1>2. PICK end \in DOMAIN buffered :
        /\ buffered[end] = LF
        /\ \A i \in 1..(end - 1) : buffered[i] # LF
        /\ buffered' = SubSeq(buffered, end + 1, Len(buffered))
        /\ IF TrimLine(SubSeq(buffered, 1, end)) \in {PRODUCER, CONSUMER}
           THEN pc' = [pc EXCEPT !["handler"] = "open"] /\ UNCHANGED flight
           ELSE Leave("handler", "closed")
  BY DEF ReadRole, NewBufferedFrameReader
<1>3. buffered # <<>>
  BY <1>1, <1>2
<1>4. buffered' \in Seq(Byte)
  <2>1. end \in 0..Len(buffered)
    BY <1>1
  <2> QED BY <1>1, <1>2, <2>1, CutAt
<1>5. ASSUME Writer = "client"
      PROVE  SubSeq(buffered, 1, end) = line /\ buffered = line \o buffered'
  <2>1. Reader = "handler" /\ ~Left(Reader)
    BY <1>1, <1>5, TwoEnds DEF Left
  <2>2. partial = <<>> /\ got = <<>>
    BY <1>1 DEF RoleFirst
  <2> DEFINE f == flight["client"]
             bf == buffered \o f
             u == Last(upto)
  <2>3. f \in Seq(Byte) /\ bf \in Seq(Byte)
    BY <1>1, ConcatProperties DEF Typed, Ends
  <2>4. Used = <<>> /\ Unread = bf
    <3>1. Unread = <<>> \o bf
      BY <1>5, <2>2 DEF Unread
    <3>2. Used = <<>>
      BY <1>1, <1>5 DEF Used
    <3> HIDE DEF bf
    <3> QED BY <2>3, <3>1, <3>2
  <2>5. Used \o Unread = bf
    <3> HIDE DEF bf
    <3> QED BY <2>3, <2>4
  <2>6. IsPrefix(bf, u)
    BY <2>1, <2>5 DEF Carried
  <2>7. IsPrefix(line, u) /\ u \in Seq(Byte) /\ line \in Lines
    <3>1. Len(got) <= Len(begun)
      BY DEF Collecting
    <3>2. u \in Seq(Byte) /\ \A i \in 1..Len(upto) : IsPrefix(upto[i], u)
      BY <3>1, Pieces
    <3>3. 1 \in 1..Len(upto) /\ upto[1] = line
      BY <3>1, Pieces DEF Positions
    <3> QED BY <3>2, <3>3 DEF Typed
  <2> HIDE DEF f, u
  <2> QED BY <1>1, <1>2, <2>3, <2>6, <2>7, FirstLine DEF bf
<1>6. ASSUME Writer = "client", KnownRole PROVE pc'["handler"] = "open"
  <2>1. pc' = [pc EXCEPT !["handler"] = "open"]
    BY <1>2, <1>5, <1>6 DEF KnownRole
  <2>2. pc \in [Ends -> {"dialed", "role", "open", "closed", "killed"}]
    BY DEF Typed
  <2> QED BY <2>1, <2>2 DEF Ends
<1> QED BY <1>1, <1>2, <1>3, <1>4, <1>5, <1>6

\* Steps keep types.
LEMMA TypedStep == IInv /\ [Next]_vars => Typed'
<1> SUFFICES ASSUME IInv, [Next]_vars PROVE Typed'
  OBVIOUS
<1>t. /\ Typed /\ Positions /\ RoleFirst /\ Collecting /\ Carried
      /\ Len(got) <= Len(begun)
  BY DEF IInv, TypeOK, Collecting
<1>1. CASE Break
  BY <1>t, <1>1, Breaking DEF Typed
<1>2. CASE Identify
  <2>1. line \in Seq(Byte) /\ "client" \in Ends
    BY <1>t, Pieces DEF Ends
  <2>2. flight' \in [Ends -> Seq(Byte)]
    BY <1>2, <1>t, <2>1, Putting DEF Identify
  <2>3. /\ pc' \in [Ends -> {"dialed", "role", "open", "closed", "killed"}]
        /\ pc'["client"] # "role" /\ pc'["handler"] # "dialed"
    BY <1>2, <1>t DEF Identify, Typed, Ends
  <2> QED BY <1>2, <1>t, <2>2, <2>3 DEF Identify, Typed, sending, receiving
<1>3. CASE Fill
  BY <1>t, <1>3, Filling DEF Typed
<1>4. CASE ReadRole
  <2>1. /\ buffered' \in Seq(Byte)
        /\ \/ pc' = [pc EXCEPT !["handler"] = "open"] /\ flight' = flight
           \/ Leave("handler", "closed")
        /\ UNCHANGED <<line, broken, begun, wrote, upto, partial, got>>
    BY <1>t, <1>4, RoleRead
  <2>2. /\ pc' \in [Ends -> {"dialed", "role", "open", "closed", "killed"}]
        /\ pc'["client"] # "role" /\ pc'["handler"] # "dialed"
        /\ flight' \in [Ends -> Seq(Byte)]
    <3>1. CASE Leave("handler", "closed")
      BY <1>t, <3>1, Leaving DEF Ends
    <3>2. CASE pc' = [pc EXCEPT !["handler"] = "open"] /\ flight' = flight
      BY <1>t, <3>2 DEF Typed, Ends
    <3> QED BY <2>1, <3>1, <3>2
  <2> QED BY <1>t, <2>1, <2>2 DEF Typed
<1>5. CASE HandlerTakes
  <2>1. PICK bytes \in Seq(Byte) : partial' = partial \o bytes
    BY <1>t, <1>5, HandlerTaking
  <2>2. partial' \in Seq(Byte)
    BY <1>t, <2>1 DEF Typed
  <2>3. buffered' \in Seq(Byte) /\ UNCHANGED <<line, pc, flight, broken, begun, wrote, upto, got>>
    BY <1>t, <1>5, HandlerTaking
  <2> QED BY <1>t, <2>2, <2>3 DEF Typed
<1>6. CASE ClientTakes
  <2>1. PICK bytes \in Seq(Byte) : partial' = partial \o bytes
    BY <1>t, <1>6, ClientTaking
  <2>2. partial' \in Seq(Byte)
    BY <1>t, <2>1 DEF Typed
  <2>3. /\ flight' \in [Ends -> Seq(Byte)]
        /\ UNCHANGED <<line, pc, broken, begun, wrote, upto, buffered, got>>
    BY <1>t, <1>6, ClientTaking
  <2> QED BY <1>t, <2>2, <2>3 DEF Typed
<1>7. ASSUME NEW e \in Ends, ReadFrame(e) PROVE Typed'
  <2> DEFINE b == SubSeq(partial, HeaderLen + 1, Len(partial))
  <2>1. b \in Bodies
    BY <1>t, <1>7, Returned DEF ReadFrame
  <2>2. got' = Append(got, b) /\ partial' = <<>>
    BY <1>7 DEF ReadFrame
  <2> HIDE DEF b
  <2>3. got' \in Seq(Bodies) /\ partial' \in Seq(Byte)
    BY <1>t, <2>1, <2>2 DEF Typed
  <2> QED BY <1>7, <1>t, <2>3 DEF ReadFrame, Typed, sending
<1>8. ASSUME NEW e \in Ends, NEW b \in Bodies, WriteHeader(e, b) PROVE Typed'
  <2>1. BigEndian(Len(b)) \in Seq(Byte)
    BY FrameBytes
  <2>2. /\ Put(e, BigEndian(Len(b)))
        /\ wrote = Len(begun) /\ Len(begun') = Len(begun) + 1
        /\ begun' \in Seq(Bodies) /\ upto' \in Seq(Seq(Byte))
        /\ UNCHANGED <<line, pc, broken, wrote, buffered, partial, got>>
    BY <1>t, <1>8, HeaderWritten
  <2>3. flight' \in [Ends -> Seq(Byte)]
    BY <1>t, <2>1, <2>2, Putting
  <2>4. wrote' \in Nat /\ Len(begun') \in wrote'..(wrote' + 1)
    <3>1. wrote \in Nat /\ wrote' = wrote /\ Len(begun') = wrote + 1
      BY <1>t, <2>2 DEF Typed
    <3> QED BY <3>1
  <2> QED BY <1>t, <2>2, <2>3, <2>4 DEF Typed
<1>9. ASSUME NEW e \in Ends, WriteBody(e) PROVE Typed'
  <2>1. /\ Put(e, Last(begun)) /\ Last(begun) \in Bodies
        /\ Len(begun) = wrote + 1 /\ wrote' = wrote + 1
        /\ UNCHANGED <<line, pc, broken, begun, upto, buffered, partial, got>>
    BY <1>t, <1>9, BodyWritten
  <2>2. Last(begun) \in Seq(Byte)
    BY <2>1, FrameBytes
  <2>3. flight' \in [Ends -> Seq(Byte)]
    BY <1>t, <2>1, <2>2, Putting
  <2>4. wrote' \in Nat /\ Len(begun') \in wrote'..(wrote' + 1)
    <3>1. wrote \in Nat /\ wrote' = wrote + 1 /\ Len(begun') = wrote + 1
      BY <1>t, <2>1 DEF Typed
    <3> QED BY <3>1
  <2> QED BY <1>t, <2>1, <2>3, <2>4 DEF Typed
<1>10. ASSUME NEW e \in Ends, Quits(e) PROVE Typed'
  <2>1. Leave(e, "closed") /\ UNCHANGED <<line, broken, sending, receiving>>
    BY <1>10 DEF Quits
  <2>2. /\ pc' \in [Ends -> {"dialed", "role", "open", "closed", "killed"}]
        /\ pc'["client"] # "role" /\ pc'["handler"] # "dialed"
        /\ flight' \in [Ends -> Seq(Byte)]
    BY <1>t, <2>1, Leaving
  <2> QED BY <1>t, <2>1, <2>2 DEF Typed, sending, receiving
<1>11. ASSUME NEW e \in Ends, Kill(e) PROVE Typed'
  <2>1. /\ pc' \in [Ends -> {"dialed", "role", "open", "closed", "killed"}]
        /\ pc'["client"] # "role" /\ pc'["handler"] # "dialed"
        /\ flight' \in [Ends -> Seq(Byte)]
    BY <1>t, <1>11, Killing
  <2> QED BY <1>11, <1>t, <2>1 DEF Kill, Typed, sending, receiving
<1>12. CASE UNCHANGED vars
  BY <1>t, <1>12 DEF vars, sending, receiving, Typed
<1>13. "handler" \in Ends
  BY DEF Ends
<1> QED BY <1>t, <1>1, <1>2, <1>3, <1>4, <1>5, <1>6, <1>7, <1>8, <1>9, <1>10, <1>11,
           <1>12, <1>13, Quitting DEF Next, ReadStep

-----------------------------------------------------------------------------
(* What was written, what comes first, and what is being read.             *)

\* WriteHeader adds a position; nothing else touches what was written.
LEMMA PositionsStep == IInv /\ [Next]_vars => Positions'
<1> SUFFICES ASSUME IInv, [Next]_vars PROVE Positions'
  OBVIOUS
<1>t. Typed /\ Positions /\ Collecting /\ Len(got) <= Len(begun)
  BY DEF IInv, TypeOK, Collecting
<1>1. ASSUME NEW e \in Ends, NEW b \in Bodies, WriteHeader(e, b) PROVE Positions'
  <2> DEFINE n == Len(begun)
             u == Last(upto) \o Encoded(b)
  <2>1. /\ Len(begun') = n + 1
        /\ \A i \in 1..n : begun'[i] = begun[i]
        /\ begun'[n + 1] = b
        /\ Len(upto') = Len(upto) + 1
        /\ \A i \in 1..Len(upto) : upto'[i] = upto[i]
        /\ upto'[Len(upto) + 1] = u
        /\ line' = line
    BY <1>t, <1>1, HeaderWritten
  <2>2. /\ n \in Nat /\ Len(upto) = n + 1 /\ Last(upto) = upto[n + 1]
        /\ Last(upto) \in Seq(Byte)
        /\ \A i \in 1..Len(upto) : upto[i] \in Seq(Byte) /\ IsPrefix(upto[i], Last(upto))
    BY <1>t, Pieces DEF Positions
  <2>3. u \in Seq(Byte) /\ IsPrefix(Last(upto), u) /\ IsPrefix(u, u)
    <3>1. Encoded(b) \in Seq(Byte)
      BY FrameBytes
    <3>2. u \in Seq(Byte) /\ IsPrefix(Last(upto), u)
      BY <2>2, <3>1, ConcatProperties, PrefixConcat
    <3> HIDE DEF u
    <3> QED BY <3>2, PrefixSelf
  <2>4. u = upto[n + 1] \o Encoded(b)
    BY <2>2
  <2> HIDE DEF u, n
  <2>5. Len(upto') = Len(begun') + 1 /\ upto'[1] = line'
    BY <1>t, <2>1, <2>2 DEF Positions
  <2>6. ASSUME NEW i \in 1..Len(begun')
        PROVE  upto'[i + 1] = upto'[i] \o Encoded(begun'[i])
    <3>1. CASE i = n + 1
      BY <2>1, <2>2, <2>4, <3>1
    <3>2. CASE i \in 1..n
      <4>1. i \in 1..Len(upto) /\ i + 1 \in 1..Len(upto)
        BY <2>2, <3>2
      <4>2. upto[i + 1] = upto[i] \o Encoded(begun[i])
        BY <1>t, <3>2 DEF Positions, n
      <4> QED BY <2>1, <3>2, <4>1, <4>2
    <3> QED BY <2>1, <2>2, <3>1, <3>2
  <2>7. ASSUME NEW i \in 1..Len(upto'), NEW j \in 1..Len(upto'), i <= j
        PROVE  IsPrefix(upto'[i], upto'[j])
    <3>1. CASE j \in 1..Len(upto)
      <4>1. i \in 1..Len(upto)
        BY <2>2, <2>7, <3>1
      <4>2. IsPrefix(upto[i], upto[j])
        BY <1>t, <2>7, <3>1, <4>1 DEF Positions
      <4> QED BY <2>1, <3>1, <4>1, <4>2
    <3>2. CASE j = Len(upto) + 1 /\ i \in 1..Len(upto)
      <4>1. upto'[j] = u /\ upto'[i] = upto[i]
        BY <2>1, <3>2
      <4>2. IsPrefix(upto[i], Last(upto)) /\ upto[i] \in Seq(Byte)
        BY <2>2, <3>2
      <4>3. IsPrefix(upto[i], u)
        BY <2>2, <2>3, <4>2, PrefixTrans
      <4> QED BY <4>1, <4>3
    <3>3. CASE j = Len(upto) + 1 /\ i = Len(upto) + 1
      BY <2>1, <2>3, <3>3
    <3> QED BY <2>1, <2>2, <3>1, <3>2, <3>3
  <2> QED BY <2>5, <2>6, <2>7 DEF Positions
<1>2. ASSUME UNCHANGED <<line, begun, upto>> PROVE Positions'
  BY <1>t, <1>2 DEF Positions
<1>3. \/ UNCHANGED <<line, begun, upto>>
      \/ \E e \in Ends, b \in Bodies : WriteHeader(e, b)
  BY DEF Next, ReadStep, vars, sending, Break, Identify, RoleError, Fill, ReadRole,
     HandlerTakes, ClientTakes, ReadFrame, WriteBody, WriteError, Finish, Kill,
     ReadTooLarge, ReadError
<1> QED BY <1>1, <1>2, <1>3

\* A connection keeps its role.
LEMMA RoleStays ==
  ASSUME [Next]_vars
  PROVE  /\ line' = line /\ Writer' = Writer /\ Reader' = Reader
         /\ KnownRole' = KnownRole
<1>1. line' = line
  BY DEF Next, ReadStep, vars, Break, Identify, RoleError, Fill, ReadRole,
     HandlerTakes, ClientTakes, ReadFrame, WriteHeader, WriteBody, WriteError, Finish,
     Kill, ReadTooLarge, ReadError
<1>2. Writer' = Writer
  BY <1>1 DEF Writer
<1>3. Reader' = Reader
  BY <1>2 DEF Reader
<1> QED BY <1>1, <1>2, <1>3 DEF KnownRole

\* No step reads or sends a frame before the role was sent and read.
LEMMA RoleFirstStep == IInv /\ [Next]_vars => RoleFirst'
<1> SUFFICES ASSUME IInv, [Next]_vars PROVE RoleFirst'
  OBVIOUS
<1>t. /\ Typed /\ Positions /\ RoleFirst /\ Collecting /\ Carried
      /\ Len(got) <= Len(begun)
  BY DEF IInv, TypeOK, Collecting
<1>e. "client" \in Ends /\ "handler" \in Ends /\ \A e \in Ends : e = "client" \/ e = "handler"
  BY DEF Ends
<1>f. /\ flight["client"] \in Seq(Byte) /\ flight["handler"] \in Seq(Byte)
      /\ pc \in [Ends -> {"dialed", "role", "open", "closed", "killed"}]
  BY <1>t, <1>e DEF Typed
<1>1. CASE Break
  <2>1. /\ flight' \in [Ends -> Seq(Byte)]
        /\ \A e \in Ends : IsPrefix(flight'[e], flight[e])
        /\ UNCHANGED <<pc, begun, buffered, partial, got>>
    BY <1>t, <1>1, Breaking
  <2>2. ASSUME NEW e \in Ends, flight[e] = <<>> PROVE flight'[e] = <<>>
    <3> DEFINE f == flight'[e]
               none == flight[e]
    <3>1. f \in Seq(Byte) /\ none \in Seq(Byte) /\ IsPrefix(f, none)
      BY <1>e, <1>f, <2>1
    <3>2. Len(none) <= Len(f)
      BY <2>2, <3>1
    <3> HIDE DEF f, none
    <3>3. f = none
      BY <3>1, <3>2, PrefixWhole
    <3> QED BY <2>2, <3>3 DEF f, none
  <2> QED BY <1>t, <1>e, <2>1, <2>2 DEF RoleFirst
<1>2. CASE Identify
  <2>1. flight'["handler"] = flight["handler"]
    <3>1. line \in Seq(Byte) /\ Put("client", line)
      BY <1>t, <1>2, Pieces DEF Identify
    <3> QED BY <1>t, <1>e, <3>1, Putting
  <2>2. pc'["client"] = "open" /\ pc'["handler"] = pc["handler"]
    BY <1>2, <1>e, <1>f DEF Identify
  <2> QED BY <1>2, <1>t, <2>1, <2>2 DEF Identify, RoleFirst, receiving
<1>3. CASE Fill
  <2>1. /\ flight["client"] # <<>> /\ flight'["handler"] = flight["handler"]
        /\ UNCHANGED <<pc, begun, partial, got>>
    BY <1>t, <1>3, Filling
  <2> QED BY <1>t, <2>1 DEF RoleFirst
<1>4. CASE ReadRole
  <2>1. /\ buffered # <<>>
        /\ \/ pc' = [pc EXCEPT !["handler"] = "open"]
           \/ Leave("handler", "closed")
    BY <1>t, <1>4, RoleRead
  <2>2. pc'["client"] = pc["client"] /\ pc'["handler"] # "role"
    BY <1>e, <1>f, <2>1 DEF Leave
  <2> QED BY <1>t, <2>1, <2>2 DEF RoleFirst
<1>5. CASE HandlerTakes
  <2>1. pc["handler"] = "open" /\ pc' = pc
    BY <1>t, <1>5, HandlerTaking
  <2> QED BY <1>t, <2>1 DEF RoleFirst
<1>6. CASE ClientTakes
  <2>1. /\ pc["client"] = "open" /\ pc' = pc
        /\ \E bytes \in Seq(Byte) :
             bytes # <<>> /\ flight["handler"] = bytes \o flight'["handler"]
        /\ flight' \in [Ends -> Seq(Byte)]
    BY <1>t, <1>6, ClientTaking
  <2>2. flight["handler"] # <<>>
    BY <1>e, <2>1
  <2> QED BY <1>t, <2>1, <2>2 DEF RoleFirst
<1>7. ASSUME NEW e \in Ends, ReadFrame(e) PROVE RoleFirst'
  <2>1. pc[e] = "open" /\ Complete /\ pc' = pc
    BY <1>7 DEF ReadFrame, Wants
  <2>2. partial # <<>>
    BY <1>t, <2>1, Collected DEF Complete
  <2> QED BY <1>t, <1>e, <2>1, <2>2 DEF RoleFirst
<1>8. ASSUME NEW e \in Ends, NEW b \in Bodies, WriteHeader(e, b) PROVE RoleFirst'
  <2>1. /\ pc[e] = "open" /\ Put(e, BigEndian(Len(b)))
        /\ UNCHANGED <<pc, partial, got>>
    BY <1>t, <1>8, HeaderWritten
  <2>2. \A f \in Ends : f # e => flight'[f] = flight[f]
    BY <1>t, <2>1, FrameBytes, Putting
  <2> QED BY <1>t, <1>e, <2>1, <2>2 DEF RoleFirst
<1>9. ASSUME NEW e \in Ends, WriteBody(e) PROVE RoleFirst'
  <2>1. /\ pc[e] = "open" /\ Put(e, Last(begun)) /\ Last(begun) \in Bodies
        /\ UNCHANGED <<pc, partial, got>>
    BY <1>t, <1>9, BodyWritten
  <2>2. \A f \in Ends : f # e => flight'[f] = flight[f]
    BY <1>t, <2>1, FrameBytes, Putting
  <2> QED BY <1>t, <1>e, <2>1, <2>2 DEF RoleFirst
<1>10. ASSUME NEW e \in Ends,
              pc'[e] \in {"closed", "killed"},
              \A f \in Ends : f # e => pc'[f] = pc[f],
              flight'[Peer(e)] = <<>>,
              UNCHANGED <<sending, receiving>>
       PROVE  RoleFirst'
  <2>1. UNCHANGED <<begun, buffered, partial, got>>
    BY <1>10 DEF sending, receiving
  <2>2. CASE e = "client"
    <3>1. flight'["handler"] = <<>> /\ pc'["client"] # "dialed" /\ pc'["handler"] = pc["handler"]
      BY <1>10, <1>e, <2>2, TwoEnds
    <3> QED BY <1>t, <2>1, <3>1 DEF RoleFirst
  <2>3. CASE e = "handler"
    <3>1. /\ flight'["client"] = <<>> /\ pc'["client"] = pc["client"]
          /\ pc'["handler"] # "role" /\ pc'["handler"] # "open"
      BY <1>10, <1>e, <2>3, TwoEnds
    <3> QED BY <1>t, <2>1, <3>1 DEF RoleFirst
  <2> QED BY <1>e, <2>2, <2>3
<1>11. ASSUME NEW e \in Ends, Quits(e) PROVE RoleFirst'
  <2>1. Leave(e, "closed") /\ UNCHANGED <<sending, receiving>>
    BY <1>11 DEF Quits
  <2>2. /\ pc'[e] = "closed" /\ \A f \in Ends : f # e => pc'[f] = pc[f]
        /\ flight'[Peer(e)] = <<>>
    BY <1>t, <2>1, Leaving
  <2> QED BY <1>10, <2>1, <2>2
<1>12. ASSUME NEW e \in Ends, Kill(e) PROVE RoleFirst'
  <2>1. UNCHANGED <<sending, receiving>>
    BY <1>12 DEF Kill
  <2>2. /\ pc'[e] = "killed" /\ \A f \in Ends : f # e => pc'[f] = pc[f]
        /\ flight'[Peer(e)] = <<>>
    BY <1>t, <1>12, Killing
  <2> QED BY <1>10, <2>1, <2>2
<1>13. CASE UNCHANGED vars
  BY <1>t, <1>13 DEF vars, sending, receiving, RoleFirst
<1> QED BY <1>t, <1>e, <1>1, <1>2, <1>3, <1>4, <1>5, <1>6, <1>7, <1>8, <1>9, <1>11,
           <1>12, <1>13, Quitting DEF Next, ReadStep

\* What is taken belongs to the frame that is due.
LEMMA Taken ==
  ASSUME Typed, Positions, Collecting,
         NEW bytes \in Seq(Byte), NEW rest \in Seq(Byte),
         bytes # <<>>, Len(bytes) <= Missing,
         IsPrefix(upto[Len(got) + 1] \o (partial \o (bytes \o rest)), Last(upto))
  PROVE  /\ Len(got) < Len(begun)
         /\ IsPrefix(partial \o bytes, Encoded(begun[Len(got) + 1]))
<1> DEFINE u == upto[Len(got) + 1]
           b == begun[Len(got) + 1]
           x == partial \o bytes
           y == u \o x
<1>1. /\ u \in Seq(Byte) /\ Last(upto) \in Seq(Byte)
      /\ partial \in Seq(Byte)
      /\ Len(got) <= Len(begun)
  <2>1. Len(got) <= Len(begun)
    BY DEF Collecting
  <2>2. /\ Last(upto) \in Seq(Byte) /\ Len(got) + 1 \in 1..Len(upto)
        /\ \A i \in 1..Len(upto) : upto[i] \in Seq(Byte)
    BY <2>1, Pieces
  <2> QED BY <2>1, <2>2 DEF Typed
<1>2. x \in Seq(Byte) /\ Len(x) = Len(partial) + Len(bytes)
  BY <1>1, ConcatProperties
<1>3. Len(partial) \in Nat /\ Len(bytes) \in Nat \ {0}
  BY <1>1, EmptySeq
<1>4. x # <<>>
  BY <1>2, <1>3, EmptySeq
<1>5. partial \o (bytes \o rest) = x \o rest
  <2>1. (partial \o bytes) \o rest = partial \o (bytes \o rest)
    <3>1. partial \in Seq(Byte)
      BY <1>1
    <3> QED BY <3>1, ConcatAssociative, SMTT(30)
  <2> QED BY <2>1
<1>6. IsPrefix(u \o (x \o rest), Last(upto))
  BY <1>5
<1> HIDE DEF u, x
<1>7. y \in Seq(Byte) /\ y \o rest \in Seq(Byte) /\ y \o rest = u \o (x \o rest)
  <2>1. y \in Seq(Byte)
    BY <1>1, <1>2, ConcatProperties
  <2>2. (u \o x) \o rest = u \o (x \o rest)
    <3>1. u \in Seq(Byte) /\ x \in Seq(Byte)
      BY <1>1, <1>2
    <3> QED BY <3>1, ConcatAssociative, SMTT(30)
  <2> QED BY <2>1, <2>2, ConcatProperties
<1> HIDE DEF y
<1>8. IsPrefix(y, y \o rest) /\ IsPrefix(y \o rest, Last(upto))
  BY <1>6, <1>7, PrefixConcat
<1>9. IsPrefix(y, Last(upto))
  <2> DEFINE z == y \o rest
  <2>1. z \in Seq(Byte) /\ IsPrefix(y, z) /\ IsPrefix(z, Last(upto))
    BY <1>7, <1>8
  <2> HIDE DEF z
  <2> QED BY <1>1, <1>7, <2>1, PrefixTrans
<1>10. IsPrefix(upto[Len(got) + 1] \o x, Last(upto))
  BY <1>9 DEF y, u
<1>11. /\ Len(got) < Len(begun) /\ b \in Bodies
       /\ Len(x) <= HeaderLen + Len(b) => IsPrefix(x, Encoded(b))
  BY <1>1, <1>2, <1>4, <1>10, Due
<1>12. Len(x) <= HeaderLen + Len(b)
  <2>1. HeaderLen \in Nat /\ Len(b) \in Nat
    BY <1>11, FrameBytes
  <2>2. Missing \in Nat /\ Missing <= HeaderLen + Len(b) - Len(partial)
    <3>1. CASE partial # <<>>
      BY <3>1, Collected
    <3>2. CASE partial = <<>>
      <4>1. Len(partial) = 0 /\ ~HasHeader
        BY <3>2, Collected
      <4> HIDE DEF b
      <4>2. Missing = HeaderLen
        BY <2>1, <4>1 DEF Missing
      <4> QED BY <2>1, <4>1, <4>2
    <3> QED BY <3>1, <3>2
  <2> HIDE DEF b
  <2> QED BY <1>2, <1>3, <2>1, <2>2
<1> QED BY <1>11, <1>12 DEF x, b

\* What is collected stays the beginning of the frame that is due: no Read
\* asks for a byte behind it.
LEMMA CollectingStep == IInv /\ [Next]_vars => Collecting'
<1> SUFFICES ASSUME IInv, [Next]_vars PROVE Collecting'
  OBVIOUS
<1>t. /\ Typed /\ Positions /\ RoleFirst /\ Collecting /\ Carried
      /\ Len(got) <= Len(begun)
  BY DEF IInv, TypeOK, Collecting
<1>f. /\ flight["client"] \in Seq(Byte) /\ flight["handler"] \in Seq(Byte)
      /\ buffered \in Seq(Byte) /\ partial \in Seq(Byte)
      /\ Len(got) \in Nat /\ Len(begun) \in Nat
  BY <1>t DEF Typed, Ends
<1>1. CASE HandlerTakes
  <2>1. /\ Reader = "handler" /\ Writer = "client" /\ pc["handler"] = "open"
        /\ buffered' \in Seq(Byte) /\ UNCHANGED <<begun, got>>
    BY <1>t, <1>1, HandlerTaking
  <2>2. PICK bytes \in Seq(Byte) :
          /\ bytes # <<>> /\ Len(bytes) <= Missing
          /\ partial' = partial \o bytes
          /\ buffered = bytes \o buffered'
    BY <1>t, <1>1, HandlerTaking
  <2> DEFINE f == flight["client"]
             rest == buffered' \o f
  <2>3. rest \in Seq(Byte)
    BY <1>f, <2>1, ConcatProperties
  <2>4. buffered \o f = bytes \o rest
    <3>1. f \in Seq(Byte)
      BY <1>f
    <3> HIDE DEF f
    <3>2. (bytes \o buffered') \o f = bytes \o (buffered' \o f)
      BY <2>1, <3>1, ConcatAssociative, SMTT(30)
    <3> QED BY <2>2, <3>2
  <2>5. Unread = partial \o (bytes \o rest)
    BY <2>1, <2>4 DEF Unread
  <2>6. Used = upto[Len(got) + 1] /\ ~Left(Reader)
    BY <2>1 DEF Used, Left
  <2> HIDE DEF rest
  <2>7. IsPrefix(upto[Len(got) + 1] \o (partial \o (bytes \o rest)), Last(upto))
    BY <1>t, <2>5, <2>6 DEF Carried
  <2>8. /\ Len(got) < Len(begun)
        /\ IsPrefix(partial', Encoded(begun[Len(got) + 1]))
    BY <1>t, <2>2, <2>3, <2>7, Taken
  <2> QED BY <1>t, <2>1, <2>8 DEF Collecting
<1>2. CASE ClientTakes
  <2>1. /\ Reader = "client" /\ Writer = "handler" /\ pc["client"] = "open"
        /\ flight' \in [Ends -> Seq(Byte)] /\ UNCHANGED <<begun, got>>
    BY <1>t, <1>2, ClientTaking
  <2>2. PICK bytes \in Seq(Byte) :
          /\ bytes # <<>> /\ Len(bytes) <= Missing
          /\ partial' = partial \o bytes
          /\ flight["handler"] = bytes \o flight'["handler"]
    BY <1>t, <1>2, ClientTaking
  <2> DEFINE rest == flight'["handler"]
  <2>3. rest \in Seq(Byte)
    BY <2>1 DEF Ends
  <2>4. Unread = partial \o (bytes \o rest)
    BY <2>1, <2>2 DEF Unread
  <2>5. Used = upto[Len(got) + 1] /\ ~Left(Reader)
    BY <2>1 DEF Used, Left
  <2> HIDE DEF rest
  <2>6. IsPrefix(upto[Len(got) + 1] \o (partial \o (bytes \o rest)), Last(upto))
    BY <1>t, <2>4, <2>5 DEF Carried
  <2>7. /\ Len(got) < Len(begun)
        /\ IsPrefix(partial', Encoded(begun[Len(got) + 1]))
    BY <1>t, <2>2, <2>3, <2>6, Taken
  <2> QED BY <1>t, <2>1, <2>7 DEF Collecting
<1>3. ASSUME NEW e \in Ends, ReadFrame(e) PROVE Collecting'
  <2> DEFINE b == SubSeq(partial, HeaderLen + 1, Len(partial))
  <2>1. /\ Complete /\ got' = Append(got, b)
        /\ partial' = <<>> /\ begun' = begun
    BY <1>3 DEF ReadFrame, sending
  <2>2. Len(got) < Len(begun) /\ b \in Bodies
    BY <1>t, <2>1, Returned
  <2> HIDE DEF b
  <2>3. got \in Seq(Bodies)
    BY <1>t DEF Typed
  <2>4. Len(got') = Len(got) + 1
    BY <2>1, <2>2, <2>3
  <2>5. Len(got') <= Len(begun')
    BY <1>f, <2>1, <2>2, <2>4
  <2> QED BY <2>1, <2>5 DEF Collecting
<1>4. ASSUME NEW e \in Ends, NEW b \in Bodies, WriteHeader(e, b) PROVE Collecting'
  <2>1. /\ Len(begun') = Len(begun) + 1
        /\ \A i \in 1..Len(begun) : begun'[i] = begun[i]
        /\ partial' = partial /\ got' = got
    BY <1>t, <1>4, HeaderWritten
  <2>2. Len(got') <= Len(begun')
    BY <1>t, <1>f, <2>1
  <2>3. ASSUME partial' # <<>>
        PROVE  Len(got') < Len(begun') /\ begun'[Len(got') + 1] = begun[Len(got) + 1]
               /\ IsPrefix(partial, Encoded(begun[Len(got) + 1]))
    <3>1. Len(got) < Len(begun) /\ IsPrefix(partial, Encoded(begun[Len(got) + 1]))
      BY <1>t, <2>1, <2>3 DEF Collecting
    <3>2. Len(got) + 1 \in 1..Len(begun)
      BY <1>f, <3>1
    <3>3. Len(got') < Len(begun')
      BY <1>f, <2>1, <3>1
    <3> QED BY <2>1, <3>1, <3>2, <3>3
  <2> QED BY <2>1, <2>2, <2>3 DEF Collecting
<1>5. ASSUME UNCHANGED <<begun, partial, got>> PROVE Collecting'
  BY <1>t, <1>5 DEF Collecting
<1>6. \/ HandlerTakes \/ ClientTakes
      \/ \E e \in Ends : ReadFrame(e) \/ \E b \in Bodies : WriteHeader(e, b)
      \/ UNCHANGED <<begun, partial, got>>
  BY DEF Next, ReadStep, vars, sending, receiving, Break, Identify, RoleError, Fill,
     ReadRole, WriteBody, WriteError, Finish, Kill, ReadTooLarge, ReadError
<1> QED BY <1>1, <1>2, <1>3, <1>4, <1>5, <1>6

\* The first conjuncts of the invariant, once they hold, bound what is read.
LEMMA TypeStep == IInv /\ [Next]_vars => TypeOK'
<1> SUFFICES ASSUME IInv, [Next]_vars PROVE TypeOK'
  OBVIOUS
<1>1. Typed' /\ Collecting'
  BY TypedStep, CollectingStep
<1>2. partial' \in Seq(Byte) /\ begun' \in Seq(Bodies) /\ got' \in Seq(Bodies)
  BY <1>1 DEF Typed
<1>3. Len(got') \in Nat
  BY <1>2
<1>4. partial' # <<>> =>
        Len(got') < Len(begun') /\ IsPrefix(partial', Encoded(begun'[Len(got') + 1]))
  BY <1>1 DEF Collecting
<1>5. Len(partial') >= HeaderLen
        => HeaderLen + Uint(SubSeq(partial', 1, HeaderLen)) - Len(partial') >= 0
  BY <1>2, <1>3, <1>4, NeverTooMany
<1>6. (HasHeader => Missing >= 0)'
  BY <1>5 DEF HasHeader, Missing, Size
<1> QED BY <1>1, <1>6 DEF TypeOK

-----------------------------------------------------------------------------
(* Bytes keep their order and, on a connection that has not broken, none   *)
(* is lost.                                                                *)

\* Unread bytes change with what the writer puts on its way.
LEMMA UnreadChange ==
  ASSUME Typed, Writer' = Writer, UNCHANGED <<buffered, partial>>
  PROVE  /\ flight'[Writer] = flight[Writer] => Unread' = Unread
         /\ \A bytes \in Seq(Byte) :
              flight'[Writer] = flight[Writer] \o bytes => Unread' = Unread \o bytes
<1>1. /\ partial \in Seq(Byte) /\ buffered \in Seq(Byte)
      /\ flight["client"] \in Seq(Byte) /\ flight["handler"] \in Seq(Byte)
  BY DEF Typed, Ends
<1>2. flight'[Writer] = flight[Writer] => Unread' = Unread
  BY TwoEnds DEF Unread
<1>3. ASSUME NEW bytes \in Seq(Byte), flight'[Writer] = flight[Writer] \o bytes
      PROVE  Unread' = Unread \o bytes
  <2>1. CASE Writer = "client"
    <3> DEFINE f == flight["client"]
    <3>1. Unread = partial \o (buffered \o f) /\ Unread' = partial \o (buffered \o (f \o bytes))
      BY <1>3, <2>1 DEF Unread
    <3>2. f \in Seq(Byte) /\ buffered \o f \in Seq(Byte)
      BY <1>1, ConcatProperties
    <3> HIDE DEF f
    <3>3. (buffered \o f) \o bytes = buffered \o (f \o bytes)
      <4>1. buffered \in Seq(Byte) /\ f \in Seq(Byte)
        BY <1>1, <3>2
      <4> QED BY <4>1, ConcatAssociative, SMTT(30)
    <3>4. (partial \o (buffered \o f)) \o bytes = partial \o ((buffered \o f) \o bytes)
      <4> DEFINE bf == buffered \o f
      <4>1. partial \in Seq(Byte) /\ bf \in Seq(Byte)
        BY <1>1, <3>2
      <4> HIDE DEF bf
      <4>2. (partial \o bf) \o bytes = partial \o (bf \o bytes)
        BY <4>1, ConcatAssociative, SMTT(30)
      <4> QED BY <4>2 DEF bf
    <3> QED BY <3>1, <3>3, <3>4
  <2>2. CASE Writer # "client"
    <3>1. Writer = "handler"
      BY <2>2, TwoEnds
    <3> DEFINE f == flight["handler"]
    <3>2. Unread = partial \o f /\ Unread' = partial \o (f \o bytes)
      BY <1>3, <3>1 DEF Unread
    <3>3. f \in Seq(Byte)
      BY <1>1
    <3> HIDE DEF f
    <3>4. (partial \o f) \o bytes = partial \o (f \o bytes)
      BY <1>1, <3>3, ConcatAssociative, SMTT(30)
    <3> QED BY <3>2, <3>4
  <2> QED BY <2>1, <2>2
<1> QED BY <1>2, <1>3

\* What was sent stays what it is.
LEMMA SentStays ==
  ASSUME Writer' = Writer, UNCHANGED <<begun, wrote, upto>>,
         Writer = "client" => (pc'["client"] = "dialed" <=> pc["client"] = "dialed")
  PROVE  Sent' = Sent
BY DEF Sent

\* A step that only moves bytes on, and one of a writer that leaves.
LEMMA CarriedOn ==
  ASSUME Carried, Reader' = Reader, Writer' = Writer,
         UNCHANGED <<broken, wrote, upto>>,
         ~Left(Reader)' => ~Left(Reader) /\ Used' \o Unread' = Used \o Unread,
         Left(Writer)' \/ (~Left(Writer) /\ Sent' = Sent)
  PROVE  Carried'
<1> SUFFICES ASSUME ~Left(Reader)'
             PROVE  (/\ IsPrefix(Used \o Unread, Last(upto))
                     /\ ~broken /\ ~Left(Writer) => Used \o Unread = Sent
                     /\ ~broken /\ wrote > 0 => IsPrefix(upto[wrote + 1], Used \o Unread))'
  BY DEF Carried
<1>1. ~Left(Reader) /\ Used' \o Unread' = Used \o Unread
  OBVIOUS
<1>2. /\ IsPrefix(Used \o Unread, Last(upto))
      /\ ~broken /\ ~Left(Writer) => Used \o Unread = Sent
      /\ ~broken /\ wrote > 0 => IsPrefix(upto[wrote + 1], Used \o Unread)
  BY <1>1 DEF Carried
<1>3. Last(upto)' = Last(upto)
  BY DEF Last
<1>4. IsPrefix(Used' \o Unread', Last(upto)')
  BY <1>1, <1>2, <1>3
<1>5. ~broken' /\ ~Left(Writer)' => Used' \o Unread' = Sent'
  BY <1>1, <1>2
<1>6. ~broken' /\ wrote' > 0 => IsPrefix(upto'[wrote' + 1], Used' \o Unread')
  BY <1>1, <1>2
<1> QED BY <1>4, <1>5, <1>6

\* A break keeps a beginning of what was on its way.
LEMMA CarriedBreak == ASSUME IInv, Break PROVE Carried'
<1>t. /\ Typed /\ Positions /\ Carried /\ Len(got) <= Len(begun)
  BY DEF IInv, TypeOK, Collecting
<1>1. /\ broken' = TRUE
      /\ flight' \in [Ends -> Seq(Byte)]
      /\ \A e \in Ends : IsPrefix(flight'[e], flight[e])
      /\ UNCHANGED <<line, pc, begun, wrote, upto, buffered, partial, got>>
  BY <1>t, Breaking
<1>2. Writer' = Writer /\ Reader' = Reader
  BY <1>1 DEF Writer, Reader
<1>3. Used' = Used /\ Last(upto)' = Last(upto) /\ (Left(Reader)' <=> Left(Reader))
  BY <1>1, <1>2 DEF Used, Left, Last
<1> SUFFICES ASSUME ~Left(Reader) PROVE IsPrefix(Used' \o Unread', Last(upto)')
  BY <1>1, <1>3 DEF Carried
<1>4. IsPrefix(Used \o Unread, Last(upto))
  BY <1>t DEF Carried
<1>5. /\ partial \in Seq(Byte) /\ buffered \in Seq(Byte)
      /\ flight["client"] \in Seq(Byte) /\ flight["handler"] \in Seq(Byte)
      /\ flight'["client"] \in Seq(Byte) /\ flight'["handler"] \in Seq(Byte)
      /\ IsPrefix(flight'["client"], flight["client"])
      /\ IsPrefix(flight'["handler"], flight["handler"])
  BY <1>t, <1>1 DEF Typed, Ends
<1>6. Unread' \in Seq(Byte) /\ IsPrefix(Unread', Unread)
  <2>1. CASE Writer = "client"
    <3> DEFINE f == flight["client"]
               g == flight'["client"]
               bf == buffered \o f
               bg == buffered \o g
    <3>1. f \in Seq(Byte) /\ g \in Seq(Byte) /\ IsPrefix(g, f)
      BY <1>5
    <3>2. Unread = partial \o bf /\ Unread' = partial \o bg
      BY <1>1, <1>2, <2>1 DEF Unread
    <3> HIDE DEF f, g
    <3>3. bf \in Seq(Byte) /\ bg \in Seq(Byte) /\ IsPrefix(bg, bf)
      BY <1>5, <3>1, ConcatProperties, PrefixCancel
    <3> HIDE DEF bf, bg
    <3>4. partial \o bg \in Seq(Byte) /\ IsPrefix(partial \o bg, partial \o bf)
      BY <1>5, <3>3, ConcatProperties, PrefixCancel
    <3> QED BY <3>2, <3>4
  <2>2. CASE Writer # "client"
    <3> DEFINE f == flight["handler"]
               g == flight'["handler"]
    <3>1. f \in Seq(Byte) /\ g \in Seq(Byte) /\ IsPrefix(g, f)
      BY <1>5
    <3>2. Unread = partial \o f /\ Unread' = partial \o g
      BY <1>1, <1>2, <2>2 DEF Unread
    <3> HIDE DEF f, g
    <3>3. partial \o g \in Seq(Byte) /\ IsPrefix(partial \o g, partial \o f)
      BY <1>5, <3>1, ConcatProperties, PrefixCancel
    <3> QED BY <3>2, <3>3
  <2> QED BY <2>1, <2>2
<1>7. Used \in Seq(Byte) /\ Unread \in Seq(Byte) /\ Last(upto) \in Seq(Byte)
  BY <1>t, Pieces
<1> DEFINE now == Used \o Unread
           next == Used \o Unread'
<1>8. now \in Seq(Byte) /\ next \in Seq(Byte) /\ IsPrefix(next, now)
  <2> DEFINE n == Unread
             m == Unread'
             u == Used
  <2>1. n \in Seq(Byte) /\ m \in Seq(Byte) /\ u \in Seq(Byte) /\ IsPrefix(m, n)
    BY <1>6, <1>7
  <2> HIDE DEF n, m, u
  <2>2. u \o n \in Seq(Byte) /\ u \o m \in Seq(Byte) /\ IsPrefix(u \o m, u \o n)
    BY <2>1, ConcatProperties, PrefixCancel
  <2> QED BY <2>2 DEF n, m, u
<1>9. IsPrefix(now, Last(upto))
  BY <1>4
<1> HIDE DEF now, next
<1>10. IsPrefix(next, Last(upto))
  BY <1>7, <1>8, <1>9, PrefixTrans
<1> QED BY <1>3, <1>10 DEF next

\* The client's first line.
LEMMA CarriedIdentify == ASSUME IInv, [Next]_vars, Identify PROVE Carried'
<1>t. /\ Typed /\ Positions /\ RoleFirst /\ Carried /\ Len(got) <= Len(begun)
  BY DEF IInv, TypeOK, Collecting
<1>1. /\ pc["client"] = "dialed" /\ pc' = [pc EXCEPT !["client"] = "open"]
      /\ Put("client", line)
      /\ UNCHANGED <<line, broken, begun, wrote, upto, buffered, partial, got>>
  BY DEF Identify, sending, receiving
<1>2. line' = line /\ Writer' = Writer /\ Reader' = Reader
  BY RoleStays
<1>3. /\ pc'["client"] = "open" /\ pc'["handler"] = pc["handler"]
      /\ "client" \in Ends /\ "handler" \in Ends
  BY <1>t, <1>1 DEF Typed, Ends
<1>4. /\ line \in Seq(Byte)
      /\ flight'["handler"] = flight["handler"]
      /\ flight'["client"] = IF Gone("client") THEN flight["client"]
                                               ELSE flight["client"] \o line
  <2>1. line \in Seq(Byte)
    BY <1>t, Pieces
  <2> QED BY <1>t, <1>1, <1>3, <2>1, Putting DEF Ends
<1>5. CASE Writer = "handler"
  <2>1. Reader = "client"
    BY <1>5, TwoEnds
  <2>2. Unread' = Unread
    BY <1>t, <1>1, <1>2, <1>4, <1>5, UnreadChange
  <2>3. Sent' = Sent
    BY <1>1, <1>2, <1>5, SentStays
  <2>4. Used' = Used
    BY <1>1, <1>2, <1>5 DEF Used
  <2>5. (Left(Reader)' <=> Left(Reader)) /\ (Left(Writer)' <=> Left(Writer))
    BY <1>1, <1>2, <1>3, <1>5, <2>1 DEF Left
  <2>6. ~Left(Reader)' => ~Left(Reader) /\ Used' \o Unread' = Used \o Unread
    BY <2>2, <2>4, <2>5
  <2>7. CASE ~Left(Writer)
    BY <1>t, <1>1, <1>2, <2>3, <2>6, <2>7, CarriedOn
  <2>8. CASE Left(Writer)
    BY <1>t, <1>1, <1>2, <2>5, <2>6, <2>8, CarriedOn
  <2> QED BY <2>7, <2>8
<1>6. CASE Writer = "client"
  <2>1. Reader = "handler"
    BY <1>6, TwoEnds
  <2> SUFFICES ASSUME ~Left(Reader)'
               PROVE  (/\ IsPrefix(Used \o Unread, Last(upto))
                       /\ ~broken /\ ~Left(Writer) => Used \o Unread = Sent
                       /\ ~broken /\ wrote > 0 => IsPrefix(upto[wrote + 1], Used \o Unread))'
    BY DEF Carried
  <2>2. pc["handler"] = "role"
    <3>1. pc["handler"] # "open" /\ pc["handler"] # "dialed"
      BY <1>t, <1>1 DEF RoleFirst, Typed
    <3>2. pc["handler"] # "closed" /\ pc["handler"] # "killed"
      BY <1>2, <1>3, <2>1 DEF Left
    <3>3. pc["handler"] \in {"dialed", "role", "open", "closed", "killed"}
      BY <1>t, <1>3 DEF Typed
    <3> QED BY <3>1, <3>2, <3>3
  <2>3. /\ buffered = <<>> /\ flight["client"] = <<>> /\ begun = <<>>
        /\ partial = <<>> /\ got = <<>>
    BY <1>t, <1>1, <2>2 DEF RoleFirst
  <2>4. Used' = <<>>
    BY <1>2, <1>3, <1>6, <2>2 DEF Used
  <2>5. wrote = 0
    <3>1. wrote \in Nat /\ Len(begun) \in wrote..(wrote + 1)
      BY <1>t DEF Typed
    <3>2. Len(begun) = 0
      BY <2>3
    <3> QED BY <3>1, <3>2
  <2>6. Last(upto)' = line /\ upto'[1] = line
    <3>1. Len(upto) = 1 /\ upto[1] = line
      BY <1>t, <2>3 DEF Positions
    <3> QED BY <1>1, <3>1 DEF Last
  <2>7. Sent' = line
    <3>1. ~(wrote' < Len(begun'))
      BY <1>1, <2>3, <2>5
    <3> QED BY <1>1, <1>2, <1>3, <2>5, <2>6, <3>1 DEF Sent
  <2>8. Unread' = flight'["client"]
    <3>1. flight'["client"] \in Seq(Byte)
      BY <1>4, <2>3
    <3>2. Unread' = <<>> \o (<<>> \o flight'["client"])
      BY <1>1, <1>2, <1>6, <2>3 DEF Unread
    <3> QED BY <3>1, <3>2
  <2>9. Used' \o Unread' = flight'["client"] /\ flight'["client"] \in Seq(Byte)
    <3> DEFINE f == flight'["client"]
    <3>1. f \in Seq(Byte)
      BY <1>4, <2>3
    <3> HIDE DEF f
    <3>2. <<>> \o f = f
      BY <3>1, ConcatEmptySeq
    <3> QED BY <2>4, <2>8, <3>1, <3>2 DEF f
  <2>10. flight'["client"] = IF broken THEN <<>> ELSE line
    <3>1. Gone("client") <=> broken
      BY <2>2, TwoEnds DEF Gone, Left
    <3> QED BY <1>4, <2>3, <3>1
  <2>11. IsPrefix(Used' \o Unread', Last(upto)')
    <3>1. IsPrefix(<<>>, line) /\ IsPrefix(line, line)
      BY <1>4 DEF IsPrefix
    <3> QED BY <2>6, <2>9, <2>10, <3>1
  <2>12. ~broken' => Used' \o Unread' = Sent'
    BY <1>1, <2>7, <2>9, <2>10
  <2>13. ~(wrote' > 0)
    BY <1>1, <2>5
  <2> QED BY <2>11, <2>12, <2>13
<1> QED BY <1>5, <1>6, TwoEnds

\* The reader's own steps only move bytes on.
LEMMA CarriedMove ==
  ASSUME Carried, [Next]_vars, UNCHANGED <<pc, broken, begun, wrote, upto>>,
         ~Left(Reader) => Used' \o Unread' = Used \o Unread
  PROVE  Carried'
<1>1. Writer' = Writer /\ Reader' = Reader
  BY RoleStays
<1>2. Sent' = Sent
  BY <1>1, SentStays
<1>3. (Left(Reader)' <=> Left(Reader)) /\ (Left(Writer)' <=> Left(Writer))
  BY <1>1 DEF Left
<1>4. Left(Writer)' \/ (~Left(Writer) /\ Sent' = Sent)
  BY <1>2, <1>3
<1>5. ~Left(Reader)' => ~Left(Reader) /\ Used' \o Unread' = Used \o Unread
  BY <1>3
<1> QED BY <1>1, <1>4, <1>5, CarriedOn

\* Reading ahead.
LEMMA CarriedFill == ASSUME IInv, [Next]_vars, Fill PROVE Carried'
<1>t. Typed /\ Carried
  BY DEF IInv, TypeOK
<1>1. /\ buffered' \o flight'["client"] = buffered \o flight["client"]
      /\ flight'["handler"] = flight["handler"]
      /\ UNCHANGED <<line, pc, broken, begun, wrote, upto, partial, got>>
  BY <1>t, Filling
<1>2. Writer' = Writer
  BY RoleStays
<1>3. Used' = Used /\ Unread' = Unread
  BY <1>1, <1>2 DEF Used, Unread
<1> QED BY <1>t, <1>1, <1>3, CarriedMove

\* A Read of the handler takes the bytes out of its bufio.Reader.
LEMMA CarriedHandlerTakes == ASSUME IInv, [Next]_vars, HandlerTakes PROVE Carried'
<1>t. Typed /\ Positions /\ Collecting /\ Carried
  BY DEF IInv, TypeOK
<1>1. /\ Reader = "handler" /\ Writer = "client" /\ pc["handler"] = "open"
      /\ buffered' \in Seq(Byte)
      /\ UNCHANGED <<line, pc, flight, broken, begun, wrote, upto, got>>
  BY <1>t, HandlerTaking
<1>2. PICK bytes \in Seq(Byte) : partial' = partial \o bytes /\ buffered = bytes \o buffered'
  BY <1>t, HandlerTaking
<1>3. Writer' = Writer
  BY RoleStays
<1> DEFINE f == flight["client"]
           rest == buffered' \o f
<1>4. f \in Seq(Byte) /\ partial \in Seq(Byte)
  BY <1>t DEF Typed, Ends
<1>5. Unread = partial \o ((bytes \o buffered') \o f) /\ Unread' = (partial \o bytes) \o rest
  BY <1>1, <1>2, <1>3 DEF Unread
<1> HIDE DEF f
<1>6. rest \in Seq(Byte) /\ (bytes \o buffered') \o f = bytes \o rest
  <2>1. (bytes \o buffered') \o f = bytes \o (buffered' \o f)
    <3>1. f \in Seq(Byte)
      BY <1>4
    <3> QED BY <1>1, <3>1, ConcatAssociative, SMTT(30)
  <2> QED BY <1>1, <1>4, <2>1, ConcatProperties
<1> HIDE DEF rest
<1>7. (partial \o bytes) \o rest = partial \o (bytes \o rest)
  BY <1>4, <1>6, ConcatAssociative, SMTT(30)
<1>8. Unread' = Unread
  BY <1>5, <1>6, <1>7
<1>9. Used' = Used
  BY <1>1, <1>3 DEF Used
<1> QED BY <1>t, <1>1, <1>8, <1>9, CarriedMove

\* A Read of the consumer takes them from the connection.
LEMMA CarriedClientTakes == ASSUME IInv, [Next]_vars, ClientTakes PROVE Carried'
<1>t. Typed /\ Positions /\ Collecting /\ Carried
  BY DEF IInv, TypeOK
<1>1. /\ Reader = "client" /\ Writer = "handler"
      /\ flight' \in [Ends -> Seq(Byte)]
      /\ UNCHANGED <<line, pc, broken, begun, wrote, upto, got>>
  BY <1>t, ClientTaking
<1>2. PICK bytes \in Seq(Byte) :
        partial' = partial \o bytes /\ flight["handler"] = bytes \o flight'["handler"]
  BY <1>t, ClientTaking
<1>3. Writer' = Writer
  BY RoleStays
<1> DEFINE rest == flight'["handler"]
<1>4. rest \in Seq(Byte) /\ partial \in Seq(Byte)
  BY <1>t, <1>1 DEF Typed, Ends
<1>5. Unread = partial \o (bytes \o rest) /\ Unread' = (partial \o bytes) \o rest
  BY <1>1, <1>2, <1>3 DEF Unread
<1> HIDE DEF rest
<1>6. (partial \o bytes) \o rest = partial \o (bytes \o rest)
  BY <1>4, ConcatAssociative, SMTT(30)
<1>7. Unread' = Unread
  BY <1>5, <1>6
<1>8. Used' = Used
  BY <1>1, <1>3 DEF Used
<1> QED BY <1>t, <1>1, <1>7, <1>8, CarriedMove

\* A frame that is returned turns from unread bytes into used ones.
LEMMA CarriedReadFrame ==
  ASSUME IInv, [Next]_vars, NEW e \in Ends, ReadFrame(e) PROVE Carried'
<1>t. Typed /\ Positions /\ Collecting /\ Carried /\ Len(got) <= Len(begun)
  BY DEF IInv, TypeOK, Collecting
<1> DEFINE b == SubSeq(partial, HeaderLen + 1, Len(partial))
           g == Len(got)
<1>1. /\ pc[e] = "open" /\ e = Reader /\ Complete
      /\ got' = Append(got, b) /\ partial' = <<>>
      /\ UNCHANGED <<line, pc, flight, broken, begun, wrote, upto, buffered>>
  BY DEF ReadFrame, Wants, sending
<1>2. /\ b \in Bodies /\ b = begun[g + 1] /\ g < Len(begun)
      /\ partial = Encoded(b)
  BY <1>t, <1>1, Returned
<1> HIDE DEF b
<1>3. Len(got') = g + 1 /\ g \in Nat /\ Len(begun) \in Nat
  BY <1>t, <1>1, <1>2 DEF Typed
<1> DEFINE u == upto[g + 1]
           enc == Encoded(b)
           rest == IF Writer = "client" THEN buffered \o flight["client"]
                                        ELSE flight["handler"]
<1>4. upto[g + 2] = u \o enc
  <2>1. g + 1 \in 1..Len(begun) /\ (g + 1) + 1 = g + 2
    BY <1>2, <1>3
  <2> QED BY <1>t, <1>2, <2>1 DEF Positions
<1>5. Writer' = Writer
  BY RoleStays
<1>6. Used = u /\ Used' = upto[g + 2]
  <2>1. Writer = "client" => pc["handler"] # "role"
    BY <1>1, TwoEnds
  <2>2. (g + 1) + 1 = g + 2
    BY <1>3
  <2> QED BY <1>1, <1>3, <1>5, <2>1, <2>2 DEF Used
<1>7. u \in Seq(Byte) /\ enc \in Seq(Byte) /\ rest \in Seq(Byte)
  <2>1. u \in Seq(Byte)
    BY <1>t, Pieces
  <2>2. enc \in Seq(Byte)
    BY <1>2, FrameBytes
  <2>3. rest \in Seq(Byte)
    <3>1. /\ buffered \in Seq(Byte) /\ flight["client"] \in Seq(Byte)
          /\ flight["handler"] \in Seq(Byte)
      BY <1>t DEF Typed, Ends
    <3> QED BY <3>1, ConcatProperties
  <2> QED BY <2>1, <2>2, <2>3
<1>8. Unread = enc \o rest /\ Unread' = <<>> \o rest
  BY <1>1, <1>2, <1>5 DEF Unread
<1> HIDE DEF u, enc, rest
<1>9. <<>> \o rest = rest
  BY <1>7, ConcatEmptySeq
<1>10. (u \o enc) \o rest = u \o (enc \o rest)
  BY <1>7, ConcatAssociative, SMTT(30)
<1>11. Used' \o Unread' = Used \o Unread
  BY <1>4, <1>6, <1>8, <1>9, <1>10
<1> QED BY <1>t, <1>1, <1>11, CarriedMove

\* The role line turns from unread bytes into used ones, too.
LEMMA CarriedReadRole == ASSUME IInv, [Next]_vars, ReadRole PROVE Carried'
<1>t. /\ Typed /\ Positions /\ RoleFirst /\ Collecting /\ Carried
      /\ Len(got) <= Len(begun)
  BY DEF IInv, TypeOK, Collecting
<1>1. /\ pc["handler"] = "role" /\ buffered' \in Seq(Byte)
      /\ \/ pc' = [pc EXCEPT !["handler"] = "open"] /\ flight' = flight
         \/ Leave("handler", "closed")
      /\ UNCHANGED <<line, broken, begun, wrote, upto, partial, got>>
      /\ Writer = "client" => buffered = line \o buffered'
  BY <1>t, RoleRead
<1>2. Writer' = Writer /\ Reader' = Reader
  BY RoleStays
<1>e. "client" \in Ends /\ "handler" \in Ends
  BY DEF Ends
<1>3. /\ pc'["client"] = pc["client"]
      /\ flight'["handler"] = flight["handler"]
      /\ \/ pc'["handler"] = "open" /\ flight' = flight
         \/ pc'["handler"] = "closed"
  <2>1. CASE Leave("handler", "closed")
    BY <1>t, <1>e, <2>1, Leaving
  <2>2. CASE pc' = [pc EXCEPT !["handler"] = "open"] /\ flight' = flight
    <3>1. pc \in [Ends -> {"dialed", "role", "open", "closed", "killed"}]
      BY <1>t DEF Typed
    <3> QED BY <1>e, <2>2, <3>1
  <2> QED BY <1>1, <2>1, <2>2
<1>4. Sent' = Sent
  BY <1>1, <1>2, <1>3, SentStays
<1>5. CASE Writer = "handler"
  <2>1. Reader = "client"
    BY <1>5, TwoEnds
  <2>2. Used' = Used /\ Unread' = Unread
    BY <1>1, <1>2, <1>3, <1>5 DEF Used, Unread
  <2>3. (Left(Reader)' <=> Left(Reader)) /\ ~Left(Writer)
    BY <1>1, <1>2, <1>3, <1>5, <2>1 DEF Left
  <2> QED BY <1>t, <1>1, <1>2, <1>4, <2>2, <2>3, CarriedOn
<1>6. CASE Writer = "client"
  <2>1. Reader = "handler" /\ ~Left(Reader)
    BY <1>1, <1>6, TwoEnds DEF Left
  <2>2. (Left(Writer)' <=> Left(Writer))
    BY <1>2, <1>3, <1>6 DEF Left
  <2>3. ASSUME ~Left(Reader)' PROVE Used' \o Unread' = Used \o Unread
    <3>1. pc'["handler"] = "open" /\ flight' = flight
      BY <1>2, <1>3, <2>1, <2>3 DEF Left
    <3>2. partial = <<>> /\ got = <<>>
      BY <1>t, <1>1 DEF RoleFirst
    <3> DEFINE f == flight["client"]
               rest == buffered' \o f
    <3>3. line \in Seq(Byte) /\ f \in Seq(Byte)
      BY <1>t, <1>e, Pieces DEF Typed
    <3>4. Used = <<>> /\ Used' = line
      <4>1. Used' = upto[1]
        BY <1>1, <1>2, <3>1, <3>2 DEF Used
      <4> QED BY <1>t, <1>1, <1>6, <4>1 DEF Positions, Used
    <3>5. Unread = <<>> \o ((line \o buffered') \o f) /\ Unread' = <<>> \o rest
      BY <1>1, <1>2, <1>6, <3>1, <3>2 DEF Unread
    <3> HIDE DEF f
    <3>6. rest \in Seq(Byte) /\ (line \o buffered') \o f = line \o rest
      <4>1. (line \o buffered') \o f = line \o (buffered' \o f)
        BY <1>1, <3>3, ConcatAssociative, SMTT(30)
      <4> QED BY <1>1, <3>3, <4>1, ConcatProperties
    <3> HIDE DEF rest
    <3> DEFINE all == line \o rest
    <3>7. all \in Seq(Byte)
      BY <3>3, <3>6, ConcatProperties
    <3>8. Used \o Unread = <<>> \o (<<>> \o all) /\ Used' \o Unread' = line \o (<<>> \o rest)
      BY <3>4, <3>5, <3>6
    <3>9. <<>> \o rest = rest
      BY <3>6, ConcatEmptySeq
    <3>10. Used' \o Unread' = all
      BY <3>8, <3>9
    <3> HIDE DEF all
    <3>11. <<>> \o all = all
      BY <3>7, ConcatEmptySeq
    <3> QED BY <3>8, <3>10, <3>11
  <2>4. ~Left(Reader)' => ~Left(Reader) /\ Used' \o Unread' = Used \o Unread
    BY <2>1, <2>3
  <2>5. CASE Left(Writer)
    BY <1>t, <1>1, <1>2, <2>2, <2>4, <2>5, CarriedOn
  <2>6. CASE ~Left(Writer)
    BY <1>t, <1>1, <1>2, <1>4, <2>4, <2>6, CarriedOn
  <2> QED BY <2>5, <2>6
<1> QED BY <1>5, <1>6, TwoEnds

\* A writer that leaves by itself has sent what it has sent.
LEMMA CarriedQuits ==
  ASSUME IInv, [Next]_vars, NEW e \in Ends, Quits(e) PROVE Carried'
<1>t. Typed /\ Carried
  BY DEF IInv, TypeOK
<1>1. /\ ~Left(e) /\ Leave(e, "closed")
      /\ UNCHANGED <<line, broken, begun, wrote, upto, buffered, partial, got>>
  BY DEF Quits, sending, receiving
<1>2. /\ pc'[e] = "closed" /\ \A f \in Ends : f # e => pc'[f] = pc[f]
      /\ flight'[e] = flight[e]
  BY <1>t, <1>1, Leaving
<1>3. Writer' = Writer /\ Reader' = Reader
  BY RoleStays
<1>4. CASE e = Reader
  <2>1. Left(Reader)'
    BY <1>2, <1>3, <1>4 DEF Left
  <2> QED BY <2>1 DEF Carried
<1>5. CASE e = Writer
  <2>1. Left(Writer)'
    BY <1>2, <1>3, <1>5 DEF Left
  <2>2. Left(Reader)' <=> Left(Reader)
    <3>1. Reader \in Ends /\ Reader # e
      BY <1>5, TwoEnds DEF Ends
    <3> QED BY <1>2, <1>3, <3>1 DEF Left
  <2>3. Unread' = Unread
    BY <1>t, <1>1, <1>2, <1>3, <1>5, UnreadChange
  <2>4. Used' = Used
    <3>1. Writer = "client" => pc'["handler"] = pc["handler"]
      BY <1>2, <1>5 DEF Ends
    <3> QED BY <1>1, <1>3, <3>1 DEF Used
  <2>5. ~Left(Reader)' => ~Left(Reader) /\ Used' \o Unread' = Used \o Unread
    BY <2>2, <2>3, <2>4
  <2> QED BY <1>t, <1>1, <1>3, <2>1, <2>5, CarriedOn
<1> QED BY <1>4, <1>5, TwoEnds DEF Ends

\* One that is killed may have sent a part of the rest.
LEMMA CarriedKill ==
  ASSUME IInv, [Next]_vars, NEW e \in Ends, Kill(e) PROVE Carried'
<1>t. /\ Typed /\ Positions /\ RoleFirst /\ Carried /\ Len(got) <= Len(begun)
  BY DEF IInv, TypeOK, Collecting
<1>1. /\ ~Left(e)
      /\ UNCHANGED <<line, broken, begun, wrote, upto, buffered, partial, got>>
  BY DEF Kill, sending, receiving
<1>2. /\ pc'[e] = "killed" /\ \A f \in Ends : f # e => pc'[f] = pc[f]
      /\ \/ flight'[e] = flight[e]
         \/ /\ ~Gone(e)
            /\ \E bytes \in Prefixes(Unwritten(e)) : flight'[e] = flight[e] \o bytes
  BY <1>t, Killing
<1>3. Writer' = Writer /\ Reader' = Reader
  BY RoleStays
<1>4. CASE e = Reader
  <2>1. Left(Reader)'
    BY <1>2, <1>3, <1>4 DEF Left
  <2> QED BY <2>1 DEF Carried
<1>5. CASE e = Writer
  <2>1. Left(Writer)'
    BY <1>2, <1>3, <1>5 DEF Left
  <2>2. Left(Reader)' <=> Left(Reader)
    <3>1. Reader \in Ends /\ Reader # e
      BY <1>5, TwoEnds DEF Ends
    <3> QED BY <1>2, <1>3, <3>1 DEF Left
  <2>3. Used' = Used
    <3>1. Writer = "client" => pc'["handler"] = pc["handler"]
      BY <1>2, <1>5 DEF Ends
    <3> QED BY <1>1, <1>3, <3>1 DEF Used
  <2>4. CASE flight'[e] = flight[e]
    <3>1. Unread' = Unread
      BY <1>t, <1>1, <1>3, <1>5, <2>4, UnreadChange
    <3>2. ~Left(Reader)' => ~Left(Reader) /\ Used' \o Unread' = Used \o Unread
      BY <2>2, <2>3, <3>1
    <3> QED BY <1>t, <1>1, <1>3, <2>1, <3>2, CarriedOn
  <2>5. CASE ~Gone(e) /\ \E bytes \in Prefixes(Unwritten(e)) : flight'[e] = flight[e] \o bytes
    <3>1. PICK bytes \in Prefixes(Unwritten(Writer)) : flight'[Writer] = flight[Writer] \o bytes
      BY <1>5, <2>5
    <3>2. Unwritten(Writer) \in Seq(Byte) /\ Sent \o Unwritten(Writer) = Last(upto)
      BY <1>t, Whole
    <3>3. bytes \in Seq(Byte) /\ IsPrefix(bytes, Unwritten(Writer))
      BY <3>2, PrefixesPrefix
    <3>4. Unread' = Unread \o bytes
      BY <1>t, <1>1, <1>3, <3>1, <3>3, UnreadChange
    <3>5. Used \in Seq(Byte) /\ Unread \in Seq(Byte) /\ Sent \in Seq(Byte)
          /\ \A i \in 1..Len(upto) : upto[i] \in Seq(Byte)
          /\ wrote + 1 \in 1..Len(upto)
      BY <1>t, Pieces
    <3> SUFFICES ASSUME ~Left(Reader)
                 PROVE  (/\ IsPrefix(Used \o Unread, Last(upto))
                         /\ ~broken /\ wrote > 0 => IsPrefix(upto[wrote + 1], Used \o Unread))'
      BY <2>1, <2>2 DEF Carried
    <3>6. ~broken /\ ~Left(Writer)
      BY <1>1, <1>5, <2>5 DEF Gone
    <3>7. /\ Used \o Unread = Sent
          /\ wrote > 0 => IsPrefix(upto[wrote + 1], Used \o Unread)
      BY <1>t, <3>6 DEF Carried
    <3> DEFINE s == Sent
               w == Unwritten(Writer)
               all == s \o bytes
    <3>8. s \in Seq(Byte) /\ w \in Seq(Byte) /\ IsPrefix(bytes, w)
      BY <3>2, <3>3, <3>5
    <3>9. Used' \o Unread' = all
      <4> DEFINE u == Used
                 n == Unread
      <4>1. u \in Seq(Byte) /\ n \in Seq(Byte)
        BY <3>5
      <4>2. Used' \o Unread' = u \o (n \o bytes) /\ s = u \o n
        BY <2>3, <3>4, <3>7
      <4> HIDE DEF u, n, s
      <4>3. (u \o n) \o bytes = u \o (n \o bytes)
        BY <3>3, <4>1, ConcatAssociative, SMTT(30)
      <4> QED BY <4>2, <4>3
    <3>10. Last(upto)' = s \o w
      BY <1>1, <3>2 DEF Last
    <3>11. wrote > 0 => IsPrefix(upto[wrote + 1], s)
      BY <3>7
    <3> HIDE DEF s, w
    <3>12. all \in Seq(Byte) /\ IsPrefix(s, all) /\ IsPrefix(all, s \o w)
      BY <3>3, <3>8, ConcatProperties, PrefixConcat, PrefixCancel
    <3> HIDE DEF all
    <3>13. IsPrefix(Used' \o Unread', Last(upto)')
      BY <3>9, <3>10, <3>12
    <3>14. ASSUME wrote > 0 PROVE IsPrefix(upto[wrote + 1], all)
      <4> DEFINE v == upto[wrote + 1]
      <4>1. v \in Seq(Byte)
        <5>1. wrote + 1 \in 1..Len(upto) /\ \A i \in 1..Len(upto) : upto[i] \in Seq(Byte)
          BY <1>t, Pieces
        <5> HIDE DEF s, w, all
        <5> QED BY <5>1
      <4>2. IsPrefix(v, s)
        BY <3>11, <3>14
      <4> HIDE DEF v
      <4>3. IsPrefix(v, all)
        BY <3>8, <3>12, <4>1, <4>2, PrefixTrans
      <4> QED BY <4>3 DEF v
    <3>15. ~broken' /\ wrote' > 0 => IsPrefix(upto'[wrote' + 1], Used' \o Unread')
      BY <1>1, <3>9, <3>14
    <3> QED BY <3>13, <3>15
  <2> QED BY <1>2, <2>4, <2>5
<1> QED BY <1>4, <1>5, TwoEnds DEF Ends

\* A header goes behind all that was sent.
LEMMA CarriedHeader ==
  ASSUME IInv, [Next]_vars, NEW e \in Ends, NEW b \in Bodies, WriteHeader(e, b)
  PROVE  Carried'
<1>t. /\ Typed /\ Positions /\ Carried /\ Len(got) <= Len(begun)
  BY DEF IInv, TypeOK, Collecting
<1> DEFINE h == BigEndian(Len(b))
           last == Last(upto)
<1>1. /\ e = Writer /\ pc[e] = "open"
      /\ wrote = Len(begun) /\ Len(begun') = Len(begun) + 1 /\ Last(begun') = b
      /\ \A i \in 1..Len(upto) : upto'[i] = upto[i]
      /\ Last(upto') = last \o Encoded(b)
      /\ Put(e, h)
      /\ UNCHANGED <<line, pc, broken, wrote, buffered, partial, got>>
  BY <1>t, HeaderWritten
<1>2. Writer' = Writer /\ Reader' = Reader
  BY RoleStays
<1>3. /\ Len(begun) \in Nat /\ Len(got) + 1 \in 1..Len(upto) /\ wrote + 1 \in 1..Len(upto)
      /\ last \in Seq(Byte) /\ last = upto[wrote + 1]
      /\ Used \in Seq(Byte) /\ Unread \in Seq(Byte)
  BY <1>t, <1>1, Pieces
<1>4. h \in Seq(Byte) /\ b \in Seq(Byte)
  BY FrameBytes
<1> DEFINE lh == last \o h
<1>5. /\ lh \in Seq(Byte) /\ IsPrefix(last, lh)
      /\ Last(upto)' \in Seq(Byte) /\ IsPrefix(lh, Last(upto)') /\ IsPrefix(last, Last(upto)')
  <2> HIDE DEF h, last
  <2>1. lh \in Seq(Byte) /\ IsPrefix(last, lh)
    BY <1>3, <1>4, ConcatProperties, PrefixConcat
  <2>2. Last(upto)' = lh \o b
    <3>1. (last \o h) \o b = last \o (h \o b)
      <4>1. last \in Seq(Byte) /\ h \in Seq(Byte) /\ b \in Seq(Byte)
        BY <1>3, <1>4
      <4> QED BY <4>1, ConcatAssociative, SMTT(30)
    <3>2. Last(upto)' = last \o (h \o b)
      BY <1>1 DEF Encoded, h, Last
    <3> QED BY <3>1, <3>2
  <2> HIDE DEF lh
  <2> DEFINE new == lh \o b
  <2>3. new \in Seq(Byte) /\ IsPrefix(lh, new)
    BY <1>4, <2>1, ConcatProperties, PrefixConcat
  <2> HIDE DEF new
  <2>4. IsPrefix(last, new)
    BY <1>3, <2>1, <2>3, PrefixTrans
  <2> QED BY <2>1, <2>2, <2>3, <2>4 DEF new
<1>6. Left(Reader)' <=> Left(Reader)
  BY <1>1, <1>2 DEF Left
<1> SUFFICES ASSUME ~Left(Reader)
             PROVE  (/\ IsPrefix(Used \o Unread, Last(upto))
                     /\ ~broken /\ ~Left(Writer) => Used \o Unread = Sent
                     /\ ~broken /\ wrote > 0 => IsPrefix(upto[wrote + 1], Used \o Unread))'
  BY <1>6 DEF Carried
<1>7. Used' = Used
  BY <1>1, <1>2, <1>3 DEF Used
<1>8. flight'[Writer] = IF broken THEN flight[Writer] ELSE flight[Writer] \o h
  <2>1. Peer(Writer) = Reader
    BY DEF Reader
  <2>2. Gone(Writer) <=> broken
    BY <2>1 DEF Gone
  <2> HIDE DEF h
  <2> QED BY <1>t, <1>1, <1>4, <2>2, Putting
<1>9. CASE broken
  <2>1. Unread' = Unread
    BY <1>t, <1>1, <1>2, <1>8, <1>9, UnreadChange
  <2> DEFINE all == Used \o Unread
  <2>2. all \in Seq(Byte) /\ IsPrefix(all, last) /\ Used' \o Unread' = all
    BY <1>t, <1>3, <1>7, <2>1, ConcatProperties DEF Carried
  <2> HIDE DEF all, last, lh
  <2>3. IsPrefix(all, Last(upto)')
    BY <1>3, <1>5, <2>2, PrefixTrans
  <2> QED BY <1>1, <1>9, <2>2, <2>3
<1>10. CASE ~broken
  <2>1. Unread' = Unread \o h
    <3> HIDE DEF h
    <3> QED BY <1>t, <1>1, <1>2, <1>4, <1>8, <1>10, UnreadChange
  <2>2. ~Left(Writer) /\ ~(Writer = "client" /\ pc["client"] = "dialed")
    BY <1>1 DEF Left
  <2>3. Sent = last
    BY <1>1, <1>3, <2>2 DEF Sent
  <2>4. Used \o Unread = last
    BY <1>t, <1>10, <2>2, <2>3 DEF Carried
  <2>5. Used' \o Unread' = lh
    <3> DEFINE u == Used
               n == Unread
    <3>1. u \in Seq(Byte) /\ n \in Seq(Byte) /\ u \o n = last
      BY <1>3, <2>4
    <3>2. Used' \o Unread' = u \o (n \o h)
      BY <1>7, <2>1
    <3> HIDE DEF u, n, h, last
    <3>3. (u \o n) \o h = u \o (n \o h)
      <4>1. u \in Seq(Byte) /\ n \in Seq(Byte) /\ h \in Seq(Byte)
        BY <1>4, <3>1
      <4> QED BY <4>1, ConcatAssociative, SMTT(30)
    <3> QED BY <3>1, <3>2, <3>3
  <2>6. upto'[wrote' + 1] = last
    BY <1>1, <1>3
  <2>7. Sent' = lh
    <3>1. wrote' < Len(begun')
      BY <1>1, <1>3
    <3>2. ~(Writer' = "client" /\ pc'["client"] = "dialed")
      BY <1>1, <1>2, <2>2
    <3> QED BY <1>1, <2>6, <3>1, <3>2 DEF Sent
  <2> QED BY <1>5, <2>5, <2>6, <2>7
<1> QED BY <1>9, <1>10

\* A body completes its frame.
LEMMA CarriedBody ==
  ASSUME IInv, [Next]_vars, NEW e \in Ends, WriteBody(e) PROVE Carried'
<1>t. /\ Typed /\ Positions /\ Carried /\ Len(got) <= Len(begun)
  BY DEF IInv, TypeOK, Collecting
<1> DEFINE b == Last(begun)
           last == Last(upto)
<1>1. /\ e = Writer /\ pc[e] = "open"
      /\ Len(begun) = wrote + 1 /\ wrote' = wrote + 1
      /\ b \in Bodies /\ b = begun[wrote + 1]
      /\ Put(e, b)
      /\ UNCHANGED <<line, pc, broken, begun, upto, buffered, partial, got>>
  BY <1>t, BodyWritten
<1>2. Writer' = Writer /\ Reader' = Reader
  BY RoleStays
<1>3. /\ wrote \in Nat /\ wrote + 1 \in 1..Len(upto)
      /\ last \in Seq(Byte) /\ last = upto[Len(begun) + 1]
      /\ upto[wrote + 1] \in Seq(Byte)
      /\ Used \in Seq(Byte) /\ Unread \in Seq(Byte)
  <2>1. wrote + 1 \in 1..Len(upto) /\ \A i \in 1..Len(upto) : upto[i] \in Seq(Byte)
    BY <1>t, Pieces
  <2>2. upto[wrote + 1] \in Seq(Byte)
    BY <2>1
  <2> QED BY <1>t, <2>1, <2>2, Pieces
<1>4. b \in Seq(Byte) /\ BigEndian(Len(b)) \in Seq(Byte)
  BY <1>1, FrameBytes
<1>5. Left(Reader)' <=> Left(Reader)
  BY <1>1, <1>2 DEF Left
<1> SUFFICES ASSUME ~Left(Reader)
             PROVE  (/\ IsPrefix(Used \o Unread, Last(upto))
                     /\ ~broken /\ ~Left(Writer) => Used \o Unread = Sent
                     /\ ~broken /\ wrote > 0 => IsPrefix(upto[wrote + 1], Used \o Unread))'
  BY <1>5 DEF Carried
<1>6. Used' = Used /\ Last(upto)' = last
  BY <1>1, <1>2 DEF Used, Last
<1>7. flight'[Writer] = IF broken THEN flight[Writer] ELSE flight[Writer] \o b
  <2>1. Peer(Writer) = Reader
    BY DEF Reader
  <2>2. Gone(Writer) <=> broken
    BY <2>1 DEF Gone
  <2> HIDE DEF b
  <2> QED BY <1>t, <1>1, <1>4, <2>2, Putting
<1>8. CASE broken
  <2>1. Unread' = Unread
    BY <1>t, <1>1, <1>2, <1>7, <1>8, UnreadChange
  <2>2. IsPrefix(Used' \o Unread', Last(upto)')
    BY <1>t, <1>6, <2>1 DEF Carried
  <2> QED BY <1>1, <1>8, <2>2
<1>9. CASE ~broken
  <2>1. Unread' = Unread \o b
    <3> HIDE DEF b
    <3> QED BY <1>t, <1>1, <1>2, <1>4, <1>7, <1>9, UnreadChange
  <2>2. ~Left(Writer) /\ ~(Writer = "client" /\ pc["client"] = "dialed")
    BY <1>1 DEF Left
  <2> DEFINE s == Sent
             v == upto[wrote + 1]
             h == BigEndian(Len(b))
             u == Used
             n == Unread
  <2>3. s = v \o h
    <3>1. wrote < Len(begun)
      BY <1>1, <1>3
    <3> QED BY <2>2, <3>1 DEF Sent
  <2>4. u \o n = s
    BY <1>t, <1>9, <2>2 DEF Carried
  <2>5. Used' \o Unread' = u \o (n \o b)
    BY <1>6, <2>1
  <2>6. last = v \o (h \o b)
    <3>1. wrote + 1 \in 1..Len(begun)
      BY <1>1, <1>3
    <3>2. upto[(wrote + 1) + 1] = v \o Encoded(begun[wrote + 1])
      BY <1>t, <3>1 DEF Positions
    <3> QED BY <1>1, <1>3, <3>2 DEF Encoded
  <2>7. u \in Seq(Byte) /\ n \in Seq(Byte) /\ v \in Seq(Byte) /\ h \in Seq(Byte)
    BY <1>3, <1>4
  <2>8. upto'[wrote' + 1] = last
    BY <1>1, <1>3
  <2> HIDE DEF s, v, h, u, n
  <2>9. Used' \o Unread' = last
    <3> HIDE DEF b, last
    <3>1. (u \o n) \o b = u \o (n \o b)
      <4>1. u \in Seq(Byte) /\ n \in Seq(Byte) /\ b \in Seq(Byte)
        BY <1>4, <2>7
      <4> QED BY <4>1, ConcatAssociative, SMTT(30)
    <3>2. (v \o h) \o b = v \o (h \o b)
      <4>1. v \in Seq(Byte) /\ h \in Seq(Byte) /\ b \in Seq(Byte)
        BY <1>4, <2>7
      <4> QED BY <4>1, ConcatAssociative, SMTT(30)
    <3> QED BY <2>3, <2>4, <2>5, <2>6, <3>1, <3>2
  <2>10. Sent' = last
    <3>1. ~(wrote' < Len(begun'))
      BY <1>1, <1>3
    <3>2. ~(Writer' = "client" /\ pc'["client"] = "dialed")
      BY <1>1, <1>2, <2>2
    <3> QED BY <2>8, <3>1, <3>2 DEF Sent
  <2>11. IsPrefix(last, last)
    BY <1>3, PrefixSelf
  <2> QED BY <1>6, <2>8, <2>9, <2>10, <2>11
<1> QED BY <1>8, <1>9

\* All steps together: no byte is lost, repeated or reordered.
LEMMA CarriedStep == IInv /\ [Next]_vars => Carried'
<1> SUFFICES ASSUME IInv, [Next]_vars PROVE Carried'
  OBVIOUS
<1>t. Typed /\ Carried
  BY DEF IInv, TypeOK
<1>1. CASE UNCHANGED vars
  <2>1. UNCHANGED <<pc, broken, begun, wrote, upto, flight, buffered, partial, got>>
    BY <1>1 DEF vars, sending, receiving
  <2>2. Writer' = Writer
    BY RoleStays
  <2>3. Used' = Used /\ Unread' = Unread
    BY <2>1, <2>2 DEF Used, Unread
  <2> QED BY <1>t, <2>1, <2>3, CarriedMove
<1>2. "handler" \in Ends
  BY DEF Ends
<1> QED BY <1>t, <1>1, <1>2, Quitting, CarriedBreak, CarriedIdentify, CarriedFill,
           CarriedReadRole, CarriedHandlerTakes, CarriedClientTakes, CarriedReadFrame,
           CarriedHeader, CarriedBody, CarriedQuits, CarriedKill DEF Next, ReadStep

-----------------------------------------------------------------------------
(* A reader that ends by itself.                                           *)

\* Where no byte is on its way any more, what is unread is what was collected.
LEMMA NothingUnread ==
  ASSUME Typed, flight[Writer] = <<>>, Writer = "client" => buffered = <<>>
  PROVE  Unread = partial
<1>1. partial \in Seq(Byte)
  BY DEF Typed
<1>2. <<>> \o <<>> = <<>> /\ partial \o <<>> = partial
  BY <1>1, ConcatEmptySeq
<1>3. CASE Writer = "client"
  BY <1>2, <1>3 DEF Unread
<1>4. CASE Writer = "handler"
  BY <1>2, <1>4 DEF Unread
<1> QED BY <1>3, <1>4, TwoEnds

\* A reader that still waits for bytes, none of which is missing on a
\* connection whose writer has gone, has returned what was written.
LEMMA AllReturned ==
  ASSUME Typed, Positions, Collecting, Carried,
         ~Left(Reader), ~broken, Missing > 0,
         Used = upto[Len(got) + 1], Unread = partial
  PROVE  Len(got) >= wrote
<1> DEFINE g == Len(got)
           b == begun[g + 1]
           u == upto[g + 1]
<1>t. Len(got) <= Len(begun)
  BY DEF Collecting
<1>1. /\ g \in Nat /\ wrote \in Nat /\ Len(begun) \in Nat
      /\ u \in Seq(Byte) /\ partial \in Seq(Byte)
      /\ wrote <= Len(begun)
  <2>1. Len(begun) \in wrote..(wrote + 1) /\ partial \in Seq(Byte) /\ wrote \in Nat
    BY DEF Typed
  <2>2. /\ g + 1 \in 1..Len(upto) /\ \A i \in 1..Len(upto) : upto[i] \in Seq(Byte)
        /\ g \in Nat /\ Len(begun) \in Nat
    BY <1>t, Pieces
  <2>3. u \in Seq(Byte)
    BY <2>2
  <2>4. wrote <= Len(begun)
    BY <2>1, <2>2
  <2> QED BY <2>1, <2>2, <2>3, <2>4
<1> SUFFICES ASSUME ~(g >= wrote) PROVE FALSE
  OBVIOUS
<1>2. g < wrote /\ wrote > 0
  BY <1>1
<1>3. IsPrefix(upto[wrote + 1], u \o partial)
  BY <1>2 DEF Carried
<1>4. g + 1 \in 1..Len(begun) /\ b \in Bodies
  <2>1. g + 1 \in 1..Len(begun)
    BY <1>1, <1>2
  <2> QED BY <1>t, <2>1, Pieces
<1>5. HeaderLen \in Nat \ {0} /\ Len(b) \in Nat
      /\ Encoded(b) \in Seq(Byte) /\ Len(Encoded(b)) = HeaderLen + Len(b)
  BY <1>4, FrameBytes
<1> DEFINE enc == Encoded(b)
           v == upto[wrote + 1]
           up == u \o partial
           ue == u \o enc
<1>6. upto[g + 2] = ue
  <2>1. (g + 1) + 1 = g + 2
    BY <1>1
  <2> QED BY <1>4, <2>1 DEF Positions
<1>7. v \in Seq(Byte) /\ IsPrefix(ue, v)
  <2>1. g + 2 \in 1..Len(upto) /\ wrote + 1 \in 1..Len(upto) /\ g + 2 <= wrote + 1
    BY <1>1, <1>2 DEF Positions
  <2>2. \A i \in 1..Len(upto) : upto[i] \in Seq(Byte)
    BY <1>t, Pieces
  <2>3. v \in Seq(Byte)
    BY <2>1, <2>2
  <2>4. IsPrefix(upto[g + 2], upto[wrote + 1])
    BY <2>1 DEF Positions
  <2> QED BY <1>6, <2>3, <2>4
<1>8. /\ ue \in Seq(Byte) /\ Len(ue) = Len(u) + Len(enc)
      /\ up \in Seq(Byte) /\ Len(up) = Len(u) + Len(partial)
  <2>1. u \in Seq(Byte) /\ enc \in Seq(Byte) /\ partial \in Seq(Byte)
    BY <1>1, <1>5
  <2> HIDE DEF u, enc
  <2> QED BY <2>1, ConcatProperties
<1>9. Len(ue) <= Len(v) /\ Len(v) <= Len(up)
  <2>1. IsPrefix(v, up) /\ IsPrefix(ue, v)
    BY <1>3, <1>7
  <2> HIDE DEF ue, v, up
  <2> QED BY <1>7, <1>8, <2>1, PrefixItems
<1>10. Len(u) \in Nat /\ Len(partial) \in Nat /\ Len(v) \in Nat
  <2>1. u \in Seq(Byte) /\ v \in Seq(Byte) /\ partial \in Seq(Byte)
    BY <1>1, <1>7
  <2> HIDE DEF u, v
  <2> QED BY <2>1
<1>11. Len(enc) = HeaderLen + Len(b)
  BY <1>5
<1>12. partial # <<>> => Missing \in Nat /\ Missing <= HeaderLen + Len(b) - Len(partial)
  BY Collected
<1>13. partial = <<>> => Len(partial) = 0
  OBVIOUS
<1> HIDE DEF b, u, v, enc, ue, up, g
<1>14. Len(partial) >= HeaderLen + Len(b)
  BY <1>5, <1>8, <1>9, <1>10, <1>11
<1>15. partial # <<>>
  BY <1>5, <1>13, <1>14
<1> QED BY <1>5, <1>10, <1>12, <1>14, <1>15

\* A reader's error: nothing more comes, and a part of a frame is missing.
LEMMA EndsInError ==
  ASSUME IInv, NEW e \in Ends, ReadError(e), ~broken
  PROVE  e = Reader /\ Left(Writer) /\ Len(got) >= wrote
<1>t. Typed /\ Positions /\ RoleFirst /\ Collecting /\ Carried
  BY DEF IInv, TypeOK
<1>1. /\ pc[e] = "open" /\ e = Reader /\ Missing > 0
      /\ e = "handler" => buffered = <<>>
      /\ Gone(e) /\ flight[Peer(e)] = <<>>
  BY DEF ReadError, Wants, AtEnd
<1>2. Peer(e) = Writer
  BY <1>1, TwoEnds
<1>3. Left(Writer) /\ ~Left(Reader)
  BY <1>1, <1>2 DEF Gone, Left
<1>4. Unread = partial
  <2>1. Writer = "client" => buffered = <<>>
    BY <1>1, TwoEnds
  <2> QED BY <1>t, <1>1, <1>2, <2>1, NothingUnread
<1>5. Used = upto[Len(got) + 1]
  BY <1>1, TwoEnds DEF Used
<1> QED BY <1>t, <1>1, <1>3, <1>4, <1>5, AllReturned

\* A handler that gets no complete line has been sent no frame.
LEMMA EndsBeforeRole ==
  ASSUME IInv, RoleError, ~broken, Reader = "handler"
  PROVE  Left(Writer) /\ Len(got) >= wrote
<1>t. /\ Typed /\ Positions /\ RoleFirst /\ Collecting /\ Carried
      /\ Len(got) <= Len(begun)
  BY DEF IInv, TypeOK, Collecting
<1>0. Writer = "client" /\ Peer("handler") = "client"
  BY TwoEnds
<1>1. /\ pc["handler"] = "role" /\ ~Contains(buffered, LF)
      /\ Gone("handler") /\ flight["client"] = <<>>
  BY <1>0 DEF RoleError, AtEnd
<1>2. Left(Writer) /\ ~Left(Reader)
  BY <1>0, <1>1 DEF Gone, Left
<1>3. partial = <<>> /\ got = <<>>
  BY <1>t, <1>1 DEF RoleFirst
<1>4. buffered \in Seq(Byte) /\ line \in Lines /\ wrote \in Nat
  BY <1>t DEF Typed
<1>5. Used \o Unread = buffered
  <2>1. <<>> \o buffered = buffered /\ buffered \o <<>> = buffered
    BY <1>4, ConcatEmptySeq
  <2>2. Unread = buffered
    BY <1>0, <1>1, <1>3, <2>1 DEF Unread
  <2>3. Used = <<>>
    BY <1>0, <1>1 DEF Used
  <2> QED BY <2>1, <2>2, <2>3
<1>6. ~(wrote > 0)
  <2> SUFFICES ASSUME wrote > 0 PROVE FALSE
    OBVIOUS
  <2> DEFINE v == upto[wrote + 1]
  <2>1. IsPrefix(v, buffered)
    BY <1>t, <1>2, <1>5 DEF Carried
  <2>2. 1 \in 1..Len(upto) /\ wrote + 1 \in 1..Len(upto) /\ 1 <= wrote + 1
    BY <1>t, <1>4, Pieces
  <2>3. v \in Seq(Byte)
    BY <1>t, <2>2, Pieces
  <2>4. IsPrefix(line, v)
    BY <1>t, <2>2 DEF Positions
  <2>5. line \in Seq(Byte) /\ Len(line) \in 1..Len(line) /\ line[Len(line)] = LF
    <3>1. line \in Seq(Byte) /\ line # <<>> /\ \A i \in DOMAIN line : line[i] = LF <=> i = Len(line)
      BY <1>4, ConnectionAssumption
    <3>2. Len(line) \in DOMAIN line
      BY <3>1, EmptySeq
    <3> QED BY <3>1, <3>2
  <2> HIDE DEF v
  <2>6. IsPrefix(line, buffered)
    BY <1>4, <2>1, <2>3, <2>4, <2>5, PrefixTrans
  <2>7. Len(line) \in 1..Len(buffered) /\ buffered[Len(line)] = LF
    BY <1>4, <2>5, <2>6, PrefixItems
  <2> QED BY <1>1, <2>7 DEF Contains
<1>7. Len(got) >= wrote
  BY <1>3, <1>4, <1>6
<1> QED BY <1>2, <1>7

\* How an end comes to be somewhere else.
LEMMA Moves ==
  ASSUME Typed, [Next]_vars, NEW e \in Ends
  PROVE  \/ pc'[e] = pc[e]
         \/ /\ ~Left(e)
            /\ \/ pc'[e] \in {"open", "killed"}
               \/ e = "handler" /\ (RoleError \/ ReadRole)
               \/ WriteError(e) \/ Finish(e) \/ ReadTooLarge(e) \/ ReadError(e)
<1> SUFFICES ASSUME pc'[e] # pc[e]
             PROVE  /\ ~Left(e)
                    /\ \/ pc'[e] \in {"open", "killed"}
                       \/ e = "handler" /\ (RoleError \/ ReadRole)
                       \/ WriteError(e) \/ Finish(e) \/ ReadTooLarge(e) \/ ReadError(e)
  OBVIOUS
<1>1. pc \in [Ends -> {"dialed", "role", "open", "closed", "killed"}]
  BY DEF Typed
<1>2. \/ Identify \/ RoleError \/ ReadRole
      \/ \E f \in Ends : WriteError(f) \/ Finish(f) \/ Kill(f) \/ ReadTooLarge(f) \/ ReadError(f)
  BY DEF Next, ReadStep, vars, Break, Fill, HandlerTakes, ClientTakes, ReadFrame,
     WriteHeader, WriteBody
<1>3. CASE Identify
  BY <1>1, <1>3 DEF Identify, Left
<1>4. CASE ReadRole
  <2>1. pc["handler"] = "role" /\ \E x : pc' = [pc EXCEPT !["handler"] = x]
    BY <1>4 DEF ReadRole, Leave
  <2>2. e = "handler"
    BY <1>1, <2>1
  <2> QED BY <1>4, <2>1, <2>2 DEF Left
<1>5. ASSUME NEW f \in Ends, Quits(f) PROVE e = f /\ ~Left(f)
  BY <1>1, <1>5 DEF Quits, Leave
<1>6. CASE RoleError
  <2>1. e = "handler" /\ ~Left("handler")
    BY <1>5, <1>6, Quitting DEF Ends
  <2> QED BY <1>6, <2>1
<1>7. ASSUME NEW f \in Ends, WriteError(f) \/ Finish(f) \/ ReadTooLarge(f) \/ ReadError(f)
      PROVE  /\ ~Left(e)
             /\ WriteError(e) \/ Finish(e) \/ ReadTooLarge(e) \/ ReadError(e)
  <2>1. e = f /\ ~Left(f)
    BY <1>5, <1>7, Quitting
  <2> QED BY <1>7, <2>1
<1>8. ASSUME NEW f \in Ends, Kill(f) PROVE ~Left(e) /\ pc'[e] = "killed"
  BY <1>1, <1>8 DEF Kill
<1> QED BY <1>2, <1>3, <1>4, <1>6, <1>7, <1>8

\* An end that has left does nothing any more, and the frames stay in order.
LEMMA AfterEnd ==
  ASSUME IInv, [Next]_vars
  PROVE  /\ Left(Writer) => Left(Writer)' /\ wrote' = wrote
         /\ Left(Reader) => got' = got
         /\ \A i \in 1..Len(begun) : i \in 1..Len(begun') /\ begun'[i] = begun[i]
<1>t. /\ Typed /\ Positions /\ Collecting /\ Len(got) <= Len(begun)
  BY DEF IInv, TypeOK, Collecting
<1>1. Writer' = Writer /\ Reader' = Reader /\ Writer \in Ends /\ Reader \in Ends
  BY RoleStays, TwoEnds DEF Ends
<1>2. Left(Writer) => Left(Writer)'
  <2>1. Left(Writer) => pc'[Writer] = pc[Writer]
    BY <1>t, <1>1, Moves
  <2> QED BY <1>1, <2>1 DEF Left
<1>3. \/ wrote' = wrote
      \/ \E e \in Ends : WriteBody(e)
  BY DEF Next, ReadStep, vars, sending, Break, Identify, RoleError, Fill, ReadRole,
     HandlerTakes, ClientTakes, ReadFrame, WriteHeader, WriteError, Finish, Kill,
     ReadTooLarge, ReadError
<1>4. \A e \in Ends : WriteBody(e) => ~Left(Writer)
  BY DEF WriteBody, Left
<1>5. \/ got' = got
      \/ \E e \in Ends : ReadFrame(e)
  BY DEF Next, ReadStep, vars, receiving, Break, Identify, RoleError, Fill, ReadRole,
     HandlerTakes, ClientTakes, WriteBody, WriteHeader, WriteError, Finish, Kill,
     ReadTooLarge, ReadError
<1>6. \A e \in Ends : ReadFrame(e) => ~Left(Reader)
  BY DEF ReadFrame, Wants, Left
<1>7. \/ begun' = begun
      \/ \E e \in Ends, b \in Bodies : WriteHeader(e, b)
  BY DEF Next, ReadStep, vars, sending, Break, Identify, RoleError, Fill, ReadRole,
     HandlerTakes, ClientTakes, ReadFrame, WriteBody, WriteError, Finish, Kill,
     ReadTooLarge, ReadError
<1>8. ASSUME NEW e \in Ends, NEW b \in Bodies, WriteHeader(e, b), NEW i \in 1..Len(begun)
      PROVE  i \in 1..Len(begun') /\ begun'[i] = begun[i]
  <2>1. Len(begun') = Len(begun) + 1 /\ begun'[i] = begun[i] /\ Len(begun) \in Nat
    BY <1>t, <1>8, HeaderWritten, Pieces
  <2> QED BY <2>1
<1> QED BY <1>2, <1>3, <1>4, <1>5, <1>6, <1>7, <1>8

\* However a reader ends, and whatever the writer does then.
LEMMA EndedStep == IInv /\ [Next]_vars => Ended'
<1> SUFFICES ASSUME IInv, [Next]_vars, pc'[Reader'] = "closed", ~broken', KnownRole'
             PROVE  (\/ Left(Writer) /\ Len(got) >= wrote
                     \/ Len(got) < Len(begun) /\ Len(begun[Len(got) + 1]) > MaxFrame)'
  BY DEF Ended
<1>t. /\ Typed /\ Positions /\ RoleFirst /\ Collecting /\ Carried /\ Ended
      /\ Len(got) <= Len(begun)
  BY DEF IInv, TypeOK, Collecting
<1>1. Writer' = Writer /\ Reader' = Reader /\ KnownRole /\ Reader \in Ends
  BY RoleStays, TwoEnds DEF Ends
<1>2. ~broken
  BY DEF Next, ReadStep, vars, Break, Identify, RoleError, Fill, ReadRole,
     HandlerTakes, ClientTakes, ReadFrame, WriteHeader, WriteBody, WriteError, Finish,
     Kill, ReadTooLarge, ReadError
<1>3. Len(got) \in Nat /\ Len(begun) \in Nat /\ wrote \in Nat
  BY <1>t, Pieces
<1>4. CASE pc[Reader] = "closed"
  <2>1. got' = got
    BY <1>4, AfterEnd DEF Left
  <2>2. CASE Left(Writer) /\ Len(got) >= wrote
    BY <2>1, <2>2, AfterEnd
  <2>3. CASE Len(got) < Len(begun) /\ Len(begun[Len(got) + 1]) > MaxFrame
    <3> DEFINE n == Len(got) + 1
    <3>1. n \in 1..Len(begun)
      BY <1>3, <2>3
    <3>2. n \in 1..Len(begun') /\ begun'[n] = begun[n]
      BY <3>1, AfterEnd
    <3>3. Len(got) < Len(begun')
      <4>1. begun' \in Seq(Bodies)
        BY TypedStep DEF Typed
      <4> QED BY <1>3, <3>2, <4>1
    <3> QED BY <2>1, <2>3, <3>2, <3>3
  <2> QED BY <1>t, <1>1, <1>2, <1>4, <2>2, <2>3 DEF Ended
<1>5. CASE pc[Reader] # "closed"
  <2>1. ~Left(Reader) /\ pc'[Reader] = "closed"
        /\ \/ Reader = "handler" /\ (RoleError \/ ReadRole)
           \/ WriteError(Reader) \/ Finish(Reader)
           \/ ReadTooLarge(Reader) \/ ReadError(Reader)
    BY <1>t, <1>1, <1>5, Moves
  <2>2. ~(Reader = "handler" /\ ReadRole)
    <3> SUFFICES ASSUME Reader = "handler", ReadRole PROVE FALSE
      OBVIOUS
    <3>1. Writer = "client"
      BY TwoEnds
    <3>2. pc'["handler"] = "open"
      BY <1>t, <1>1, <3>1, RoleRead
    <3> QED BY <2>1, <3>2
  <2>3. ~Finish(Reader)
    BY TwoEnds DEF Finish
  <2>4. UNCHANGED <<begun, wrote, got>>
    BY <2>1, <2>2, <2>3 DEF RoleError, WriteError, ReadTooLarge, ReadError, sending, receiving
  <2>5. CASE Reader = "handler" /\ RoleError
    <3>1. Left(Writer) /\ Len(got) >= wrote
      BY <1>2, <2>5, EndsBeforeRole
    <3> QED BY <2>4, <3>1, AfterEnd
  <2>6. CASE WriteError(Reader)
    <3>1. pc[Reader] = "dialed" /\ Gone(Reader)
      BY <2>6, TwoEnds DEF WriteError
    <3>2. Reader = "client" /\ Writer = "handler"
      BY <1>t, <3>1, TwoEnds DEF Typed
    <3>3. Left(Writer)
      BY <1>2, <3>1, <3>2, TwoEnds DEF Gone
    <3>4. begun = <<>>
      BY <1>t, <3>1, <3>2 DEF RoleFirst
    <3>5. wrote = 0
      <4>1. Len(begun) \in wrote..(wrote + 1) /\ Len(begun) = 0
        BY <1>t, <3>4 DEF Typed
      <4> QED BY <1>3, <4>1
    <3>6. Len(got) >= wrote
      BY <1>3, <3>5
    <3> QED BY <2>4, <3>3, <3>6, AfterEnd
  <2>7. CASE ReadTooLarge(Reader)
    <3>1. HasHeader /\ Size > MaxFrame
      BY <2>7 DEF ReadTooLarge, TooLarge
    <3>2. Len(got) < Len(begun) /\ Size = Len(begun[Len(got) + 1])
      BY <1>t, <3>1, Collected
    <3> QED BY <2>4, <3>1, <3>2
  <2>8. CASE ReadError(Reader)
    <3>1. Left(Writer) /\ Len(got) >= wrote
      BY <1>1, <1>2, <2>8, EndsInError
    <3> QED BY <2>4, <3>1, AfterEnd
  <2> QED BY <2>1, <2>2, <2>3, <2>5, <2>6, <2>7, <2>8
<1> QED BY <1>4, <1>5

-----------------------------------------------------------------------------
(* The theorems.                                                           *)

\* The parts of the invariant hold together, on every connection.
THEOREM Invariance == Spec => []IInv
<1>1. Init => IInv
  BY ConnectionInit
<1>2. IInv /\ [Next]_vars => IInv'
  BY TypeStep, PositionsStep, RoleFirstStep, CollectingStep, CarriedStep, EndedStep
     DEF IInv
<1> QED BY <1>1, <1>2, PTL DEF Spec

\* ReadFrame never collects more than the frame it is reading, whatever the
\* bytes come in.
THEOREM TypeCorrect == Spec => []TypeOK
<1>1. IInv => TypeOK
  BY DEF IInv
<1> QED BY <1>1, Invariance, PTL

\* A reader that ends by itself on an unbroken connection leaves no written
\* frame behind, neither on its way nor in the bufio.Reader.
THEOREM NothingIsLeftBehind == Spec => []NothingLeftBehind
<1>1. IInv => NothingLeftBehind
  BY DEF IInv, Ended, NothingLeftBehind
<1> QED BY <1>1, Invariance, PTL

\* A step of the connection is a step of the stream, or none.
LEMMA StreamStep == IInv /\ [Next]_vars => [Stream!Next]_(Stream!vars)
<1> SUFFICES ASSUME IInv, [Next]_vars PROVE [Stream!Next]_(Stream!vars)
  OBVIOUS
<1>t. /\ Typed /\ Positions /\ RoleFirst /\ Collecting /\ Len(got) <= Len(begun)
  BY DEF IInv, TypeOK, Collecting
<1>1. Writer' = Writer /\ Reader' = Reader /\ Reader \in Ends /\ Writer # Reader
  BY RoleStays, TwoEnds DEF Ends
<1>2. ASSUME NEW e \in Ends, NEW b \in Bodies, WriteHeader(e, b) PROVE Stream!Write(b)
  <2>1. begun' = Append(begun, b) /\ got' = got /\ pc' = pc
    BY <1>2 DEF WriteHeader, receiving
  <2>2. Left(Reader)' = Left(Reader)
    BY <1>1, <2>1 DEF Left
  <2> QED BY <2>1, <2>2 DEF Stream!Write
<1>3. ASSUME NEW e \in Ends, ReadFrame(e) PROVE Stream!Read
  <2> DEFINE b == begun[Len(got) + 1]
  <2>1. /\ pc[e] = "open" /\ e = Reader /\ ~TooLarge /\ Complete
        /\ got' = Append(got, SubSeq(partial, HeaderLen + 1, Len(partial)))
        /\ begun' = begun /\ pc' = pc
    BY <1>3 DEF ReadFrame, Wants, sending
  <2>2. /\ Len(got) < Len(begun) /\ Size = Len(b) /\ b \in Bodies
        /\ SubSeq(partial, HeaderLen + 1, Len(partial)) = b
    BY <1>t, <2>1, Returned
  <2>3. Len(b) <= MaxFrame
    <3>1. ~(Size > MaxFrame)
      BY <2>1 DEF TooLarge, Complete
    <3>2. MaxFrame \in Nat /\ Len(b) \in Nat
      BY <2>2, ConnectionAssumption
    <3> QED BY <2>2, <3>1, <3>2
  <2>4. Left(Reader)' = Left(Reader) /\ ~Left(Reader)
    BY <1>1, <2>1 DEF Left
  <2> QED BY <2>1, <2>2, <2>3, <2>4 DEF Stream!Read
<1>4. ASSUME UNCHANGED <<begun, got>> PROVE [Stream!Next]_(Stream!vars)
  <2>1. Left(Reader) => Left(Reader)'
    <3>1. Left(Reader) => pc'[Reader] = pc[Reader]
      BY <1>t, <1>1, Moves
    <3> QED BY <1>1, <3>1 DEF Left
  <2>2. CASE ~Left(Reader) /\ Left(Reader)'
    <3>1. Stream!End
      BY <1>4, <2>2, Zenon DEF Stream!End, Left
    <3> QED BY <3>1 DEF Stream!Next
  <2>3. CASE Left(Reader)' <=> Left(Reader)
    <3>1. Left(Reader)' = Left(Reader)
      BY <2>3 DEF Left
    <3> QED BY <1>4, <3>1 DEF Stream!vars
  <2> QED BY <2>1, <2>2, <2>3
<1>5. \/ UNCHANGED <<begun, got>>
      \/ \E e \in Ends : ReadFrame(e) \/ \E b \in Bodies : WriteHeader(e, b)
  BY DEF Next, ReadStep, vars, sending, receiving, Break, Identify, RoleError, Fill,
     ReadRole, HandlerTakes, ClientTakes, WriteBody, WriteError, Finish, Kill,
     ReadTooLarge, ReadError
<1> QED BY <1>2, <1>3, <1>4, <1>5 DEF Stream!Next

\* Whatever TCP does to the bytes, the connection is a FrameStream.
THEOREM ConnectionIsFrameStream == Spec => ImplementsFrameStream
<1>1. Init => Stream!Init
  <2> SUFFICES ASSUME Init PROVE Stream!Init
    OBVIOUS
  <2>1. pc["client"] = "dialed" /\ pc["handler"] = "role" /\ begun = <<>> /\ got = <<>>
    BY DEF Init
  <2>2. ~Left(Reader)
    BY <2>1, TwoEnds DEF Left
  <2> QED BY <2>1, <2>2 DEF Stream!Init, Left
<1>2. IInv /\ [Next]_vars => [Stream!Next]_(Stream!vars)
  BY StreamStep
<1> QED BY <1>1, <1>2, Invariance, PTL DEF Spec, ImplementsFrameStream, Stream!Spec

\* Whatever pieces TCP makes of the bytes and wherever the connection breaks,
\* the frames ReadFrame has returned are the first ones WriteFrame was called
\* with, each whole and none above the limit.
FirstFramesWhole ==
  /\ Len(got) <= Len(begun)
  /\ \A i \in DOMAIN got : got[i] = begun[i] /\ Len(got[i]) <= MaxFrame

\* It holds of every FrameStream, and so of the connection.
THEOREM FramesReadAreFramesWritten == Spec => []FirstFramesWhole
<1> USE DEF FirstFramesWhole
<1>1. Init => FirstFramesWhole
  BY DEF Init
<1>2. IInv /\ FirstFramesWhole /\ [Next]_vars => FirstFramesWhole'
  <2> SUFFICES ASSUME IInv, FirstFramesWhole, [Next]_vars PROVE FirstFramesWhole'
    OBVIOUS
  <2>1. got \in Seq(Bodies) /\ begun \in Seq(Bodies)
    BY DEF IInv, TypeOK, Typed
  <2>2. CASE Stream!Read
    <3> DEFINE b == begun[Len(got) + 1]
    <3>1. /\ got' = Append(got, b) /\ begun' = begun
          /\ Len(got) < Len(begun) /\ Len(b) <= MaxFrame
      BY <2>2 DEF Stream!Read
    <3>2. /\ Len(got') = Len(got) + 1 /\ DOMAIN got' = 1..(Len(got) + 1)
          /\ got'[Len(got) + 1] = b
          /\ \A i \in 1..Len(got) : got'[i] = got[i]
      BY <2>1, <3>1
    <3> HIDE DEF b
    <3> QED BY <2>1, <3>1, <3>2 DEF b
  <2>3. CASE \E b \in Bodies : Stream!Write(b)
    <3>1. PICK b \in Bodies : begun' = Append(begun, b) /\ got' = got
      BY <2>3 DEF Stream!Write
    <3>2. Len(begun') = Len(begun) + 1 /\ \A i \in 1..Len(begun) : begun'[i] = begun[i]
      BY <2>1, <3>1
    <3> QED BY <2>1, <3>1, <3>2
  <2>4. CASE Stream!End \/ UNCHANGED Stream!vars
    <3>1. got' = got /\ begun' = begun
      BY <2>4 DEF Stream!End, Stream!vars
    <3> QED BY <3>1
  <2>5. [Stream!Next]_(Stream!vars)
    BY StreamStep
  <2> QED BY <2>2, <2>3, <2>4, <2>5 DEF Stream!Next
<1> HIDE DEF FirstFramesWhole
<1> QED BY <1>1, <1>2, Invariance, PTL DEF Spec

=============================================================================
