------------------------------ MODULE RowProofs ------------------------------
(***************************************************************************)
(* Theorems about RowTransform, for records of any length with any columns *)
(* and any texts.                                                          *)
(***************************************************************************)
EXTENDS RowTransform, Induction, FiniteSetTheorems, TLAPS

-----------------------------------------------------------------------------
(* ParseLabels: its loop over the characters, turn by turn, against what   *)
(* the text says.                                                          *)

\* The state of the scan after any number of characters.
ScanState ==
  [parts : Seq(Seq(Char)), current : Seq(Char), inQuotes : BOOLEAN, escaped : BOOLEAN]

\* Every turn of the loop over the characters leaves a state of that type.
LEMMA ScanType ==
  ASSUME NEW st \in ScanState, NEW ch \in Char
  PROVE  Scan(st, ch) \in ScanState
<1>1. /\ st.parts \in Seq(Seq(Char)) /\ st.current \in Seq(Char)
      /\ st.inQuotes \in BOOLEAN /\ st.escaped \in BOOLEAN
  BY DEF ScanState
<1>2. <<>> \in Seq(Char) /\ Append(st.current, ch) \in Seq(Char)
  BY <1>1
<1>3. Append(st.parts, st.current) \in Seq(Seq(Char))
  BY <1>1
<1> QED BY <1>1, <1>2, <1>3 DEF Scan, ScanState, TogglesQuotes

\* The loop over the characters turn by turn: each state is what the turn
\* makes of the one before.
LEMMA ScannedStep ==
  ASSUME NEW s \in Seq(Char)
  PROVE  /\ Scanned(s) \in [0..Len(s) -> ScanState]
         /\ Scanned(s)[0] = Start
         /\ \A n \in 1..Len(s) : Scanned(s)[n] = Scan(Scanned(s)[n - 1], s[n])
<1>0. PICK m \in Nat : m = Len(s)
  OBVIOUS
<1> DEFINE step == [x \in ScanState \X (1..m) |-> Scan(x[1], s[x[2]])]
<1>1. m \in Nat /\ \A n \in 1..m : s[n] \in Char
  BY <1>0
<1>2. Start \in ScanState
  BY DEF Start, ScanState
<1>3. step \in [ScanState \X (1..m) -> ScanState]
  BY <1>1, ScanType
<1>5. \A st \in ScanState, n \in 1..m : step[<<st, n>>] = Scan(st, s[n])
  OBVIOUS
<1> HIDE DEF step
<1>r. PICK f : IsRun(f, ScanState, Start, m, step)
  BY <1>2, <1>3, Recursion
<1>4. /\ f \in [0..m -> ScanState]
      /\ f[0] = Start
      /\ \A n \in 1..m : f[n] = step[<<f[n - 1], n>>]
  BY <1>r DEF IsRun
<1>6. ASSUME NEW n \in 0..m
      PROVE  f[n] = IF n = 0 THEN Start ELSE Scan(f[n - 1], s[n])
  <2>1. CASE n = 0
    BY <1>4, <2>1
  <2>2. CASE n # 0
    <3>1. n \in 1..m /\ n - 1 \in 0..m
      BY <1>1, <2>2
    <3>2. f[n - 1] \in ScanState
      BY <1>4, <3>1
    <3> QED BY <1>4, <1>5, <2>2, <3>1, <3>2
  <2> QED BY <2>1, <2>2
<1>7. f = [n \in 0..m |-> IF n = 0 THEN Start ELSE Scan(f[n - 1], s[n])]
  BY <1>4, <1>6
<1> DEFINE g == Scanned(s)
<1>8. g = [n \in 0..m |-> IF n = 0 THEN Start ELSE Scan(g[n - 1], s[n])]
  BY <1>0, <1>7 DEF Scanned
<1> HIDE DEF g
<1>9. /\ g[0] = Start
      /\ \A n \in 1..m : g[n] = Scan(g[n - 1], s[n])
  BY <1>1, <1>8
<1>10. \A n \in 0..m : g[n] \in ScanState
  <2> DEFINE S == {n \in 0..m : g[n] \in ScanState}
  <2>1. 0 \in S
    BY <1>1, <1>2, <1>9
  <2>2. ASSUME NEW n \in 1..m, n - 1 \in S PROVE n \in S
    <3>1. g[n - 1] \in ScanState /\ n \in 0..m
      BY <2>2
    <3>2. Scan(g[n - 1], s[n]) \in ScanState
      BY <1>1, <3>1, ScanType
    <3> QED BY <1>9, <3>1, <3>2
  <2> HIDE DEF S
  <2>3. \A n \in 0..m : n \in S
    BY <1>1, <2>1, <2>2, UpTo
  <2> QED BY <2>3 DEF S
<1>11. g \in [0..m -> ScanState]
  <2>1. DOMAIN g = 0..m /\ g = [n \in 0..m |-> g[n]]
    BY <1>8
  <2> QED BY <2>1, <1>10
<1> QED BY <1>0, <1>9, <1>11 DEF g

\* A character is escaped exactly when the one before it is a backslash that
\* is not escaped itself.
LEMMA EscapedStep ==
  ASSUME NEW s
  PROVE  /\ ~ Escaped(s, 1)
         /\ \A i \in Nat \ {0} :
              Escaped(s, i + 1) <=> s[i] = BACKSLASH /\ ~ Escaped(s, i)
<1> DEFINE Slashes(i) == {j \in 1..(i - 1) : \A k \in j..(i - 1) : s[k] = BACKSLASH}
<1>e. \A i : Escaped(s, i) <=> Cardinality(Slashes(i)) % 2 = 1
  BY DEF Escaped
<1>f. ASSUME NEW i \in Nat \ {0}
      PROVE  IsFiniteSet(Slashes(i)) /\ Cardinality(Slashes(i)) \in Nat
  <2>1. IsFiniteSet(1..(i - 1)) /\ Slashes(i) \in SUBSET (1..(i - 1))
    BY FS_Interval
  <2> HIDE DEF Slashes
  <2> QED BY <2>1, FS_Subset, FS_CardinalityType
<1>1. Slashes(1) = {}
  OBVIOUS
<1>2. ASSUME NEW i \in Nat \ {0}
      PROVE  Slashes(i + 1) = IF s[i] = BACKSLASH THEN Slashes(i) \cup {i} ELSE {}
  <2>1. CASE s[i] = BACKSLASH
    <3>1. \A j \in 1..i : j \in Slashes(i + 1) <=> j \in Slashes(i) \/ j = i
      BY <2>1
    <3> QED BY <2>1, <3>1
  <2>2. CASE s[i] # BACKSLASH
    BY <2>2
  <2> QED BY <2>1, <2>2
<1>3. \A i \in Nat \ {0} : i \notin Slashes(i)
  OBVIOUS
<1> HIDE DEF Slashes
<1>4. ~ Escaped(s, 1)
  BY <1>e, <1>1, FS_EmptySet
<1>5. ASSUME NEW i \in Nat \ {0}
      PROVE  Escaped(s, i + 1) <=> s[i] = BACKSLASH /\ ~ Escaped(s, i)
  <2>1. CASE s[i] = BACKSLASH
    <3>1. Slashes(i + 1) = Slashes(i) \cup {i}
      BY <1>2, <2>1
    <3>2. Cardinality(Slashes(i) \cup {i}) = Cardinality(Slashes(i)) + 1
      BY <1>f, <1>3, FS_AddElement
    <3>3. \A c \in Nat : (c + 1) % 2 = 1 <=> ~ (c % 2 = 1)
      OBVIOUS
    <3>4. (Cardinality(Slashes(i)) + 1) % 2 = 1 <=> ~ (Cardinality(Slashes(i)) % 2 = 1)
      BY <1>f, <3>3
    <3> QED BY <1>e, <2>1, <3>1, <3>2, <3>4
  <2>2. CASE s[i] # BACKSLASH
    <3>1. Slashes(i + 1) = {}
      BY <1>2, <2>2
    <3>2. Cardinality(Slashes(i + 1)) = 0
      BY <3>1, FS_EmptySet
    <3> QED BY <1>e, <2>2, <3>2
  <2> QED BY <2>1, <2>2
<1> QED BY <1>4, <1>5

\* Each unescaped quote counts for the characters behind it.
LEMMA QuotesStep ==
  ASSUME NEW s
  PROVE  /\ QuotesBefore(s, 1) = 0
         /\ \A i \in Nat \ {0} :
              /\ QuotesBefore(s, i) \in Nat
              /\ QuotesBefore(s, i + 1) =
                   IF s[i] = QUOTE /\ ~ Escaped(s, i)
                   THEN QuotesBefore(s, i) + 1 ELSE QuotesBefore(s, i)
<1> DEFINE Q(i) == {j \in 1..(i - 1) : s[j] = QUOTE /\ ~ Escaped(s, j)}
<1>q. \A i : QuotesBefore(s, i) = Cardinality(Q(i))
  BY DEF QuotesBefore
<1>f. ASSUME NEW i \in Nat \ {0}
      PROVE  IsFiniteSet(Q(i)) /\ Cardinality(Q(i)) \in Nat
  <2>1. IsFiniteSet(1..(i - 1)) /\ Q(i) \in SUBSET (1..(i - 1))
    BY FS_Interval
  <2> HIDE DEF Q
  <2> QED BY <2>1, FS_Subset, FS_CardinalityType
<1>1. Q(1) = {}
  OBVIOUS
<1>2. \A i \in Nat \ {0} :
        /\ Q(i + 1) = IF s[i] = QUOTE /\ ~ Escaped(s, i) THEN Q(i) \cup {i} ELSE Q(i)
        /\ i \notin Q(i)
  OBVIOUS
<1> HIDE DEF Q
<1>3. QuotesBefore(s, 1) = 0
  BY <1>q, <1>1, FS_EmptySet
<1>4. ASSUME NEW i \in Nat \ {0}
      PROVE  Cardinality(Q(i + 1)) = IF s[i] = QUOTE /\ ~ Escaped(s, i)
                                     THEN Cardinality(Q(i)) + 1 ELSE Cardinality(Q(i))
  BY <1>f, <1>2, FS_AddElement
<1> QED BY <1>q, <1>f, <1>3, <1>4

\* The two flags of the loop say what they are meant to say of the character
\* that comes next.
LEMMA FlagsRight ==
  ASSUME NEW s \in Seq(Char), NEW n \in 0..Len(s)
  PROVE  /\ Scanned(s)[n].escaped <=> Escaped(s, n + 1)
         /\ Scanned(s)[n].inQuotes <=> QuotesBefore(s, n + 1) % 2 = 1
<1>0. PICK m \in Nat : m = Len(s)
  OBVIOUS
<1> DEFINE g == Scanned(s)
           S == {k \in 0..m : /\ g[k].escaped <=> Escaped(s, k + 1)
                              /\ g[k].inQuotes <=> QuotesBefore(s, k + 1) % 2 = 1}
<1>1. /\ g \in [0..m -> ScanState]
      /\ g[0] = Start
      /\ \A k \in 1..m : g[k] = Scan(g[k - 1], s[k])
  BY <1>0, ScannedStep
<1> HIDE DEF g
<1>2. 0 \in S
  <2>1. ~ g[0].escaped /\ ~ g[0].inQuotes
    BY <1>1 DEF Start
  <2>2. ~ Escaped(s, 1) /\ QuotesBefore(s, 1) = 0
    BY EscapedStep, QuotesStep
  <2>3. 0 \in 0..m /\ 0 + 1 = 1 /\ 0 % 2 # 1
    OBVIOUS
  <2> QED BY <2>1, <2>2, <2>3
<1>3. ASSUME NEW k \in 1..m, k - 1 \in S PROVE k \in S
  <2> DEFINE st == g[k - 1]
  <2>1. /\ st.escaped <=> Escaped(s, k)
        /\ st.inQuotes <=> QuotesBefore(s, k) % 2 = 1
    BY <1>3
  <2>2. st.inQuotes \in BOOLEAN
    <3>1. k - 1 \in 0..m
      OBVIOUS
    <3>2. st \in ScanState
      BY <1>1, <3>1
    <3> HIDE DEF st
    <3> QED BY <3>2 DEF ScanState
  <2>3. /\ g[k].escaped = (s[k] = BACKSLASH /\ ~ st.escaped)
        /\ g[k].inQuotes = IF s[k] = QUOTE /\ ~ st.escaped THEN ~ st.inQuotes ELSE st.inQuotes
    BY <1>1 DEF Scan, TogglesQuotes
  <2>4. /\ Escaped(s, k + 1) <=> s[k] = BACKSLASH /\ ~ Escaped(s, k)
        /\ QuotesBefore(s, k) \in Nat
        /\ QuotesBefore(s, k + 1) = IF s[k] = QUOTE /\ ~ Escaped(s, k)
                                    THEN QuotesBefore(s, k) + 1 ELSE QuotesBefore(s, k)
    <3>1. k \in Nat \ {0}
      OBVIOUS
    <3>2. Escaped(s, k + 1) <=> s[k] = BACKSLASH /\ ~ Escaped(s, k)
      BY <3>1, EscapedStep
    <3> QED BY <3>1, <3>2, QuotesStep
  <2>5. \A c \in Nat : (c + 1) % 2 = 1 <=> ~ (c % 2 = 1)
    OBVIOUS
  <2> HIDE DEF st
  <2>6. g[k].escaped <=> Escaped(s, k + 1)
    BY <2>1, <2>3, <2>4
  <2>7. g[k].inQuotes <=> QuotesBefore(s, k + 1) % 2 = 1
    <3>1. CASE s[k] = QUOTE /\ ~ Escaped(s, k)
      BY <2>1, <2>2, <2>3, <2>4, <2>5, <3>1
    <3>2. CASE ~ (s[k] = QUOTE /\ ~ Escaped(s, k))
      BY <2>1, <2>2, <2>3, <2>4, <3>2
    <3> QED BY <3>1, <3>2
  <2> QED BY <2>6, <2>7
<1> HIDE DEF S
<1>4. n \in S
  BY <1>0, <1>2, <1>3, UpTo
<1> QED BY <1>4 DEF S, g

\* The loop ends a part exactly at the separators of the text.
LEMMA EndsAtSeparators ==
  ASSUME NEW s \in Seq(Char), NEW n \in 1..Len(s)
  PROVE  EndsPart(Scanned(s)[n - 1], s[n]) <=> n \in Separators(s)
<1>1. n - 1 \in 0..Len(s) /\ (n - 1) + 1 = n /\ n \in DOMAIN s
  OBVIOUS
<1>2. /\ Scanned(s)[n - 1].escaped <=> Escaped(s, n)
      /\ Scanned(s)[n - 1].inQuotes <=> QuotesBefore(s, n) % 2 = 1
  BY <1>1, FlagsRight
<1>3. QuotesBefore(s, n) \in Nat
  BY QuotesStep
<1>4. ~ (QuotesBefore(s, n) % 2 = 1) <=> QuotesBefore(s, n) % 2 = 0
  BY <1>3
<1> QED BY <1>1, <1>2, <1>4 DEF EndsPart, Separators

\* The loop over the parts of a text turn by turn.
LEMMA CollectedStep ==
  ASSUME NEW T, NEW parts \in Seq(T)
  PROVE  /\ DOMAIN Collected(parts) = 0..Len(parts)
         /\ Collected(parts)[0] = None
         /\ \A n \in 1..Len(parts) :
              Collected(parts)[n] = AddLabel(Collected(parts)[n - 1], parts[n])
<1>0. PICK m \in Nat : m = Len(parts)
  OBVIOUS
<1> DEFINE K == {LabelKey(parts[n]) : n \in 1..m}
           V == {LabelValue(parts[n]) : n \in 1..m}
           S == UNION {[D -> V] : D \in SUBSET K}
           step == [x \in S \X (1..m) |-> AddLabel(x[1], parts[x[2]])]
<1>1. None \in S
  <2>1. None \in [{} -> V] /\ {} \in SUBSET K
    BY DEF None
  <2> QED BY <2>1
<1>2. ASSUME NEW l \in S, NEW n \in 1..m PROVE AddLabel(l, parts[n]) \in S
  <2>1. PICK D \in SUBSET K : l \in [D -> V]
    OBVIOUS
  <2> DEFINE k == LabelKey(parts[n])
             v == LabelValue(parts[n])
  <2>2. k \in K /\ v \in V
    OBVIOUS
  <2> HIDE DEF k, v, K, V
  <2> DEFINE more == [key \in DOMAIN l \cup {k} |-> IF key = k THEN v ELSE l[key]]
  <2>3. more \in [D \cup {k} -> V]
    BY <2>1, <2>2
  <2>4. D \cup {k} \in SUBSET K
    BY <2>2
  <2>5. more \in S
    BY <2>3, <2>4
  <2> QED BY <2>5 DEF AddLabel, k, v
<1>3. step \in [S \X (1..m) -> S]
  <2> HIDE DEF S
  <2> QED BY <1>2
<1> HIDE DEF S
<1>4. \A l \in S, n \in 1..m : step[<<l, n>>] = AddLabel(l, parts[n])
  OBVIOUS
<1> HIDE DEF step
<1>5. PICK f : IsRun(f, S, None, m, step)
  BY <1>1, <1>3, Recursion
<1>6. /\ f \in [0..m -> S]
      /\ f[0] = None
      /\ \A n \in 1..m : f[n] = step[<<f[n - 1], n>>]
  BY <1>5 DEF IsRun
<1>7. ASSUME NEW n \in 0..m
      PROVE  f[n] = IF n = 0 THEN None ELSE AddLabel(f[n - 1], parts[n])
  <2>1. CASE n = 0
    BY <1>6, <2>1
  <2>2. CASE n # 0
    <3>1. n \in 1..m /\ n - 1 \in 0..m
      BY <1>0, <2>2
    <3>2. f[n - 1] \in S
      BY <1>6, <3>1
    <3> QED BY <1>4, <1>6, <2>2, <3>1, <3>2
  <2> QED BY <2>1, <2>2
<1>8. f = [n \in 0..m |-> IF n = 0 THEN None ELSE AddLabel(f[n - 1], parts[n])]
  BY <1>6, <1>7
<1> DEFINE g == Collected(parts)
<1>9. g = [n \in 0..m |-> IF n = 0 THEN None ELSE AddLabel(g[n - 1], parts[n])]
  BY <1>0, <1>8 DEF Collected
<1> HIDE DEF g
<1>10. /\ DOMAIN g = 0..m
       /\ g[0] = None
       /\ \A n \in 1..m : g[n] = AddLabel(g[n - 1], parts[n])
  BY <1>9
<1> QED BY <1>0, <1>10 DEF g

\* The labels of some parts.
Labelled(parts) == Collected(parts)[Len(parts)]

\* No part has no label, and one part more is one turn more.
LEMMA LabelledStep ==
  /\ Labelled(<<>>) = None
  /\ \A T : \A parts \in Seq(T), p \in T :
       Labelled(Append(parts, p)) = AddLabel(Labelled(parts), p)
<1>1. Labelled(<<>>) = None
  <2>1. <<>> \in Seq({}) /\ Len(<<>>) = 0
    OBVIOUS
  <2> QED BY <2>1, CollectedStep DEF Labelled
<1>2. ASSUME NEW T, NEW parts \in Seq(T), NEW p \in T
      PROVE  Labelled(Append(parts, p)) = AddLabel(Labelled(parts), p)
  <2>0. PICK m \in Nat : m = Len(parts)
    OBVIOUS
  <2> DEFINE more == Append(parts, p)
             f == Collected(parts)
             g == Collected(more)
             S == {n \in 0..m : f[n] = g[n]}
  <2>1. /\ more \in Seq(T) /\ Len(more) = m + 1
        /\ more[m + 1] = p
        /\ \A n \in 1..m : more[n] = parts[n]
    BY <2>0
  <2> HIDE DEF more
  <2>2. /\ f[0] = None
        /\ \A n \in 1..m : f[n] = AddLabel(f[n - 1], parts[n])
    BY <2>0, CollectedStep
  <2>3. /\ g[0] = None
        /\ \A n \in 1..(m + 1) : g[n] = AddLabel(g[n - 1], more[n])
    BY <2>1, CollectedStep
  <2> HIDE DEF f, g
  <2>4. 0 \in S
    BY <2>2, <2>3
  <2>5. ASSUME NEW n \in 1..m, n - 1 \in S PROVE n \in S
    <3>1. f[n - 1] = g[n - 1] /\ more[n] = parts[n]
      BY <2>1, <2>5
    <3>2. n \in 1..(m + 1)
      OBVIOUS
    <3>3. f[n] = g[n]
      BY <2>2, <2>3, <3>1, <3>2
    <3> QED BY <3>3
  <2> HIDE DEF S
  <2>6. \A n \in 0..m : n \in S
    BY <2>4, <2>5, UpTo
  <2>7. f[m] = g[m]
    <3>1. m \in 0..m
      OBVIOUS
    <3> QED BY <2>6, <3>1 DEF S
  <2>8. g[m + 1] = AddLabel(g[m], p)
    <3>1. m + 1 \in 1..(m + 1) /\ (m + 1) - 1 = m
      OBVIOUS
    <3> QED BY <2>1, <2>3, <3>1
  <2> QED BY <2>0, <2>1, <2>7, <2>8 DEF Labelled, f, g, more
<1> QED BY <1>1, <1>2

\* What ParseLabels promises of the parts that start behind the positions in
\* A: their pairs, and the last one of each key.
LastOfEachKey(labels, part, A) ==
  LET Starts == {a \in A : IsPair(part[a])} IN
  /\ DOMAIN labels = {LabelKey(part[a]) : a \in Starts}
  /\ \A a \in Starts :
       (\A b \in Starts : LabelKey(part[b]) = LabelKey(part[a]) => b <= a)
         => labels[LabelKey(part[a])] = LabelValue(part[a])

\* One part more, behind all the others.
LEMMA LastPartWins ==
  ASSUME NEW labels, NEW part, NEW A \in SUBSET Nat, NEW c \in Nat,
         \A a \in A : a < c,
         LastOfEachKey(labels, part, A)
  PROVE  LastOfEachKey(AddLabel(labels, part[c]), part, A \cup {c})
<1> DEFINE Starts == {a \in A : IsPair(part[a])}
           after == {a \in A \cup {c} : IsPair(part[a])}
           k == LabelKey(part[c])
           more == AddLabel(labels, part[c])
<1>1. /\ DOMAIN labels = {LabelKey(part[a]) : a \in Starts}
      /\ \A a \in Starts :
           (\A b \in Starts : LabelKey(part[b]) = LabelKey(part[a]) => b <= a)
             => labels[LabelKey(part[a])] = LabelValue(part[a])
  BY DEF LastOfEachKey
<1>2. CASE ~ IsPair(part[c])
  <2>1. after = Starts /\ more = labels
    BY <1>2 DEF AddLabel
  <2> QED BY <1>1, <2>1 DEF LastOfEachKey
<1>3. CASE IsPair(part[c])
  <2>1. after = Starts \cup {c} /\ c \notin Starts
    BY <1>3
  <2>2. more = [key \in DOMAIN labels \cup {k} |->
                  IF key = k THEN LabelValue(part[c]) ELSE labels[key]]
    BY <1>3 DEF AddLabel
  <2>s. Starts \in SUBSET Nat /\ \A a \in Starts : a < c
    OBVIOUS
  <2> HIDE DEF more, Starts, after
  <2>3. DOMAIN more = {LabelKey(part[a]) : a \in after}
    BY <1>1, <2>1, <2>2
  <2>4. ASSUME NEW a \in after,
               \A b \in after : LabelKey(part[b]) = LabelKey(part[a]) => b <= a
        PROVE  more[LabelKey(part[a])] = LabelValue(part[a])
    <3>1. CASE a = c
      BY <2>2, <3>1
    <3>2. CASE a # c
      <4>1. a \in Starts /\ ~ (c <= a)
        BY <2>1, <2>s, <3>2
      <4>2. LabelKey(part[a]) # k
        BY <2>1, <2>4, <4>1
      <4>3. \A b \in Starts : LabelKey(part[b]) = LabelKey(part[a]) => b <= a
        BY <2>1, <2>4
      <4>4. LabelKey(part[a]) \in DOMAIN labels
        BY <1>1, <4>1
      <4>5. more[LabelKey(part[a])] = labels[LabelKey(part[a])]
        BY <2>2, <4>2, <4>4
      <4> QED BY <1>1, <4>1, <4>3, <4>5
    <3> QED BY <3>1, <3>2
  <2> QED BY <2>3, <2>4 DEF LastOfEachKey, more, after
<1> QED BY <1>2, <1>3

\* Where parts start, and the part behind each start: up to the next
\* separator.
Cuts(s) == Separators(s) \cup {0}
PartOf(s) ==
  [a \in Cuts(s) |->
     SubSeq(s, a + 1, Min({b \in Separators(s) \cup {Len(s) + 1} : b > a}) - 1)]

\* A part ends before the first separator behind its start, and the last one
\* with the text.
LEMMA PartUpTo ==
  ASSUME NEW s \in Seq(Char), NEW c \in Cuts(s),
         NEW n \in Separators(s) \cup {Len(s) + 1}, c < n,
         \A b \in Separators(s) : b < n => b <= c
  PROVE  PartOf(s)[c] = SubSeq(s, c + 1, n - 1)
<1> DEFINE B == {b \in Separators(s) \cup {Len(s) + 1} : b > c}
<1>1. Separators(s) \in SUBSET (1..Len(s)) /\ c \in Nat
  <2>1. DOMAIN s = 1..Len(s)
    OBVIOUS
  <2>2. Separators(s) \in SUBSET (DOMAIN s)
    BY DEF Separators
  <2> QED BY <2>1, <2>2 DEF Cuts
<1>2. B \in SUBSET Nat /\ n \in B
  BY <1>1
<1>3. \A b \in B : n <= b
  BY <1>1
<1> HIDE DEF B
<1>4. \A x \in B : (\A b \in B : x <= b) => x = n
  BY <1>2, <1>3
<1>5. Min(B) = n
  BY <1>2, <1>3, <1>4 DEF Min
<1> QED BY <1>5 DEF PartOf, B

\* After n characters the loop is in the part behind the last separator so
\* far, and has the labels of the parts before it.
LEMMA PartsRight ==
  ASSUME NEW s \in Seq(Char), NEW n \in 0..Len(s)
  PROVE  \E c \in Cuts(s) :
           /\ c <= n
           /\ \A b \in Separators(s) : b <= n => b <= c
           /\ Scanned(s)[n].current = SubSeq(s, c + 1, n)
           /\ LastOfEachKey(Labelled(Scanned(s)[n].parts), PartOf(s),
                            {a \in Cuts(s) : a < c})
<1>0. PICK m \in Nat : m = Len(s)
  OBVIOUS
<1> DEFINE g == Scanned(s)
           Right(k, c) == /\ c <= k
                          /\ \A b \in Separators(s) : b <= k => b <= c
                          /\ g[k].current = SubSeq(s, c + 1, k)
                          /\ LastOfEachKey(Labelled(g[k].parts), PartOf(s),
                                           {a \in Cuts(s) : a < c})
           S == {k \in 0..m : \E c \in Cuts(s) : Right(k, c)}
<1>1. /\ g \in [0..m -> ScanState]
      /\ g[0] = Start
      /\ \A k \in 1..m : g[k] = Scan(g[k - 1], s[k])
  BY <1>0, ScannedStep
<1>2. \A k \in 1..m : EndsPart(g[k - 1], s[k]) <=> k \in Separators(s)
  BY <1>0, EndsAtSeparators
<1>3. Separators(s) \in SUBSET (1..m)
  <2>1. DOMAIN s = 1..m
    BY <1>0
  <2> QED BY <2>1 DEF Separators
<1> HIDE DEF g
<1>4. 0 \in S
  <2>1. g[0].current = <<>> /\ g[0].parts = <<>>
    BY <1>1 DEF Start
  <2>2. {a \in Cuts(s) : a < 0} = {}
    BY <1>3 DEF Cuts
  <2>3. LastOfEachKey(None, PartOf(s), {})
    BY DEF LastOfEachKey, None
  <2>4. LastOfEachKey(Labelled(g[0].parts), PartOf(s), {a \in Cuts(s) : a < 0})
    BY <2>1, <2>2, <2>3, LabelledStep
  <2>5. SubSeq(s, 0 + 1, 0) = <<>>
    OBVIOUS
  <2>6. \A b \in Separators(s) : b <= 0 => b <= 0
    OBVIOUS
  <2>7. Right(0, 0)
    BY <2>1, <2>4, <2>5, <2>6
  <2>8. 0 \in Cuts(s) /\ 0 \in 0..m
    BY DEF Cuts
  <2> HIDE DEF Right
  <2> QED BY <2>7, <2>8
<1>5. ASSUME NEW k \in 1..m, k - 1 \in S PROVE k \in S
  <2> DEFINE st == g[k - 1]
  <2>1. PICK c \in Cuts(s) : Right(k - 1, c)
    BY <1>5
  <2>2. c \in Nat /\ c < k
    BY <1>3, <2>1 DEF Cuts
  <2>3. /\ st.parts \in Seq(Seq(Char))
        /\ st.current \in Seq(Char)
        /\ s[k] \in Char
    <3>1. k - 1 \in 0..m
      OBVIOUS
    <3>2. st \in ScanState
      BY <1>1, <3>1
    <3> QED BY <1>0, <3>2 DEF ScanState
  <2>4. st.current = SubSeq(s, c + 1, k - 1)
    BY <2>1
  <2>5. \A b \in Separators(s) : b < k => b <= c
    BY <1>3, <2>1
  <2>6. LastOfEachKey(Labelled(st.parts), PartOf(s), {a \in Cuts(s) : a < c})
    BY <2>1
  <2>7. g[k] = Scan(st, s[k])
    BY <1>1
  <2> HIDE DEF st
  <2>8. CASE k \in Separators(s)
    <3>1. g[k].parts = Append(st.parts, st.current) /\ g[k].current = <<>>
      <4>1. EndsPart(st, s[k])
        BY <1>2, <2>8 DEF st
      <4> QED BY <2>7, <4>1 DEF Scan
    <3>2. PartOf(s)[c] = st.current
      BY <2>2, <2>4, <2>5, <2>8, PartUpTo
    <3>3. Labelled(g[k].parts) = AddLabel(Labelled(st.parts), PartOf(s)[c])
      BY <2>3, <3>1, <3>2, LabelledStep
    <3> DEFINE A == {a \in Cuts(s) : a < c}
    <3>4. {a \in Cuts(s) : a < k} = A \cup {c}
      BY <1>3, <2>2, <2>5 DEF Cuts
    <3>5. A \in SUBSET Nat /\ \A a \in A : a < c
      BY <1>3 DEF Cuts
    <3>6. LastOfEachKey(Labelled(g[k].parts), PartOf(s), {a \in Cuts(s) : a < k})
      <4>1. LastOfEachKey(Labelled(st.parts), PartOf(s), A)
        BY <2>6
      <4> HIDE DEF A
      <4>2. LastOfEachKey(AddLabel(Labelled(st.parts), PartOf(s)[c]), PartOf(s), A \cup {c})
        BY <2>2, <3>5, <4>1, LastPartWins
      <4> QED BY <3>3, <3>4, <4>2
    <3>7. SubSeq(s, k + 1, k) = <<>>
      BY <1>0
    <3>8. Right(k, k)
      BY <3>1, <3>6, <3>7
    <3>9. k \in Cuts(s) /\ k \in 0..m
      BY <2>8 DEF Cuts
    <3> HIDE DEF Right
    <3> QED BY <3>8, <3>9
  <2>9. CASE k \notin Separators(s)
    <3>1. g[k].parts = st.parts /\ g[k].current = Append(st.current, s[k])
      <4>1. ~ EndsPart(st, s[k])
        BY <1>2, <2>9 DEF st
      <4> QED BY <2>7, <4>1 DEF Scan
    <3>2. Append(SubSeq(s, c + 1, k - 1), s[k]) = SubSeq(s, c + 1, k)
      BY <1>0, <2>2
    <3>3. \A b \in Separators(s) : b <= k => b <= c
      BY <1>3, <2>5, <2>9
    <3>4. g[k].current = SubSeq(s, c + 1, k)
      BY <2>4, <3>1, <3>2
    <3>5. LastOfEachKey(Labelled(g[k].parts), PartOf(s), {a \in Cuts(s) : a < c})
      BY <2>6, <3>1
    <3>6. Right(k, c)
      BY <2>2, <3>3, <3>4, <3>5
    <3>7. k \in 0..m
      OBVIOUS
    <3> HIDE DEF Right
    <3> QED BY <3>6, <3>7
  <2> QED BY <2>8, <2>9
<1> HIDE DEF S
<1>6. \A k \in 0..m : k \in S
  BY <1>4, <1>5, UpTo
<1>7. n \in S
  BY <1>0, <1>6
<1> QED BY <1>7 DEF S, g

\* ParseLabels has the pairs of all parts of a text.
LEMMA LabelsOfAllParts ==
  ASSUME NEW s \in Seq(Char)
  PROVE  LastOfEachKey(ParseLabels(s), PartOf(s), Cuts(s))
<1>0. PICK m \in Nat : m = Len(s)
  OBVIOUS
<1> DEFINE end == Scanned(s)[m]
           part == PartOf(s)
<1>1. PICK c \in Cuts(s) :
        /\ c <= m
        /\ \A b \in Separators(s) : b <= m => b <= c
        /\ end.current = SubSeq(s, c + 1, m)
        /\ LastOfEachKey(Labelled(end.parts), part, {a \in Cuts(s) : a < c})
  <2>1. m \in 0..Len(s)
    BY <1>0
  <2> QED BY <2>1, PartsRight
<1>2. Separators(s) \in SUBSET (1..m)
  <2>1. DOMAIN s = 1..m
    BY <1>0
  <2> QED BY <2>1 DEF Separators
<1>3. end.parts \in Seq(Seq(Char)) /\ end.current \in Seq(Char)
  <2>1. end \in ScanState
    BY <1>0, ScannedStep
  <2> QED BY <2>1 DEF ScanState
<1>4. ParseLabels(s) = Labelled(IF end.current = <<>> THEN end.parts
                                ELSE Append(end.parts, end.current))
  BY <1>0 DEF ParseLabels, Split, Labelled
<1> HIDE DEF end
<1>5. part[c] = end.current
  <2>1. m + 1 \in Separators(s) \cup {Len(s) + 1} /\ c < m + 1
    BY <1>0, <1>1, <1>2 DEF Cuts
  <2>2. \A b \in Separators(s) : b < m + 1 => b <= c
    BY <1>1, <1>2
  <2>3. part[c] = SubSeq(s, c + 1, (m + 1) - 1)
    BY <2>1, <2>2, PartUpTo
  <2>4. (m + 1) - 1 = m
    OBVIOUS
  <2> QED BY <1>1, <2>3, <2>4
<1> HIDE DEF part
<1> DEFINE A == {a \in Cuts(s) : a < c}
<1>6. Cuts(s) = A \cup {c} /\ c \in Nat /\ A \in SUBSET Nat /\ \A a \in A : a < c
  BY <1>1, <1>2 DEF Cuts
<1>7. LastOfEachKey(Labelled(end.parts), part, A)
  BY <1>1
<1> HIDE DEF A
<1>8. CASE end.current = <<>>
  <2>1. ~ IsPair(part[c])
    <3>1. Len(<<>>) = 0
      OBVIOUS
    <3> QED BY <1>5, <1>8, <3>1 DEF IsPair, Contains
  <2>2. {a \in Cuts(s) : IsPair(part[a])} = {a \in A : IsPair(part[a])}
    BY <1>6, <2>1
  <2> QED BY <1>4, <1>7, <1>8, <2>2 DEF LastOfEachKey, part
<1>9. CASE end.current # <<>>
  <2>1. ParseLabels(s) = AddLabel(Labelled(end.parts), part[c])
    BY <1>3, <1>4, <1>5, <1>9, LabelledStep
  <2>2. LastOfEachKey(AddLabel(Labelled(end.parts), part[c]), part, A \cup {c})
    BY <1>6, <1>7, LastPartWins
  <2> QED BY <1>6, <2>1, <2>2 DEF part
<1> QED BY <1>8, <1>9

\* For texts of any length: ParseLabels returns the pairs of the text, the
\* last one of each key.
LEMMA ParseLabelsCorrect ==
  ASSUME NEW s \in Seq(Char)
  PROVE  SplitsRight(s)
<1> DEFINE labels == ParseLabels(s)
           part == PartOf(s)
           Starts == {a \in Cuts(s) : IsPair(part[a])}
<1>1. /\ DOMAIN labels = {LabelKey(part[a]) : a \in Starts}
      /\ \A a \in Starts :
           (\A b \in Starts : LabelKey(part[b]) = LabelKey(part[a]) => b <= a)
             => labels[LabelKey(part[a])] = LabelValue(part[a])
  BY LabelsOfAllParts DEF LastOfEachKey
<1>2. Pairs(s) = {<<a, part[a]>> : a \in Starts}
  BY DEF Pairs, PartOf, Cuts
<1> HIDE DEF labels, part, Starts
<1>3. DOMAIN labels = {LabelKey(p[2]) : p \in Pairs(s)}
  <2>1. {LabelKey(p[2]) : p \in Pairs(s)} = {LabelKey(part[a]) : a \in Starts}
    <3>1. \A a \in Starts : LabelKey(part[a]) \in {LabelKey(p[2]) : p \in Pairs(s)}
      <4> TAKE a \in Starts
      <4>1. <<a, part[a]>> \in Pairs(s) /\ <<a, part[a]>>[2] = part[a]
        BY <1>2
      <4> QED BY <4>1
    <3>2. \A p \in Pairs(s) : LabelKey(p[2]) \in {LabelKey(part[a]) : a \in Starts}
      BY <1>2
    <3> QED BY <3>1, <3>2
  <2> QED BY <1>1, <2>1
<1>4. ASSUME NEW p \in Pairs(s),
             \A q \in Pairs(s) : LabelKey(q[2]) = LabelKey(p[2]) => q[1] <= p[1]
      PROVE  labels[LabelKey(p[2])] = LabelValue(p[2])
  <2>1. PICK a \in Starts : p = <<a, part[a]>>
    BY <1>2
  <2>2. ASSUME NEW b \in Starts, LabelKey(part[b]) = LabelKey(part[a]) PROVE b <= a
    <3>1. <<b, part[b]>> \in Pairs(s)
      BY <1>2
    <3> QED BY <1>4, <2>1, <2>2, <3>1
  <2> QED BY <1>1, <2>1, <2>2
<1> QED BY <1>3, <1>4 DEF SplitsRight, labels

-----------------------------------------------------------------------------
(* Why the documents are right: what each stage makes of the one before.   *)

RowFromRecord == stage # "file" => row = RowMap

PayloadFromRow ==
  stage \in {"payload", "wire", "stored"} =>
    /\ DOMAIN payload = {col \in Names : Keeps(col)}
    /\ \A col \in DOMAIN payload : payload[col] = Transformed(col)

DocFromPayload ==
  /\ stage \in {"wire", "stored"} => wire.payload = payload
  /\ stage = "stored" =>
       /\ DOMAIN doc = DOMAIN payload \cup {"timestamp", "created_at"}
       /\ doc["timestamp"] \in {Time(t) : t \in Instants}
       /\ \A col \in DOMAIN payload \ {"timestamp", "created_at"} :
            doc[col] = payload[col]

IInv == TypeOK /\ RowFromRecord /\ PayloadFromRow /\ DocFromPayload

\* What a payload holds is a text or a map of labels.
LEMMA TransformedIsValue ==
  ASSUME NEW col PROVE IsValue(Transformed(col))
<1>1. \A s : IsValue(Text(s)) /\ IsValue(Labels(s)) /\ IsValue(Time(s))
  BY DEF IsValue, Text, Labels, Time
<1> QED BY <1>1 DEF Transformed

\* The time a document is stored with, whatever the message said.
LEMMA StoredInstant ==
  ASSUME NEW s PROVE StoredTimestamp(Parse(s)) \in Instants
<1>1. CASE \E t \in Instants : s = Format(t)
  BY <1>1 DEF Parse, Format, StoredTimestamp, Instants
<1>2. CASE ~\E t \in Instants : s = Format(t)
  BY <1>2 DEF Parse, StoredTimestamp, Instants
<1> QED BY <1>1, <1>2

\* The initial state has made nothing of the record yet.
LEMMA RowInit == Init => IInv
<1> SUFFICES ASSUME Init PROVE IInv
  OBVIOUS
<1>1. DOMAIN None = {}
  BY DEF None
<1>2. input \in Inputs /\ stage = "file" /\ row = None /\ payload = None /\ doc = None
  BY DEF Init
<1> QED BY <1>1, <1>2 DEF IInv, TypeOK, RowFromRecord, PayloadFromRow, DocFromPayload

\* Every step makes what the next stage holds of what the last one held.
LEMMA RowStep == IInv /\ [Next]_vars => IInv'
<1> SUFFICES ASSUME IInv, [Next]_vars PROVE IInv'
  OBVIOUS
<1>i. TypeOK /\ RowFromRecord /\ PayloadFromRow /\ DocFromPayload
  BY DEF IInv
\* No step changes the record, nor what its columns are.
<1>n. /\ input' = input
      /\ Names' = Names
      /\ RowMap' = RowMap
      /\ \A col : row' = row => /\ Keeps(col)' <=> Keeps(col)
                                /\ Transformed(col)' = Transformed(col)
  <2>1. input' = input
    BY DEF Next, vars, GetNextRow, TransformRow, Stream, StreamElsewhere, StoreMessage
  <2>2. tsColumnIdx' = tsColumnIdx /\ labelsColumnIdx' = labelsColumnIdx
    BY <2>1 DEF tsColumnIdx, labelsColumnIdx, FindColumnIndex, header, SelectInSeq
  <2>3. ASSUME NEW col, row' = row PROVE Transformed(col)' = Transformed(col)
    BY <2>2, <2>3 DEF Transformed
  <2> QED BY <2>1, <2>3 DEF Names, RowMap, LastColumn, header, record, Keeps
<1>1. CASE GetNextRow
  <2>1. /\ stage' = "row" /\ stage = "file"
        /\ row' = RowMap
        /\ UNCHANGED <<payload, wire, doc>>
    BY <1>1 DEF GetNextRow
  <2>2. DOMAIN row' \subseteq Names
    BY <2>1 DEF RowMap
  <2>3. TypeOK'
    BY <1>i, <1>n, <2>1, <2>2 DEF TypeOK
  <2> QED BY <1>n, <2>1, <2>3
          DEF IInv, RowFromRecord, PayloadFromRow, DocFromPayload
<1>2. CASE TransformRow
  <2>1. /\ stage' = "payload" /\ stage = "row"
        /\ payload' = [col \in {c \in Names : Keeps(c)} |-> Transformed(col)]
        /\ UNCHANGED <<row, wire, doc>>
    BY <1>2 DEF TransformRow
  <2>2. \A col \in DOMAIN payload' : IsValue(payload'[col])
    BY <2>1, TransformedIsValue
  <2>3. TypeOK'
    BY <1>i, <1>n, <2>1, <2>2 DEF TypeOK
  <2>5. PayloadFromRow'
    BY <1>n, <2>1 DEF PayloadFromRow
  <2>6. RowFromRecord'
    BY <1>i, <1>n, <2>1 DEF RowFromRecord
  <2> QED BY <2>1, <2>3, <2>5, <2>6 DEF IInv, DocFromPayload
<1>3. CASE Stream \/ \E timestamp \in {<<>>, <<"k">>} : StreamElsewhere(timestamp)
  <2>1. /\ stage' = "wire" /\ stage = "payload"
        /\ wire'.payload = payload
        /\ UNCHANGED <<row, payload, doc>>
    BY <1>3 DEF Stream, StreamElsewhere
  <2>2. TypeOK'
    BY <1>i, <1>n, <2>1 DEF TypeOK
  <2>3. RowFromRecord' /\ PayloadFromRow'
    BY <1>i, <1>n, <2>1 DEF RowFromRecord, PayloadFromRow, Text
  <2> QED BY <2>1, <2>2, <2>3 DEF IInv, DocFromPayload
<1>4. CASE StoreMessage
  <2>1. /\ stage' = "stored" /\ stage = "wire"
        /\ doc' = [field \in DOMAIN payload \cup {"timestamp", "created_at"} |->
                    CASE field = "created_at" -> Time("stored")
                      [] field = "timestamp" ->
                           Time(StoredTimestamp(Parse(wire.timestamp)))
                      [] OTHER -> payload[field]]
        /\ wire.payload = payload
        /\ UNCHANGED <<row, payload, wire>>
    BY <1>4, <1>i DEF StoreMessage, DocFromPayload
  <2>2. \A t : IsValue(Time(t))
    BY DEF IsValue, Time
  <2>3. /\ DOMAIN doc' = DOMAIN payload \cup {"timestamp", "created_at"}
        /\ doc'["created_at"] = Time("stored")
        /\ doc'["timestamp"] = Time(StoredTimestamp(Parse(wire.timestamp)))
        /\ \A col \in DOMAIN payload \ {"timestamp", "created_at"} :
             doc'[col] = payload[col]
    BY <2>1
  <2>4. \A col \in DOMAIN doc' : IsValue(doc'[col])
    BY <1>i, <2>2, <2>3 DEF TypeOK
  <2>5. TypeOK'
    BY <1>i, <1>n, <2>1, <2>4 DEF TypeOK
  <2>6. RowFromRecord' /\ PayloadFromRow'
    BY <1>i, <1>n, <2>1 DEF RowFromRecord, PayloadFromRow, Text
  <2>7. doc'["timestamp"] \in {Time(t) : t \in Instants}
    BY <2>3, StoredInstant
  <2>8. DocFromPayload'
    BY <2>1, <2>3, <2>7 DEF DocFromPayload, Time
  <2> QED BY <2>5, <2>6, <2>8 DEF IInv
<1>5. CASE UNCHANGED vars
  <2>1. UNCHANGED <<stage, row, payload, wire, doc>>
    BY <1>5 DEF vars
  <2>2. TypeOK'
    BY <1>i, <1>n, <2>1 DEF TypeOK
  <2>3. RowFromRecord' /\ PayloadFromRow' /\ DocFromPayload'
    BY <1>i, <1>n, <2>1
       DEF RowFromRecord, PayloadFromRow, DocFromPayload, Text, Time
  <2> QED BY <2>2, <2>3 DEF IInv
<1> QED BY <1>1, <1>2, <1>3, <1>4, <1>5 DEF Next

\* The inductive invariant.
THEOREM Invariance == Spec => []IInv
  BY RowInit, RowStep, PTL DEF Spec

\* The type invariant: in particular no payload has a column that is not in
\* the header of the file.
THEOREM TypeCorrect == Spec => []TypeOK
<1>1. IInv => TypeOK
  BY DEF IInv
<1> QED BY <1>1, Invariance, PTL

\* A column with a name of its own is the last one of that name.
LEMMA OwnColumn ==
  ASSUME TypeOK, NEW i \in DOMAIN header, HasOwnName(i)
  PROVE  LastColumn(header[i]) = i
<1>1. {j \in DOMAIN header : header[j] = header[i]} = {i}
  BY DEF HasOwnName
<1>2. i \in Nat
  BY RowAssumption DEF TypeOK, header
<1> QED BY <1>1, <1>2 DEF LastColumn, Max

\* What every cell with a column name of its own comes to, the unnamed column's
\* and empty ones included, and that nothing else is stored but what the store
\* sets.
THEOREM DocumentsFromRecords == Spec => []DocumentFromRecord
<1>1. IInv => DocumentFromRecord
  <2> SUFFICES ASSUME IInv, stage = "stored" PROVE DocumentFromRecord
    BY DEF DocumentFromRecord
  <2>1. DOMAIN doc \subseteq Names \cup SetByStore
    BY DEF IInv, TypeOK, DocFromPayload, SetByStore
  <2>2. ASSUME NEW i \in DOMAIN header, HasOwnName(i), header[i] \notin SetByStore
        PROVE  IF record[i] = <<>> THEN header[i] \notin DOMAIN doc
               ELSE header[i] \in DOMAIN doc /\ doc[header[i]] = StoredCell(i)
    <3> DEFINE col == header[i]
    <3>1. col \in Names
      BY DEF Names, Range
    <3>2. row[col] = record[i]
      BY <2>2, <3>1, OwnColumn DEF IInv, RowFromRecord, RowMap
    <3>3. /\ col \in DOMAIN payload <=> record[i] # <<>>
          /\ col \in DOMAIN payload => payload[col] = Transformed(col)
      BY <2>2, <3>1, <3>2 DEF IInv, PayloadFromRow, Keeps, SetByStore
    <3>4. /\ col \in DOMAIN doc <=> col \in DOMAIN payload
          /\ col \in DOMAIN payload => doc[col] = payload[col]
      BY <2>2 DEF IInv, DocFromPayload, SetByStore
    <3>5. Transformed(col) = StoredCell(i)
      BY <3>2 DEF Transformed, StoredCell, getColumnNameByIndex
    <3> QED BY <3>3, <3>4, <3>5
  <2> QED BY <2>1, <2>2 DEF DocumentFromRecord
<1> QED BY <1>1, Invariance, PTL

\* The timestamp of a document is a time at which this program made or stored
\* it, whatever text the message and the file have under that name.
THEOREM TimestampsAreTimes == Spec => []TimestampIsTime
<1>1. IInv => TimestampIsTime
  BY DEF IInv, DocFromPayload, TimestampIsTime
<1> QED BY <1>1, Invariance, PTL

\* Labels are split where the text says, at whatever length and with whatever
\* quotes and backslashes: every pair counts, and of one key the last.
THEOREM LabelsRight == Spec => []ParseLabelsRight
<1>1. IInv => ParseLabelsRight
  <2> SUFFICES ASSUME IInv, NEW i \in DOMAIN record PROVE SplitsRight(record[i])
    BY DEF ParseLabelsRight
  <2>1. record[i] \in Seq(Char)
    BY RowAssumption DEF IInv, TypeOK, record
  <2> QED BY <2>1, ParseLabelsCorrect
<1> QED BY <1>1, Invariance, PTL

=============================================================================
