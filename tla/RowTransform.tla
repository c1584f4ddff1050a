---------------------------- MODULE RowTransform ----------------------------
(***************************************************************************)
(* What becomes of one CSV record: the row map of the CSV reader, the      *)
(* payload TransformRow makes of it, the message on the wire, and the      *)
(* document handed to MongoDB.                                             *)
(*                                                                         *)
(* A text is a sequence of characters, the name of a column a string.      *)
(* JSON keeps texts and maps of texts; times travel as texts.              *)
(***************************************************************************)
EXTENDS Naturals, SequencesExt, FiniteSetsExt

CONSTANTS
  Char,    (* the characters of the texts                                  *)
  Inputs   (* records with their header: [header |-> , record |-> ]        *)

\* csv.Reader refuses a record that has not as many fields as the header.
ASSUME RowAssumption ==
  \A in \in Inputs :
    /\ in.header \in Seq(STRING)
    /\ DOMAIN in.record = DOMAIN in.header
    /\ \A i \in DOMAIN in.record : in.record[i] \in Seq(Char)

VARIABLES
  input,    (* the header of the file and the record that is read          *)
  stage,    (* how far it has come                                         *)
  row,      (* GetNextRow's map from column names to texts                 *)
  payload,  (* TransformRow's map from column names to values              *)
  wire,     (* the message as JSON: its payload and its timestamp's text   *)
  doc       (* the document InsertOne is called with                       *)

vars == <<input, stage, row, payload, wire, doc>>

header == input.header
record == input.record

\* The values a payload or a document holds.
Text(s) == [text |-> s]
Labels(m) == [labels |-> m]
Time(t) == [time |-> t]

\* time.Format and time.Parse with RFC3339Nano; what does not parse is the
\* zero time, for UnmarshalJSON drops the error.
Instants == {"transformed", "created", "stored"}
Zero == "zero"
Format(t) == <<t>>
Parse(s) == IF \E t \in Instants : s = Format(t) THEN s[1] ELSE Zero

None == [c \in {} |-> <<>>]

-----------------------------------------------------------------------------
(* ParseLabels.                                                            *)

BACKSLASH == "\\"
QUOTE == "\""

TrimSpace(s) ==
  LET kept == {i \in DOMAIN s : s[i] # " "} IN
  IF kept = {} THEN <<>> ELSE SubSeq(s, Min(kept), Max(kept))

\* One character of the loop that splits raw at commas outside quotes.
TogglesAlways(st, ch) == ch = QUOTE
TogglesQuotes(st, ch) == ch = QUOTE /\ ~st.escaped
EndsPart(st, ch) == ch = "," /\ ~st.escaped /\ ~st.inQuotes

Scan(st, ch) ==
  [parts |-> IF EndsPart(st, ch) THEN Append(st.parts, st.current) ELSE st.parts,
   current |-> IF EndsPart(st, ch) THEN <<>> ELSE Append(st.current, ch),
   inQuotes |-> IF TogglesQuotes(st, ch) THEN ~st.inQuotes ELSE st.inQuotes,
   escaped |-> ch = BACKSLASH /\ ~st.escaped]

Start == [parts |-> <<>>, current |-> <<>>, inQuotes |-> FALSE, escaped |-> FALSE]
Scanned(raw) ==
  LET st[n \in 0..Len(raw)] == IF n = 0 THEN Start ELSE Scan(st[n - 1], raw[n]) IN st

Split(raw) ==
  LET end == Scanned(raw)[Len(raw)] IN
  IF end.current = <<>> THEN end.parts ELSE Append(end.parts, end.current)

\* One part: what is left and right of its first "=".
IsPair(part) == Contains(part, "=")
EqIdx(part) == SelectInSeq(part, LAMBDA ch : ch = "=")
LabelKey(part) == TrimSpace(SubSeq(part, 1, EqIdx(part) - 1))
LabelValue(part) ==
  LET val == TrimSpace(SubSeq(part, EqIdx(part) + 1, Len(part))) IN
  IF Len(val) >= 2 /\ Head(val) = QUOTE /\ Last(val) = QUOTE
  THEN SubSeq(val, 2, Len(val) - 1)
  ELSE val

AddLabel(labels, part) ==
  IF IsPair(part)
  THEN [key \in DOMAIN labels \cup {LabelKey(part)} |->
          IF key = LabelKey(part) THEN LabelValue(part) ELSE labels[key]]
  ELSE labels

Collected(parts) ==
  LET labels[n \in 0..Len(parts)] ==
        IF n = 0 THEN None ELSE AddLabel(labels[n - 1], parts[n])
  IN labels
ParseLabels(raw) == LET parts == Split(raw) IN Collected(parts)[Len(parts)]

-----------------------------------------------------------------------------
(* From the record to the payload.                                         *)

\* The columns the program's files know, in lower case.
Lower(col) == IF col = "Timestamp" THEN "timestamp" ELSE col
FindColumnIndex(name) == SelectInSeq(header, LAMBDA col : Lower(col) = name)
tsColumnIdx == FindColumnIndex("timestamp")
labelsColumnIdx == FindColumnIndex("labels_raw")

Names == Range(header)
LastColumn(col) == Max({i \in DOMAIN header : header[i] = col})
LowerCaseRowMap ==
  [name \in {Lower(col) : col \in Names} |->
     record[Max({i \in DOMAIN header : Lower(header[i]) = name})]]
RowMap == [col \in Names |-> record[LastColumn(col)]]

\* The row map does not say which column was which.
getColumnNameByIndex(idx) == ""

KeepsEmpty(col) == TRUE
Keeps(col) == row[col] # <<>> \/ col = "timestamp"

Transformed(col) ==
  IF tsColumnIdx > 0 /\ col = getColumnNameByIndex(tsColumnIdx)
  THEN Text(Format("transformed"))
  ELSE IF labelsColumnIdx > 0 /\ col = getColumnNameByIndex(labelsColumnIdx)
  THEN Labels(ParseLabels(row[col]))
  ELSE Text(row[col])

\* The same from the record itself, which keeps the columns apart.
TransformRowWithRaw ==
  LET Sets(i) == i = tsColumnIdx \/ record[i] # <<>>
      LastSet(col) == Max({i \in DOMAIN header : header[i] = col /\ Sets(i)})
      Value(i) == IF i = tsColumnIdx THEN Text(Format("transformed"))
                  ELSE IF i = labelsColumnIdx THEN Labels(ParseLabels(record[i]))
                  ELSE Text(record[i])
  IN [col \in {header[i] : i \in {j \in DOMAIN header : Sets(j)}} |-> Value(LastSet(col))]

-----------------------------------------------------------------------------
Init ==
  /\ input \in Inputs
  /\ stage = "file"
  /\ row = None /\ payload = None /\ wire = None /\ doc = None

GetNextRow ==
  /\ stage = "file"
  /\ stage' = "row"
  /\ row' = RowMap
  /\ UNCHANGED <<input, payload, wire, doc>>

TransformRow ==
  /\ stage = "row"
  /\ stage' = "payload"
  /\ payload' = [col \in {c \in Names : Keeps(c)} |-> Transformed(col)]
  /\ UNCHANGED <<input, row, wire, doc>>

\* message.New and MarshalJSON.
Stream ==
  /\ stage = "payload"
  /\ stage' = "wire"
  /\ wire' = [payload |-> payload, timestamp |-> Format("created")]
  /\ UNCHANGED <<input, row, payload, doc>>

\* A producer other than this program may send the same payload in a message
\* without a timestamp, or with one in another format.
StreamElsewhere(timestamp) ==
  /\ stage = "payload"
  /\ stage' = "wire"
  /\ wire' = [payload |-> payload, timestamp |-> timestamp]
  /\ UNCHANGED <<input, row, payload, doc>>

\* StoreMessage prefers the time of the message to its own.
AnyTimestamp(t) == t
StoredTimestamp(t) == IF t # Zero THEN t ELSE "stored"

\* json.Unmarshal, StoreMessage and StoreMetric.
StoreMessage ==
  /\ stage = "wire"
  /\ stage' = "stored"
  /\ doc' = [field \in DOMAIN wire.payload \cup {"timestamp", "created_at"} |->
               CASE field = "created_at" -> Time("stored")
                 [] field = "timestamp" -> Time(StoredTimestamp(Parse(wire.timestamp)))
                 [] OTHER -> wire.payload[field]]
  /\ UNCHANGED <<input, row, payload, wire>>

Next ==
  \/ GetNextRow \/ TransformRow \/ Stream \/ StoreMessage
  \/ \E timestamp \in {<<>>, <<"k">>} : StreamElsewhere(timestamp)

Spec == Init /\ [][Next]_vars

-----------------------------------------------------------------------------
(* Properties.                                                             *)

IsValue(v) == DOMAIN v \in {{"text"}, {"labels"}, {"time"}}

\* Every variable keeps its type, and a payload has columns of the file only.
TypeOK ==
  /\ input \in Inputs
  /\ stage \in {"file", "row", "payload", "wire", "stored"}
  /\ DOMAIN row \subseteq Names
  /\ DOMAIN payload \subseteq Names
  /\ \A col \in DOMAIN payload : IsValue(payload[col])
  /\ \A col \in DOMAIN doc : IsValue(doc[col])

\* What it means for labels to be split: at the commas that no backslash
\* escapes and that have an even number of unescaped quotes before them.
Escaped(s, i) ==
  Cardinality({j \in 1..(i - 1) : \A k \in j..(i - 1) : s[k] = BACKSLASH}) % 2 = 1
QuotesBefore(s, i) ==
  Cardinality({j \in 1..(i - 1) : s[j] = QUOTE /\ ~Escaped(s, j)})
Separators(s) ==
  {i \in DOMAIN s : s[i] = "," /\ ~Escaped(s, i) /\ QuotesBefore(s, i) % 2 = 0}
Pairs(s) ==
  LET Part(a) == SubSeq(s, a + 1, Min({b \in Separators(s) \cup {Len(s) + 1} : b > a}) - 1)
  IN {<<a, Part(a)>> : a \in {b \in Separators(s) \cup {0} : IsPair(Part(b))}}

\* ParseLabels returns the pairs of the text, the last one of each key.
SplitsRight(s) ==
  LET labels == ParseLabels(s) IN
  /\ DOMAIN labels = {LabelKey(p[2]) : p \in Pairs(s)}
  /\ \A p \in Pairs(s) :
       (\A q \in Pairs(s) : LabelKey(q[2]) = LabelKey(p[2]) => q[1] <= p[1])
         => labels[LabelKey(p[2])] = LabelValue(p[2])

\* Whatever text a row has under labels_raw, ParseLabels splits it right: no
\* comma inside a quoted value splits it and no escaped quote ends it.
ParseLabelsRight == stage = "row" => \A i \in DOMAIN record : SplitsRight(record[i])

\* What a column holds in the document unless its cell is empty.  The unnamed
\* column takes what is meant for the columns the producer was asked to
\* transform; those, labels_raw among them, hold their text like all others.
StoredCell(i) ==
  IF header[i] # "" THEN Text(record[i])
  ELSE IF tsColumnIdx > 0 THEN Text(Format("transformed"))
  ELSE IF labelsColumnIdx > 0 THEN Labels(ParseLabels(record[i]))
  ELSE Text(record[i])

SetByStore == {"timestamp", "created_at"}
HasOwnName(i) == \A j \in DOMAIN header : header[j] = header[i] => j = i

\* A document is made of its record and nothing else.  The cell of every column
\* that shares its name with no other and that the store does not set is in it
\* as StoredCell says, which is the cell's text but for the unnamed column; an
\* empty cell of any such column is left out: no document has an empty uuid for
\* ListGPUs to list.
DocumentFromRecord ==
  stage = "stored" =>
    /\ DOMAIN doc \subseteq Names \cup SetByStore
    /\ \A i \in DOMAIN header : HasOwnName(i) /\ header[i] \notin SetByStore =>
         IF record[i] = <<>> THEN header[i] \notin DOMAIN doc
         ELSE header[i] \in DOMAIN doc /\ doc[header[i]] = StoredCell(i)

\* Whatever the file has under "timestamp" and whatever the message says, the
\* timestamp QueryTelemetry filters and sorts by is a time, never a text and
\* never the zero time.
TimestampIsTime ==
  stage = "stored" => doc["timestamp"] \in {Time(t) : t \in Instants}

\* transformers.go:15, "tsColumnName and labelsColumnName are the names of
\* columns to transform": from a row whose cells are not empty and whose columns
\* have names of their own, TransformRow makes what TransformRowWithRaw makes of
\* the record.
TransformsNamedColumns ==
  (/\ stage = "payload"
   /\ IsInjective(header)
   /\ \A i \in DOMAIN record : record[i] # <<>>)
    => payload = TransformRowWithRaw

=============================================================================
