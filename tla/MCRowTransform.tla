--------------------------- MODULE MCRowTransform ---------------------------
(***************************************************************************)
(* Small instances of RowTransform for TLC.                                *)
(***************************************************************************)
EXTENDS RowTransform

CONSTANTS MaxColumns, MaxText

Columns == {"timestamp", "Timestamp", "labels_raw", "uuid", ""}
Cells == {<<>>, <<"k">>, <<"k", "=", "k">>}

\* Every small table of these columns.
Tables ==
  UNION {[header : [1..n -> Columns], record : [1..n -> Cells]] : n \in 1..MaxColumns}

\* Every short text in a labels_raw column.
MCChar == {"k", "=", ",", " ", QUOTE, BACKSLASH}
LabelTexts ==
  {[header |-> <<"labels_raw">>, record |-> <<s>>] :
     s \in UNION {[1..n -> MCChar] : n \in 0..MaxText}}

MCInputs == Tables \cup LabelTexts

=============================================================================
