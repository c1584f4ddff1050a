---------------------------- MODULE MCConnection ----------------------------
(***************************************************************************)
(* A small instance of Connection for TLC: four bytes, two of which end    *)
(* lines, and frames of at most two bytes behind a length of two.          *)
(***************************************************************************)
EXTENDS Connection

MCProducer == <<1>>
MCConsumer == <<0>>

\* Lines with both endings, one role the broker does not know, and one line
\* that names no role.
MCLines == {<<1, LF>>, <<1, CR, LF>>, <<0, LF>>, <<0, 1, LF>>, <<LF>>}

\* An empty frame, one that looks like a line end, one whose header does, and
\* one that is too large.
MCBodies == {<<>>, <<LF>>, <<1, 0>>, <<0, LF, 1>>}

=============================================================================
