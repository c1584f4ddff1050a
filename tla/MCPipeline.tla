----------------------------- MODULE MCPipeline -----------------------------
(***************************************************************************)
(* Small instances of Pipeline for TLC.                                    *)
(***************************************************************************)
EXTENDS Pipeline

CONSTANT MaxFailed

\* Bounds the exploration: states with more failed inserts are checked, but
\* not gone on from.
FewFailures ==
  Cardinality({x \in Consumers \X Message : x[2] \in failed[x[1]]}) <= MaxFailed

=============================================================================
