--------------------------- MODULE MCQueueBroker ---------------------------
(***************************************************************************)
(* Small instances of QueueBroker for TLC.                                 *)
(***************************************************************************)
EXTENDS QueueBroker, TLC

\* Producers and consumers are only ever compared, and the safety properties
\* name none of them.
Interchangeable == Permutations(Producers) \cup Permutations(Consumers)

=============================================================================
