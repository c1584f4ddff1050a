------------------------- MODULE MCBroadcastBroker -------------------------
(***************************************************************************)
(* Small instances of BroadcastBroker for TLC.                             *)
(***************************************************************************)
EXTENDS BroadcastBroker, TLC

\* Producers and consumers are only ever compared, and the safety properties
\* name none of them.
Interchangeable == Permutations(Producers) \cup Permutations(Consumers)

=============================================================================
