------------------------------- MODULE Frames -------------------------------
(* Facts about sequences of frames that several modules state.             *)
EXTENDS Naturals, Sequences, Functions

\* s holds the frames of each producer in the order they were sent, none twice.
InOrder(s) ==
  \A i, j \in DOMAIN s :
    i < j /\ s[i].from = s[j].from => s[i].seq < s[j].seq

\* Every frame of s is older than every frame of t from the same producer.
Before(s, t) ==
  \A m \in Range(s), n \in Range(t) : m.from = n.from => m.seq < n.seq

=============================================================================
