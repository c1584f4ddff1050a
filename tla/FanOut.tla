------------------------------- MODULE FanOut -------------------------------
(***************************************************************************)
(* What broadcast delivery promises a consumer, whatever goroutines,       *)
(* registry and channels it is made of: a first-in first-out stream that   *)
(* takes each frame at most once, only while it is the latest frame of its *)
(* producer, that is delivered in the order it was accepted and that may   *)
(* miss frames.  The stream is cut once: what was pending on it is lost,   *)
(* and nothing is accepted or delivered afterwards.                        *)
(***************************************************************************)
EXTENDS Naturals, Sequences, Functions

CONSTANTS Producers, Consumers

VARIABLES
  offered,   (* how many frames each producer has sent                     *)
  pending,   (* accepted for a consumer and not delivered yet              *)
  delivered, (* delivered to each consumer                                 *)
  cut        (* the consumers whose stream has ended                       *)

vars == <<offered, pending, delivered, cut>>

Init ==
  /\ offered = [p \in Producers |-> 0]
  /\ pending = [c \in Consumers |-> <<>>]
  /\ delivered = [c \in Consumers |-> <<>>]
  /\ cut = {}

Offer(p) ==
  /\ offered' = [offered EXCEPT ![p] = @ + 1]
  /\ UNCHANGED <<pending, delivered, cut>>

\* The latest frame of p joins the stream of c, if it has not already.
Accept(p, c) ==
  LET m == [from |-> p, seq |-> offered[p]] IN
  /\ c \notin cut
  /\ offered[p] > 0
  /\ m \notin Range(pending[c]) \cup Range(delivered[c])
  /\ pending' = [pending EXCEPT ![c] = Append(@, m)]
  /\ UNCHANGED <<offered, delivered, cut>>

Deliver(c) ==
  /\ c \notin cut
  /\ pending[c] # <<>>
  /\ delivered' = [delivered EXCEPT ![c] = Append(@, Head(pending[c]))]
  /\ pending' = [pending EXCEPT ![c] = Tail(@)]
  /\ UNCHANGED <<offered, cut>>

Cut(c) ==
  /\ c \notin cut
  /\ cut' = cut \cup {c}
  /\ pending' = [pending EXCEPT ![c] = <<>>]
  /\ UNCHANGED <<offered, delivered>>

Next ==
  \/ \E p \in Producers : Offer(p) \/ \E c \in Consumers : Accept(p, c)
  \/ \E c \in Consumers : Deliver(c) \/ Cut(c)

Spec == Init /\ [][Next]_vars

=============================================================================
