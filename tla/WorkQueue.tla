------------------------------ MODULE WorkQueue ------------------------------
(***************************************************************************)
(* What queue delivery promises, whatever it is made of: frames wait in    *)
(* one line, in the order they were accepted, and each is taken by one     *)
(* consumer, who delivers it or loses it.  A producer's frames are         *)
(* accepted in the order it sent them, each at most once.                  *)
(***************************************************************************)
EXTENDS Naturals, Sequences

CONSTANTS Producers, Consumers

VARIABLES
  offered,   (* how many frames each producer has sent                     *)
  last,      (* the last frame of each producer that was accepted          *)
  waiting,   (* accepted and not taken yet                                 *)
  taken,     (* what each consumer holds: <<>> or one frame                *)
  delivered, (* delivered to each consumer                                 *)
  lost       (* taken, and never to be delivered                           *)

vars == <<offered, last, waiting, taken, delivered, lost>>

Init ==
  /\ offered = [p \in Producers |-> 0]
  /\ last = [p \in Producers |-> 0]
  /\ waiting = <<>>
  /\ taken = [c \in Consumers |-> <<>>]
  /\ delivered = [c \in Consumers |-> <<>>]
  /\ lost = {}

Offer(p) ==
  /\ offered' = [offered EXCEPT ![p] = @ + 1]
  /\ UNCHANGED <<last, waiting, taken, delivered, lost>>

Accept(p) ==
  /\ last[p] < offered[p]
  /\ last' = [last EXCEPT ![p] = offered[p]]
  /\ waiting' = Append(waiting, [from |-> p, seq |-> offered[p]])
  /\ UNCHANGED <<offered, taken, delivered, lost>>

Take(c) ==
  /\ taken[c] = <<>>
  /\ waiting # <<>>
  /\ taken' = [taken EXCEPT ![c] = <<Head(waiting)>>]
  /\ waiting' = Tail(waiting)
  /\ UNCHANGED <<offered, last, delivered, lost>>

Deliver(c) ==
  /\ taken[c] # <<>>
  /\ delivered' = [delivered EXCEPT ![c] = Append(@, Head(taken[c]))]
  /\ taken' = [taken EXCEPT ![c] = <<>>]
  /\ UNCHANGED <<offered, last, waiting, lost>>

Lose(c) ==
  /\ taken[c] # <<>>
  /\ lost' = lost \cup {Head(taken[c])}
  /\ taken' = [taken EXCEPT ![c] = <<>>]
  /\ UNCHANGED <<offered, last, waiting, delivered>>

Next ==
  \/ \E p \in Producers : Offer(p) \/ Accept(p)
  \/ \E c \in Consumers : Take(c) \/ Deliver(c) \/ Lose(c)

Spec == Init /\ [][Next]_vars

=============================================================================
