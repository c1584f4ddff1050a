----------------------------- MODULE FrameStream -----------------------------
(***************************************************************************)
(* What length-prefixed frames promise over one connection, however TCP    *)
(* cuts the bytes into segments: the reader gets the frames the writer     *)
(* wrote, whole, in order and each once, up to the first one that is       *)
(* larger than MaxFrame or to the end of the connection.                   *)
(***************************************************************************)
EXTENDS Naturals, Sequences

CONSTANTS
  Bodies,   (* the frames, as sequences of bytes                           *)
  MaxFrame  (* the largest frame a reader accepts                          *)

VARIABLES
  begun,  (* the frames whose writing has begun, in order                  *)
  got,    (* the frames the reader has returned, in order                  *)
  over    (* whether the reader has ended                                  *)

vars == <<begun, got, over>>

Init == begun = <<>> /\ got = <<>> /\ over = FALSE

Write(b) ==
  /\ begun' = Append(begun, b)
  /\ UNCHANGED <<got, over>>

Read ==
  LET b == begun[Len(got) + 1] IN
  /\ ~over
  /\ Len(got) < Len(begun)
  /\ Len(b) <= MaxFrame
  /\ got' = Append(got, b)
  /\ UNCHANGED <<begun, over>>

End == ~over /\ over' = TRUE /\ UNCHANGED <<begun, got>>

Next == Read \/ End \/ \E b \in Bodies : Write(b)

Spec == Init /\ [][Next]_vars

=============================================================================
