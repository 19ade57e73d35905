------------------------------- MODULE Stream -------------------------------
(***************************************************************************)
(* What the link between two stages of a pipeline promises: an unbuffered  *)
(* byte stream.  The writer sends a chunk only when the reader has all the *)
(* earlier ones, the reader gets the units in order, each once, and sees   *)
(* the end only after the last of them.  A link that has ended may be      *)
(* replaced by a new one.                                                  *)
(***************************************************************************)
EXTENDS Naturals, Sequences

CONSTANT Data

VARIABLES sent, rcvd, ended, seen

svars == <<sent, rcvd, ended, seen>>

StreamInit == sent = <<>> /\ rcvd = <<>> /\ ended = FALSE /\ seen = FALSE

Send ==
  /\ ~ended /\ rcvd = sent
  /\ sent' \in Seq(Data) /\ Len(sent') > Len(sent)
  /\ SubSeq(sent', 1, Len(sent)) = sent
  /\ UNCHANGED <<rcvd, ended, seen>>

Receive ==
  /\ ~ended /\ ~seen
  /\ \E k \in (Len(rcvd) + 1)..Len(sent) : rcvd' = SubSeq(sent, 1, k)
  /\ UNCHANGED <<sent, ended, seen>>

End == ended' = TRUE /\ rcvd = sent /\ UNCHANGED <<sent, rcvd, seen>>

SeeEnd == ended /\ rcvd = sent /\ seen' = TRUE /\ UNCHANGED <<sent, rcvd, ended>>

Replace ==
  /\ ended
  /\ sent' = <<>> /\ rcvd' = <<>> /\ ended' = FALSE /\ seen' = FALSE

StreamNext == Send \/ Receive \/ End \/ SeeEnd \/ Replace

StreamSpec == StreamInit /\ [][StreamNext]_svars
============================================================================
