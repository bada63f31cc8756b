---------------------------- MODULE MessageQueue ----------------------------
(***************************************************************************)
(* What send and recv of an InterComm promise between two ranks: messages  *)
(* are taken whole and in the order in which they were sent.               *)
(***************************************************************************)
EXTENDS SequencesExt

CONSTANT Messages

VARIABLES queue, delivered

Init == queue = <<>> /\ delivered = <<>>

(* One message, or more at once, behind those that are there. *)
Send ==
  /\ queue' \in Seq(Messages) /\ IsStrictPrefix(queue, queue')
  /\ UNCHANGED delivered

Receive ==
  /\ queue # <<>>
  /\ delivered' = Append(delivered, Head(queue))
  /\ queue' = Tail(queue)

Spec == Init /\ [][Send \/ Receive]_<<queue, delivered>>
=============================================================================
