--------------------------- MODULE LosslessChannel ---------------------------
(***************************************************************************)
(* What a writer and a reader of a bitstream promise together: what was    *)
(* sent is received, once, in order, unchanged, and all of it in the end.  *)
(***************************************************************************)
EXTENDS Naturals, Sequences

VARIABLES sent, received

Init == sent = <<>> /\ received = <<>>

Send ==
    /\ Len(sent') = Len(sent) + 1
    /\ SubSeq(sent', 1, Len(sent)) = sent
    /\ UNCHANGED received

Receive ==
    /\ Len(received) < Len(sent)
    /\ received' = Append(received, sent[Len(received) + 1])
    /\ UNCHANGED sent

Next == Send \/ Receive

\* Nothing is invented, lost, changed or reordered; and all of it arrives.
Safe == Init /\ [][Next]_<<sent, received>>
Live == WF_<<sent, received>>(Receive)
Spec == Safe /\ Live
=============================================================================
