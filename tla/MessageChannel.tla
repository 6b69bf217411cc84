---------------------------- MODULE MessageChannel ----------------------------
(***************************************************************************)
(* What the packet layer promises to the layers above it: a message that   *)
(* was written to its end is received as it was sent, in the order of      *)
(* writing, once.                                                          *)
(***************************************************************************)
EXTENDS Naturals, Sequences

CONSTANT Payloads   \* what a message may carry

VARIABLES sent, received

chanVars == <<sent, received>>

Init == sent = <<>> /\ received = <<>>

Send(p) == sent' = Append(sent, p) /\ UNCHANGED received

Receive ==
    /\ Len(received) < Len(sent)
    /\ received' = Append(received, sent[Len(received) + 1])
    /\ UNCHANGED sent

Next == Receive \/ \E p \in Payloads : Send(p)

Spec == Init /\ [][Next]_chanVars

==============================================================================
