-------------------------- MODULE OrderedDelivery --------------------------
(***************************************************************************)
(* What socket.messageOrdering promises (message-ordering.md of            *)
(* Hindenburg: "packets received by Hindenburg are processed in the        *)
(* correct order"): of the packets 1 .. sent that a client has sent, a     *)
(* prefix has been handed to its handlers, and it grows by one packet at a *)
(* time.                                                                   *)
(***************************************************************************)
EXTENDS Naturals, Sequences

CONSTANT MaxSent    \* bound: packets the client sends

VARIABLES sent, handled

vars == <<sent, handled>>

Init == sent = 0 /\ handled = <<>>

Send == sent < MaxSent /\ sent' = sent + 1 /\ UNCHANGED handled

Handle ==
    /\ Len(handled) < sent
    /\ handled' = Append(handled, Len(handled) + 1)
    /\ UNCHANGED sent

Next == Send \/ Handle

\* Safety only, and with the promise that every packet is handled.
Spec == Init /\ [][Next]_vars
FairSpec == Spec /\ WF_vars(Next)
=============================================================================
