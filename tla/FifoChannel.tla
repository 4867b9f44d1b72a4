---------------------------- MODULE FifoChannel ----------------------------
(***************************************************************************)
(* What NetworkManager takes one direction of an ENet connection for: a    *)
(* queue of packets.  What is sent comes out once, whole and in order.     *)
(***************************************************************************)
EXTENDS Sequences

CONSTANT Packet
VARIABLE queue

Init == queue = <<>>

Send == \E p \in Packet : queue' = Append(queue, p)

Receive == queue # <<>> /\ queue' = Tail(queue)

Next == Send \/ Receive

Spec == Init /\ [][Next]_queue

\* Nothing stays in the queue for ever.
FairSpec == Spec /\ WF_queue(Receive)
=============================================================================
