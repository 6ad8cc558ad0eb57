----------------------------- MODULE PacketQueue ----------------------------
(***************************************************************************)
(* What a queue of the device promises: its packets leave in the order in  *)
(* which they came, and there are at most Capacity of them.                *)
(***************************************************************************)
EXTENDS Naturals, Sequences

CONSTANTS Packet, Capacity

VARIABLE q

Init == q = <<>>

Put == \E p \in Packet : Len(q) < Capacity /\ q' = Append(q, p)

Get == q # <<>> /\ q' = Tail(q)

Next == Put \/ Get

Spec == Init /\ [][Next]_q
=============================================================================
