----------------------------- MODULE SendQueue ------------------------------
(***************************************************************************)
(* The ring buffer of the packets to send (sendQueue): the packets lie in  *)
(* sendBuf from currentSendpos on, nextStorage is the first free position. *)
(***************************************************************************)
EXTENDS Naturals, Sequences

CONSTANTS SendQueueLength, Packet

ASSUME SendQueueAssumption == SendQueueLength \in Nat \ {0}

Positions == 0 .. SendQueueLength - 1

\* A position holds a packet, or "none".
sendQueue == [sendBuf : [Positions -> Packet \cup {"none"}],
              nextStorage : Positions,
              currentSendpos : Positions,
              currentNum : 0 .. SendQueueLength]

\* Mutant: an index may end past the last position.
After_pastend(pos) == IF pos > SendQueueLength THEN 0 ELSE pos + 1

\* The position behind pos.
After(pos) == IF pos + 1 >= SendQueueLength THEN 0 ELSE pos + 1

\* ClearSendQueue ends each buffer before its first octet.
ClearSendQueue == [sendBuf |-> [k \in Positions |-> "none"],
                   nextStorage |-> 0,
                   currentSendpos |-> 0,
                   currentNum |-> 0]

\* A packet is put into the queue, or dropped when the queue is full.
wifi_send_function(Q, packet) ==
  IF Q.currentNum >= SendQueueLength
  THEN Q
  ELSE [sendBuf |-> [Q.sendBuf EXCEPT ![Q.nextStorage] = packet],
        nextStorage |-> After(Q.nextStorage),
        currentSendpos |-> Q.currentSendpos,
        currentNum |-> Q.currentNum + 1]

\* Mutant: the position sent from does not move.
Sent_unmoved(Q) == [Q EXCEPT !.currentNum = @ - 1]

\* The packet at the head, and the queue without it.
First(Q) == Q.sendBuf[Q.currentSendpos]

Sent(Q) == [sendBuf |-> Q.sendBuf,
            nextStorage |-> Q.nextStorage,
            currentSendpos |-> After(Q.currentSendpos),
            currentNum |-> Q.currentNum - 1]

\* The k-th position behind pos, for k at most SendQueueLength.
Behind(pos, k) == IF pos + k >= SendQueueLength THEN pos + k - SendQueueLength ELSE pos + k

\* The queue as a sequence of packets.
Contents(Q) == [k \in 1 .. Q.currentNum |-> Q.sendBuf[Behind(Q.currentSendpos, k - 1)]]
=============================================================================
