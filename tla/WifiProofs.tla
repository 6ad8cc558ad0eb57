---------------------------- MODULE WifiProofs ------------------------------
(***************************************************************************)
(* Proofs about WifiTask for every length of the queue and every choice of *)
(* the gaps and faults.  The queue never holds two packets because the two *)
(* counters run together: while a packet waits, SendCounter is at least    *)
(* PeriodUpdateCounter, and the task looks whether it may send before it   *)
(* looks whether the next packet is due, with at most one tick in between. *)
(***************************************************************************)
EXTENDS WifiTask, TLAPS

-----------------------------------------------------------------------------
(***************************************************************************)
(* The ring buffer, for every length: its operations keep its indices      *)
(* together and do to its contents what a queue does.                      *)
(***************************************************************************)

\* The storage position lies behind the last packet.
Aligned(Q) == Q.nextStorage = Behind(Q.currentSendpos, Q.currentNum)

\* What is in the queue are packets.
Filled(Q) == \A k \in 0 .. Q.currentNum - 1 : Q.sendBuf[Behind(Q.currentSendpos, k)] \in Packet

\* After and Behind stay within the buffer and agree.
LEMMA PositionsWrap ==
  ASSUME NEW pos \in Positions
  PROVE  /\ After(pos) \in Positions
         /\ \A k \in 0 .. SendQueueLength : Behind(pos, k) \in Positions
         /\ \A k \in 0 .. SendQueueLength - 1 : /\ After(Behind(pos, k)) = Behind(pos, k + 1)
                                                /\ Behind(After(pos), k) = Behind(pos, k + 1)
         /\ Behind(pos, 0) = pos
<1>1. After(pos) \in Positions
  BY SendQueueAssumption DEF Positions, After
<1>2. \A k \in 0 .. SendQueueLength : Behind(pos, k) \in Positions
  BY SendQueueAssumption DEF Positions, Behind
<1>3. ASSUME NEW k \in 0 .. SendQueueLength - 1
      PROVE  After(Behind(pos, k)) = Behind(pos, k + 1)
  BY SendQueueAssumption DEF Positions, After, Behind
<1>4. ASSUME NEW k \in 0 .. SendQueueLength - 1
      PROVE  Behind(After(pos), k) = Behind(pos, k + 1)
  BY SendQueueAssumption DEF Positions, After, Behind
<1>5. Behind(pos, 0) = pos
  BY SendQueueAssumption DEF Positions, Behind
<1> QED
  BY <1>1, <1>2, <1>3, <1>4, <1>5

\* No two packets share a position.
LEMMA PositionsDiffer ==
  ASSUME NEW pos \in Positions,
         NEW j \in 0 .. SendQueueLength - 1, NEW k \in 0 .. SendQueueLength - 1, j # k
  PROVE  Behind(pos, j) # Behind(pos, k)
BY SendQueueAssumption DEF Positions, Behind

\* A cleared queue is a queue and is empty.
LEMMA ClearIsEmpty ==
  /\ ClearSendQueue \in sendQueue
  /\ Aligned(ClearSendQueue) /\ Filled(ClearSendQueue)
  /\ Contents(ClearSendQueue) = <<>>
<1>1. 0 \in Positions
  BY SendQueueAssumption DEF Positions
<1>2. ClearSendQueue \in sendQueue
  BY <1>1, SendQueueAssumption DEF ClearSendQueue, sendQueue
<1>3. Aligned(ClearSendQueue) /\ Filled(ClearSendQueue)
  BY <1>1, PositionsWrap DEF Aligned, Filled, ClearSendQueue
<1>4. Contents(ClearSendQueue) = <<>>
  BY DEF Contents, ClearSendQueue
<1> QED
  BY <1>2, <1>3, <1>4

\* The contents are a sequence of packets, and the head is the first.
LEMMA ContentsAreSeq ==
  ASSUME NEW Q \in sendQueue, Filled(Q)
  PROVE  /\ Contents(Q) \in Seq(Packet)
         /\ Len(Contents(Q)) = Q.currentNum
<1>1. Q.currentNum \in Nat
  BY SendQueueAssumption DEF sendQueue
<1>2. \A k \in 1 .. Q.currentNum : Contents(Q)[k] \in Packet
  BY <1>1 DEF Contents, Filled
<1>3. Contents(Q) \in [1 .. Q.currentNum -> Packet]
  BY <1>1, <1>2 DEF Contents
<1> QED
  BY <1>1, <1>3

\* wifi_send_function appends to a queue that is not full.
LEMMA PutAppends ==
  ASSUME NEW Q \in sendQueue, Aligned(Q), Filled(Q), NEW packet \in Packet,
         Q.currentNum < SendQueueLength
  PROVE  LET R == wifi_send_function(Q, packet)
         IN  /\ R \in sendQueue /\ Aligned(R) /\ Filled(R)
             /\ R.currentNum = Q.currentNum + 1
             /\ Contents(R) = Append(Contents(Q), packet)
<1> DEFINE R == wifi_send_function(Q, packet)
           pos == Q.currentSendpos
           n == Q.currentNum
<1>1. /\ pos \in Positions /\ n \in 0 .. SendQueueLength - 1 /\ n \in Nat
      /\ Q.nextStorage = Behind(pos, n) /\ Q.nextStorage \in Positions
      /\ Q.sendBuf \in [Positions -> Packet \cup {"none"}]
  BY SendQueueAssumption DEF sendQueue, Aligned
<1>2. /\ R.sendBuf = [Q.sendBuf EXCEPT ![Behind(pos, n)] = packet]
      /\ R.nextStorage = After(Behind(pos, n))
      /\ R.currentSendpos = pos
      /\ R.currentNum = n + 1
      /\ R = [sendBuf |-> R.sendBuf, nextStorage |-> R.nextStorage,
              currentSendpos |-> R.currentSendpos, currentNum |-> R.currentNum]
  BY <1>1, SendQueueAssumption DEF wifi_send_function, sendQueue
<1>3. /\ After(Behind(pos, n)) = Behind(pos, n + 1)
      /\ Behind(pos, n + 1) \in Positions /\ Behind(pos, n) \in Positions
  BY <1>1, PositionsWrap, SendQueueAssumption
<1> HIDE DEF R
<1>4. R \in sendQueue
  <2>1. n + 1 \in 0 .. SendQueueLength
    BY <1>1, SendQueueAssumption
  <2>2. R.sendBuf \in [Positions -> Packet \cup {"none"}]
    BY <1>1, <1>2
  <2> QED
    BY <1>1, <1>2, <1>3, <2>1, <2>2 DEF sendQueue
<1>5. Aligned(R)
  BY <1>2, <1>3 DEF Aligned
<1>6. \A k \in 0 .. n - 1 : R.sendBuf[Behind(pos, k)] = Q.sendBuf[Behind(pos, k)]
  <2> TAKE k \in 0 .. n - 1
  <2>1. k \in 0 .. SendQueueLength - 1 /\ k # n /\ k \in 0 .. SendQueueLength
    BY <1>1, SendQueueAssumption
  <2>2. Behind(pos, k) # Behind(pos, n) /\ Behind(pos, k) \in Positions
    BY <1>1, <2>1, PositionsDiffer, PositionsWrap
  <2> QED
    BY <1>1, <1>2, <2>2
<1>7. R.sendBuf[Behind(pos, n)] = packet
  BY <1>1, <1>2, <1>3
<1>8. Filled(R)
  <2> SUFFICES ASSUME NEW k \in 0 .. n
               PROVE  R.sendBuf[Behind(pos, k)] \in Packet
    BY <1>1, <1>2 DEF Filled
  <2>1. CASE k = n
    BY <1>7, <2>1
  <2>2. CASE k # n
    <3>1. k \in 0 .. n - 1
      BY <1>1, <2>2
    <3> QED
      BY <1>6, <3>1 DEF Filled
  <2> QED
    BY <2>1, <2>2
<1>9. Contents(R) = Append(Contents(Q), packet)
  <2>1. Contents(Q) \in Seq(Packet) /\ Len(Contents(Q)) = n
    BY ContentsAreSeq
  <2>2. Contents(R) \in Seq(Packet) /\ Len(Contents(R)) = n + 1
    BY <1>2, <1>4, <1>8, ContentsAreSeq
  <2>3. \A k \in 1 .. n : Contents(R)[k] = Contents(Q)[k]
    <3> TAKE k \in 1 .. n
    <3>1. k - 1 \in 0 .. n - 1 /\ k \in 1 .. n + 1
      BY <1>1
    <3> QED
      BY <1>2, <1>6, <3>1 DEF Contents
  <2>4. Contents(R)[n + 1] = packet
    BY <1>1, <1>2, <1>7 DEF Contents
  <2>5. Append(Contents(Q), packet) \in Seq(Packet) /\ Len(Append(Contents(Q), packet)) = n + 1
    BY <2>1
  <2>6. \A k \in 1 .. n + 1 : Contents(R)[k] = Append(Contents(Q), packet)[k]
    BY <1>1, <2>1, <2>3, <2>4
  <2> QED
    BY <2>2, <2>5, <2>6
<1> QED
  BY <1>2, <1>4, <1>5, <1>8, <1>9 DEF R

\* Sending removes the head.
LEMMA SentRemoves ==
  ASSUME NEW Q \in sendQueue, Aligned(Q), Filled(Q), Q.currentNum > 0
  PROVE  LET R == Sent(Q)
         IN  /\ R \in sendQueue /\ Aligned(R) /\ Filled(R)
             /\ R.currentNum = Q.currentNum - 1
             /\ Contents(Q) # <<>>
             /\ Contents(R) = Tail(Contents(Q))
<1> DEFINE R == Sent(Q)
           pos == Q.currentSendpos
           n == Q.currentNum
<1>1. /\ pos \in Positions /\ n \in 1 .. SendQueueLength /\ n \in Nat
      /\ Q.nextStorage = Behind(pos, n) /\ Q.nextStorage \in Positions
      /\ Q.sendBuf \in [Positions -> Packet \cup {"none"}]
  BY SendQueueAssumption DEF sendQueue, Aligned
<1>2. /\ R.sendBuf = Q.sendBuf /\ R.nextStorage = Q.nextStorage
      /\ R.currentSendpos = After(pos) /\ R.currentNum = n - 1
      /\ R = [sendBuf |-> R.sendBuf, nextStorage |-> R.nextStorage,
              currentSendpos |-> R.currentSendpos, currentNum |-> R.currentNum]
  BY <1>1 DEF Sent, sendQueue
<1>3. /\ After(pos) \in Positions
      /\ \A k \in 0 .. SendQueueLength - 1 : Behind(After(pos), k) = Behind(pos, k + 1)
  BY <1>1, PositionsWrap
<1> HIDE DEF R
<1>4. R \in sendQueue
  <2>1. n - 1 \in 0 .. SendQueueLength
    BY <1>1, SendQueueAssumption
  <2> QED
    BY <1>1, <1>2, <1>3, <2>1 DEF sendQueue
<1>5. Aligned(R)
  <2>1. n - 1 \in 0 .. SendQueueLength - 1 /\ (n - 1) + 1 = n
    BY <1>1, SendQueueAssumption
  <2> QED
    BY <1>1, <1>2, <1>3, <2>1 DEF Aligned
<1>6. \A k \in 0 .. n - 2 : R.sendBuf[Behind(After(pos), k)] = Q.sendBuf[Behind(pos, k + 1)]
  <2> TAKE k \in 0 .. n - 2
  <2>1. k \in 0 .. SendQueueLength - 1
    BY <1>1, SendQueueAssumption
  <2> QED
    BY <1>2, <1>3, <2>1
<1>7. Filled(R)
  <2> SUFFICES ASSUME NEW k \in 0 .. n - 2
               PROVE  R.sendBuf[Behind(After(pos), k)] \in Packet
    BY <1>1, <1>2 DEF Filled
  <2>1. k + 1 \in 0 .. n - 1
    BY <1>1
  <2> QED
    BY <1>6, <2>1 DEF Filled
<1>8. Contents(Q) \in Seq(Packet) /\ Len(Contents(Q)) = n /\ Contents(Q) # <<>>
  BY <1>1, ContentsAreSeq
<1>9. Contents(R) = Tail(Contents(Q))
  <2>1. Contents(R) \in Seq(Packet) /\ Len(Contents(R)) = n - 1
    BY <1>2, <1>4, <1>7, ContentsAreSeq
  <2>2. \A k \in 1 .. n - 1 : Contents(R)[k] = Contents(Q)[k + 1]
    <3> TAKE k \in 1 .. n - 1
    <3>1. k - 1 \in 0 .. n - 2 /\ k + 1 \in 1 .. n /\ (k - 1) + 1 = k /\ (k + 1) - 1 = k
      BY <1>1
    <3>2. Contents(R)[k] = R.sendBuf[Behind(After(pos), k - 1)]
      BY <1>2 DEF Contents
    <3>3. Contents(Q)[k + 1] = Q.sendBuf[Behind(pos, k)]
      BY <3>1 DEF Contents
    <3> QED
      BY <1>6, <3>1, <3>2, <3>3
  <2>3. Tail(Contents(Q)) \in Seq(Packet) /\ Len(Tail(Contents(Q))) = n - 1
    BY <1>1, <1>8
  <2>4. \A k \in 1 .. n - 1 : Tail(Contents(Q))[k] = Contents(Q)[k + 1]
    BY <1>1, <1>8
  <2> QED
    BY <2>1, <2>2, <2>3, <2>4
<1> QED
  BY <1>2, <1>4, <1>5, <1>7, <1>8, <1>9 DEF R

-----------------------------------------------------------------------------
(***************************************************************************)
(* The packets in the queue and the counters.                              *)
(***************************************************************************)

\* The packets of a wait are in the queue.
WaitInv == pc = "wait" /\ cmd \in {"CIPSEND", "data"} => WiFisendQueue.currentNum > 0

\* While a packet waits its counter leads.
CounterLead == WiFisendQueue.currentNum > 0 => SendCounter >= PeriodUpdateCounter

\* Sending was not due when the task looked, which is at most one tick ago.
UpdateInv ==
  pc = "update" /\ WiFisendQueue.currentNum > 0 =>
    SendCounter <= SendGap + (IF ticked THEN 1 ELSE 0)

QueueInv == /\ WiFisendQueue \in sendQueue
            /\ Aligned(WiFisendQueue) /\ Filled(WiFisendQueue)

CountersOK == /\ PeriodUpdateCounter \in 0 .. CounterMax
              /\ SendCounter \in 0 .. CounterMax
              /\ ticked \in BOOLEAN

CmdOK == cmd \in Commands \cup {"data"}

IInv == QueueInv /\ CountersOK /\ CmdOK /\ AtMostOnePacket /\ WaitInv /\ CounterLead /\ UpdateInv

\* What the invariant reads.
core == <<pc, cmd, WiFisendQueue, PeriodUpdateCounter, SendCounter, ticked>>

\* The invariant speaks of the queue, the counters and the task's position
\* only: a step that leaves these alone keeps it.
LEMMA CoreUnchanged ==
  ASSUME IInv, UNCHANGED core
  PROVE  IInv'
BY DEF IInv, core, QueueInv, Aligned, Filled, CountersOK, AtMostOnePacket, WaitInv, CounterLead,
       UpdateInv, CmdOK

\* A queue that does not change stays one.
LEMMA QueueUnchanged ==
  ASSUME IInv, UNCHANGED WiFisendQueue
  PROVE  QueueInv' /\ AtMostOnePacket'
BY DEF IInv, QueueInv, Aligned, Filled, AtMostOnePacket

\* A transmission of a packet needs one in the queue.
LEMMA TransmitKeeps ==
  ASSUME IInv, NEW c, Transmit(c),
         UNCHANGED <<WiFisendQueue, PeriodUpdateCounter, SendCounter>>, ticked' \in BOOLEAN,
         c \in Commands \cup {"data"},
         c \in {"CIPSEND", "data"} => WiFisendQueue.currentNum > 0
  PROVE  IInv'
<1>1. QueueInv' /\ AtMostOnePacket'
  BY QueueUnchanged
<1>2. CountersOK' /\ CounterLead'
  BY DEF IInv, CountersOK, CounterLead
<1>3. WaitInv' /\ UpdateInv' /\ CmdOK'
  BY DEF Transmit, WaitInv, UpdateInv, CmdOK
<1> QED
  BY <1>1, <1>2, <1>3 DEF IInv

\* The number of packets is a natural number.
LEMMA NumIsNat == IInv => WiFisendQueue.currentNum \in 0 .. SendQueueLength
BY DEF IInv, QueueInv, sendQueue

\* A tick advances both counters.
LEMMA TickKeeps ==
  ASSUME IInv, Tick
  PROVE  IInv'
<1>1. /\ PeriodUpdateCounter' = Counted(PeriodUpdateCounter)
      /\ SendCounter' = Counted(SendCounter)
      /\ ticked' = ~ Delayed
      /\ Delayed \/ ~ ticked
      /\ UNCHANGED <<pc, cmd, WiFisendQueue>>
  BY DEF Tick, task
<1>2. /\ PeriodUpdateCounter \in 0 .. CounterMax /\ SendCounter \in 0 .. CounterMax
      /\ CounterMax \in Nat /\ SendGap \in Nat
  BY WifiTaskAssumption DEF IInv, CountersOK
<1>3. QueueInv' /\ AtMostOnePacket'
  BY <1>1, QueueUnchanged
<1>4. CountersOK'
  BY <1>1, <1>2 DEF CountersOK, Counted, Delayed
<1>5. WaitInv' /\ CmdOK'
  BY <1>1 DEF IInv, WaitInv, CmdOK
<1>6. CounterLead'
  BY <1>1, <1>2 DEF IInv, CounterLead, Counted
<1>7. UpdateInv'
  <2> SUFFICES ASSUME pc' = "update", WiFisendQueue'.currentNum > 0
               PROVE  SendCounter' <= SendGap + (IF ticked' THEN 1 ELSE 0)
    BY DEF UpdateInv
  <2>1. pc = "update" /\ WiFisendQueue.currentNum > 0 /\ ~ Delayed
    BY <1>1 DEF Delayed
  <2>2. ticked = FALSE /\ ticked' = TRUE
    BY <1>1, <2>1 DEF IInv, CountersOK
  <2>3. SendCounter <= SendGap
    BY <1>2, <2>1, <2>2 DEF IInv, UpdateInv
  <2> QED
    BY <1>1, <1>2, <2>2, <2>3 DEF Counted
<1> QED
  BY <1>3, <1>4, <1>5, <1>6, <1>7 DEF IInv

\* What follows a command of the script is a command of the script.
LEMMA FollowingIsScripted ==
  ASSUME cmd \in Commands, cmd \notin {"TCP", "CIPSEND"}
  PROVE  Following(cmd) \in Commands \ {"CIPSEND"}
<1>1. cmd \in {"RST", "CWMODE", "CWLAP", "CWJAP", "CIFSR", "CIPMUX", "CIPSERVER", "CIPSTO", "UDP"}
  BY DEF Commands, Script
<1>2. Following(cmd) \in {Script[k] : k \in DOMAIN Script}
  BY <1>1 DEF Following, Script
<1>3. "CIPSEND" \notin {Script[k] : k \in DOMAIN Script}
  BY DEF Script
<1> QED
  BY <1>2, <1>3 DEF Commands

\* Where a counter may start.
LEMMA Bounds == CounterMax \in Nat /\ SendGap \in Nat /\ 0 \in 0 .. CounterMax
BY WifiTaskAssumption

\* A packet is put only into an empty queue.
LEMMA PutOnlyIntoEmpty ==
  ASSUME IInv, pc = "update", PeriodUpdateCounter > UpdateGap
  PROVE  WiFisendQueue.currentNum = 0
<1> SUFFICES ASSUME WiFisendQueue.currentNum > 0
             PROVE  FALSE
  BY NumIsNat, SendQueueAssumption
<1>1. /\ SendCounter \in Nat /\ PeriodUpdateCounter \in Nat
      /\ SendGap \in Nat /\ UpdateGap \in Nat /\ SendGap < UpdateGap
  BY WifiTaskAssumption DEF IInv, CountersOK
<1>2. SendCounter <= SendGap + 1
  BY <1>1 DEF IInv, UpdateInv
<1>3. SendCounter >= PeriodUpdateCounter
  BY DEF IInv, CounterLead
<1> QED
  BY <1>1, <1>2, <1>3

\* The wait for an answer, and what follows it.
LEMMA WaitKeeps ==
  ASSUME IInv, WaitsOn \/ Repeats \/ NextCommand \/ Connected \/ PacketSent
  PROVE  IInv'
<1>1. CASE WaitsOn
  <2>1. UNCHANGED core
    BY <1>1 DEF WaitsOn, core, counters
  <2> QED
    BY <2>1, CoreUnchanged
<1>2. CASE Repeats
  <2>1. cmd \in {"CIPSEND", "data"} => WiFisendQueue.currentNum > 0
    BY <1>2 DEF IInv, WaitInv, Repeats, Looks
  <2>2. Transmit(cmd) /\ UNCHANGED <<WiFisendQueue, PeriodUpdateCounter, SendCounter, ticked>>
    BY <1>2 DEF Repeats, counters
  <2>3. ticked' \in BOOLEAN /\ cmd \in Commands \cup {"data"}
    BY <2>2 DEF IInv, CountersOK, CmdOK
  <2> QED
    BY <2>1, <2>2, <2>3, TransmitKeeps
<1>3. CASE NextCommand
  <2> DEFINE c == IF cmd = "CIPSEND" THEN "data" ELSE Following(cmd)
  <2>1. pc = "wait" /\ cmd \notin {"TCP", "data"}
    BY <1>3 DEF NextCommand, Ends, Looks
  <2>2. cmd # "CIPSEND" => c \in Commands \ {"CIPSEND"} /\ c # "data"
    <3>1. cmd \in Commands
      BY <2>1 DEF IInv, CmdOK
    <3>2. "data" \notin Commands
      BY DEF Commands, Script
    <3> QED
      BY <2>1, <3>1, <3>2, FollowingIsScripted
  <2>6. c \in Commands \cup {"data"}
    BY <2>2
  <2>3. c \in {"CIPSEND", "data"} => WiFisendQueue.currentNum > 0
    BY <2>1, <2>2 DEF IInv, WaitInv
  <2>4. Transmit(c) /\ UNCHANGED <<WiFisendQueue, PeriodUpdateCounter, SendCounter, ticked>>
    BY <1>3 DEF NextCommand, counters
  <2>5. ticked' \in BOOLEAN
    BY <2>4 DEF IInv, CountersOK
  <2> HIDE DEF c
  <2> QED
    BY <2>3, <2>4, <2>5, <2>6, TransmitKeeps
<1>4. CASE Connected
  <2>1. pc' = "outer" /\ UNCHANGED <<cmd, WiFisendQueue, PeriodUpdateCounter, SendCounter, ticked>>
    BY <1>4 DEF Connected, counters
  <2>2. QueueInv' /\ AtMostOnePacket'
    BY <2>1, QueueUnchanged
  <2> QED
    BY <2>1, <2>2 DEF IInv, CountersOK, CmdOK, WaitInv, CounterLead, UpdateInv
<1>5. CASE PacketSent
  <2>1. /\ pc = "wait" /\ cmd = "data" /\ pc' = "delay" /\ cmd' = cmd
        /\ WiFisendQueue' = Sent(WiFisendQueue)
        /\ SendCounter' = 0 /\ ticked' = FALSE /\ UNCHANGED PeriodUpdateCounter
    BY <1>5 DEF PacketSent, Ends, Looks
  <2>2. WiFisendQueue.currentNum > 0
    BY <2>1 DEF IInv, WaitInv
  <2>3. QueueInv' /\ WiFisendQueue'.currentNum = WiFisendQueue.currentNum - 1
    BY <2>1, <2>2, SentRemoves DEF IInv, QueueInv
  <2>4. WiFisendQueue'.currentNum = 0
    BY <2>2, <2>3, NumIsNat, SendQueueAssumption DEF IInv, AtMostOnePacket
  <2>5. CountersOK'
    BY <2>1, Bounds DEF IInv, CountersOK
  <2> QED
    BY <2>1, <2>3, <2>4, <2>5 DEF IInv, CmdOK, AtMostOnePacket, WaitInv, CounterLead, UpdateInv
<1> QED
  BY <1>1, <1>2, <1>3, <1>4, <1>5

\* The loop of WiFi_task_entry.
LEMMA LoopKeeps ==
  ASSUME IInv,
         \/ Initialise \/ Serve \/ Disconnected \/ ReceivesData \/ LooksForWork
         \/ Sends \/ SendsNothing \/ PutsPacket \/ PutsNothing
  PROVE  IInv'
<1>1. CASE Initialise
  <2>1. Transmit("RST") /\ UNCHANGED <<WiFisendQueue, PeriodUpdateCounter, SendCounter, ticked>>
    BY <1>1 DEF Initialise, counters, Script
  <2>2. ticked' \in BOOLEAN /\ "RST" \in Commands
    BY <2>1 DEF IInv, CountersOK, Commands, Script
  <2> QED
    BY <2>1, <2>2, TransmitKeeps
<1>2. CASE Serve
  <2>1. /\ pc' = "delay" /\ WiFisendQueue' = ClearSendQueue
        /\ UNCHANGED <<cmd, PeriodUpdateCounter, SendCounter, ticked>>
    BY <1>2 DEF Serve
  <2>2. QueueInv' /\ WiFisendQueue'.currentNum = 0
    BY <2>1, ClearIsEmpty DEF QueueInv, ClearSendQueue
  <2> QED
    BY <2>1, <2>2 DEF IInv, CountersOK, CmdOK, AtMostOnePacket, WaitInv, CounterLead, UpdateInv
<1>3. CASE ReceivesData
  <2>1. UNCHANGED core
    BY <1>3 DEF ReceivesData, core, counters, task
  <2> QED
    BY <2>1, CoreUnchanged
<1>4. CASE Disconnected \/ LooksForWork \/ PutsNothing
  <2>1. /\ pc' \in {"outer", "send", "delay"} /\ ticked' \in BOOLEAN
        /\ UNCHANGED <<cmd, WiFisendQueue, PeriodUpdateCounter, SendCounter>>
    BY <1>4 DEF Disconnected, LooksForWork, PutsNothing, counters, IInv, CountersOK
  <2>2. QueueInv' /\ AtMostOnePacket'
    BY <2>1, QueueUnchanged
  <2> QED
    BY <2>1, <2>2 DEF IInv, CountersOK, CmdOK, WaitInv, CounterLead, UpdateInv
<1>5. CASE Sends
  <2>1. /\ Transmit("CIPSEND") /\ ticked' = FALSE /\ WiFisendQueue.currentNum > 0
        /\ UNCHANGED <<WiFisendQueue, PeriodUpdateCounter, SendCounter>>
    BY <1>5 DEF Sends, SendDue
  <2>2. "CIPSEND" \in Commands
    BY DEF Commands
  <2> QED
    BY <2>1, <2>2, TransmitKeeps
<1>6. CASE SendsNothing
  <2>1. /\ pc' = "update" /\ ~ SendDue
        /\ UNCHANGED <<cmd, WiFisendQueue, PeriodUpdateCounter, SendCounter, ticked>>
    BY <1>6 DEF SendsNothing, counters
  <2>2. QueueInv' /\ AtMostOnePacket'
    BY <2>1, QueueUnchanged
  <2>3. WiFisendQueue.currentNum > 0 => SendCounter <= SendGap
    BY <2>1, WifiTaskAssumption DEF SendDue, IInv, CountersOK
  <2>4. UpdateInv'
    BY <2>1, <2>3, WifiTaskAssumption DEF UpdateInv, IInv, CountersOK
  <2> QED
    BY <2>1, <2>2, <2>4 DEF IInv, CountersOK, CmdOK, WaitInv, CounterLead
<1>7. CASE PutsPacket
  <2>1. /\ pc = "update" /\ PeriodUpdateCounter > UpdateGap
        /\ pc' = "delay" /\ ticked' = FALSE /\ PeriodUpdateCounter' = 0
        /\ UNCHANGED <<cmd, SendCounter>>
    BY <1>7 DEF PutsPacket
  <2>2. PICK packet \in Packet : WiFisendQueue' = wifi_send_function(WiFisendQueue, packet)
    BY <1>7 DEF PutsPacket
  <2>3. WiFisendQueue.currentNum = 0
    BY <2>1, PutOnlyIntoEmpty
  <2>4. QueueInv' /\ WiFisendQueue'.currentNum = 1
    BY <2>2, <2>3, PutAppends, SendQueueAssumption DEF IInv, QueueInv
  <2>5. CountersOK'
    BY <2>1, Bounds DEF IInv, CountersOK
  <2>6. CounterLead'
    <3>1. SendCounter \in Nat
      BY Bounds DEF IInv, CountersOK
    <3> QED
      BY <2>1, <3>1 DEF CounterLead
  <2> QED
    BY <2>1, <2>4, <2>5, <2>6 DEF IInv, CmdOK, AtMostOnePacket, WaitInv, UpdateInv
<1> QED
  BY <1>1, <1>2, <1>3, <1>4, <1>5, <1>6, <1>7

\* The module, the link and the timer touch nothing of the core.
LEMMA OthersKeep ==
  ASSUME IInv, FrameCompletes \/ FrameOverflows \/ ModuleHandles \/ LinkDrops \/ SinkSends
  PROVE  IInv'
<1>1. UNCHANGED core
  BY DEF FrameCompletes, FrameOverflows, ModuleHandles, LinkDrops, SinkSends, core, task, counters
<1> QED
  BY <1>1, CoreUnchanged

\* The state at the start of the task satisfies the inductive invariant.
LEMMA InitInv == Init => IInv
<1> SUFFICES ASSUME Init
             PROVE  IInv
  OBVIOUS
<1>1. QueueInv
  BY ClearIsEmpty DEF Init, QueueInv
<1>2. WiFisendQueue.currentNum = 0
  BY DEF Init, ClearSendQueue
<1>3. CmdOK
  BY DEF Init, CmdOK, Commands, Script
<1>4. CountersOK
  BY Bounds DEF Init, CountersOK
<1> QED
  BY <1>1, <1>2, <1>3, <1>4 DEF Init, IInv, AtMostOnePacket, WaitInv, CounterLead, UpdateInv

\* Every step of the task, of the timers and of the module keeps the
\* inductive invariant.
LEMMA StepInv == IInv /\ [Next]_vars => IInv'
<1> SUFFICES ASSUME IInv, [Next]_vars
             PROVE  IInv'
  OBVIOUS
<1>1. CASE UNCHANGED vars
  BY <1>1, CoreUnchanged DEF vars, flexible, task, counters, core
<1> QED
  BY <1>1, TickKeeps, WaitKeeps, LoopKeeps, OthersKeep DEF Next, WiFi_task_entry

\* The queue never holds two packets, for every gap between transmissions
\* below the gap between periodic packets (lines 167 and 206).
THEOREM NeverTwoPackets == Spec => []AtMostOnePacket
<1>1. IInv => AtMostOnePacket
  BY DEF IInv
<1> QED
  BY InitInv, StepInv, <1>1, PTL DEF Spec

\* The indices of the ring buffer and its contents agree.
THEOREM RingCorrect == Spec => []RingOK
<1>1. IInv => RingOK
  <2> SUFFICES ASSUME IInv
               PROVE  RingOK
    OBVIOUS
  <2>1. WiFisendQueue.nextStorage = Behind(WiFisendQueue.currentSendpos, WiFisendQueue.currentNum)
    BY DEF IInv, QueueInv, Aligned
  <2>2. \A k \in 1 .. WiFisendQueue.currentNum : Contents(WiFisendQueue)[k] \in Packet
    BY NumIsNat, SendQueueAssumption DEF IInv, QueueInv, Filled, Contents
  <2> QED
    BY <2>1, <2>2 DEF RingOK
<1> QED
  BY InitInv, StepInv, <1>1, PTL DEF Spec

-----------------------------------------------------------------------------
(***************************************************************************)
(* The types of everything else.                                           *)
(***************************************************************************)
TaskTypes == /\ pc \in {"outer", "wait", "delay", "send", "update"}
             /\ cmd \in Commands \cup {"data"}
             /\ waittime \in 0 .. WaitTime - 1
             /\ DEVICE_STATE \in {0, 1} /\ PeriodUpdateEnable \in {0, 1}

ReceiverTypes == text \subseteq Words /\ done \in BOOLEAN /\ timed \in BOOLEAN

LineTypes == line \in Seq(Commands \cup Packet) /\ Len(line) <= MaxPending

LinkTypes == /\ faults \in FaultSets
             /\ accepting \in BOOLEAN
             /\ link \in {"up", "down"}
             /\ delivered \in Packet \cup {"none"} /\ last \in Packet \cup {"none"}

TypeInv == IInv /\ TaskTypes /\ ReceiverTypes /\ LineTypes /\ LinkTypes

\* A receiver that is given words, or is cleared, stays one.
LEMMA ReceiverKeeps ==
  ASSUME ReceiverTypes,
         \/ \E words \in SUBSET Words : Receive(words)
         \/ Cleared \/ ClearedIfDone \/ UNCHANGED receiver
  PROVE  ReceiverTypes'
BY DEF ReceiverTypes, Receive, Cleared, ClearedIfDone, receiver

\* A packet that waits for its answer is at the head of the queue.
LEMMA HeadIsPacket ==
  ASSUME IInv, WiFisendQueue.currentNum > 0
  PROVE  First(WiFisendQueue) \in Packet
<1>1. 0 \in 0 .. WiFisendQueue.currentNum - 1 /\ WiFisendQueue.currentSendpos \in Positions
  BY NumIsNat, SendQueueAssumption DEF IInv, QueueInv, sendQueue
<1>2. WiFisendQueue.sendBuf[Behind(WiFisendQueue.currentSendpos, 0)] \in Packet
  BY <1>1 DEF IInv, QueueInv, Filled
<1> QED
  BY <1>1, <1>2, PositionsWrap DEF First

\* What is written to the module is a command or a packet.
LEMMA TransmitTypes ==
  ASSUME TypeInv, NEW c \in Commands \cup {"data"}, Transmit(c),
         c = "data" => WiFisendQueue.currentNum > 0
  PROVE  /\ pc' = "wait" /\ cmd' \in Commands \cup {"data"} /\ waittime' \in 0 .. WaitTime - 1
         /\ ReceiverTypes' /\ LineTypes'
<1>1. ReceiverTypes'
  BY ReceiverKeeps DEF Transmit, TypeInv
<1>2. LineTypes'
  <2> DEFINE item == IF c = "data" THEN First(WiFisendQueue) ELSE c
  <2>1. item \in Commands \cup Packet
    BY HeadIsPacket DEF TypeInv
  <2>2. line' = IF Len(line) < MaxPending THEN Append(line, item) ELSE line
    BY DEF Transmit
  <2>3. line \in Seq(Commands \cup Packet) /\ Len(line) <= MaxPending /\ MaxPending \in Nat
    BY WifiTaskAssumption DEF TypeInv, LineTypes
  <2> HIDE DEF item
  <2> QED
    BY <2>1, <2>2, <2>3 DEF LineTypes
<1>3. pc' = "wait" /\ cmd' = c /\ waittime' = WaitTime - 1
  BY DEF Transmit
<1>4. WaitTime - 1 \in 0 .. WaitTime - 1
  BY WifiTaskAssumption
<1> QED
  BY <1>1, <1>2, <1>3, <1>4

\* The task keeps the types.
LEMMA TaskKeepsTypes ==
  ASSUME TypeInv, WiFi_task_entry, UNCHANGED faults
  PROVE  TaskTypes' /\ ReceiverTypes' /\ LineTypes' /\ LinkTypes'
<1>1. IInv /\ TaskTypes /\ ReceiverTypes /\ LineTypes /\ LinkTypes
  BY DEF TypeInv
<1>2. CASE Initialise
  <2>1. Transmit("RST") /\ "RST" \in Commands \cup {"data"}
    BY <1>2 DEF Initialise, Script, Commands
  <2>2. UNCHANGED <<DEVICE_STATE, PeriodUpdateEnable, faults, link, accepting, delivered, last>>
    BY <1>2 DEF Initialise, counters
  <2> QED
    BY <1>1, <2>1, <2>2, TransmitTypes DEF TaskTypes, LinkTypes
<1>3. CASE Repeats
  <2>1. Transmit(cmd) /\ cmd \in Commands \cup {"data"}
    BY <1>1, <1>3 DEF Repeats, TaskTypes
  <2>2. cmd = "data" => WiFisendQueue.currentNum > 0
    BY <1>1, <1>3 DEF Repeats, Looks, IInv, WaitInv
  <2>3. UNCHANGED <<DEVICE_STATE, PeriodUpdateEnable, faults, link, accepting, delivered, last>>
    BY <1>3 DEF Repeats, counters
  <2> QED
    BY <1>1, <2>1, <2>2, <2>3, TransmitTypes DEF TaskTypes, LinkTypes
<1>4. CASE NextCommand
  <2> DEFINE c == IF cmd = "CIPSEND" THEN "data" ELSE Following(cmd)
  <2>1. pc = "wait" /\ cmd \notin {"TCP", "data"} /\ Transmit(c)
    BY <1>4 DEF NextCommand, Ends, Looks
  <2>2. cmd # "CIPSEND" => c \in Commands
    BY <1>1, <2>1, FollowingIsScripted DEF TaskTypes
  <2>3. cmd = "CIPSEND" => WiFisendQueue.currentNum > 0
    BY <1>1, <2>1 DEF IInv, WaitInv
  <2>4. "data" \notin Commands
    BY DEF Commands, Script
  <2>5. UNCHANGED <<DEVICE_STATE, PeriodUpdateEnable, faults, link, accepting, delivered, last>>
    BY <1>4 DEF NextCommand, counters
  <2>6. c \in Commands \cup {"data"} /\ (c = "data" => WiFisendQueue.currentNum > 0)
    BY <2>2, <2>3, <2>4
  <2> HIDE DEF c
  <2> QED
    BY <1>1, <2>1, <2>5, <2>6, TransmitTypes DEF TaskTypes, LinkTypes
<1>5. CASE Sends
  <2>1. Transmit("CIPSEND") /\ "CIPSEND" \in Commands \cup {"data"}
    BY <1>5 DEF Sends, Commands
  <2>2. UNCHANGED <<DEVICE_STATE, PeriodUpdateEnable, faults, link, accepting, delivered, last>>
    BY <1>5 DEF Sends
  <2> QED
    BY <1>1, <2>1, <2>2, TransmitTypes DEF TaskTypes, LinkTypes
<1>6. CASE WaitsOn
  <2>1. waittime' \in 0 .. WaitTime - 1
    BY <1>1, <1>6, WifiTaskAssumption DEF WaitsOn, TaskTypes
  <2>2. ReceiverTypes'
    BY <1>1, <1>6, ReceiverKeeps DEF WaitsOn
  <2> QED
    BY <1>1, <1>6, <2>1, <2>2 DEF WaitsOn, TaskTypes, LineTypes, LinkTypes, counters, module
<1>7. CASE Connected \/ PacketSent \/ Serve \/ Disconnected
  <2>1. ReceiverTypes'
    BY <1>1, <1>7, ReceiverKeeps DEF Connected, PacketSent, Serve, Disconnected
  <2> QED
    BY <1>1, <1>7, <2>1
       DEF Connected, PacketSent, Serve, Disconnected, TaskTypes, LineTypes, LinkTypes, counters, module
<1>8. CASE ReceivesData \/ LooksForWork \/ SendsNothing \/ PutsNothing
  <2>1. ReceiverTypes'
    BY <1>1, <1>8, ReceiverKeeps DEF ReceivesData, LooksForWork, SendsNothing, PutsNothing
  <2> QED
    BY <1>1, <1>8, <2>1
       DEF ReceivesData, LooksForWork, SendsNothing, PutsNothing, TaskTypes, LineTypes, LinkTypes,
           counters, module, task
<1>9. CASE PutsPacket
  <2>1. ReceiverTypes'
    BY <1>1, <1>9, ReceiverKeeps DEF PutsPacket
  <2>2. pc' = "delay" /\ delivered' = "none" /\ last' \in Packet
    BY <1>9 DEF PutsPacket
  <2>3. UNCHANGED <<cmd, waittime, DEVICE_STATE, PeriodUpdateEnable, line, link, accepting, faults>>
    BY <1>9 DEF PutsPacket, module
  <2> QED
    BY <1>1, <2>1, <2>2, <2>3 DEF TaskTypes, LineTypes, LinkTypes
<1> QED
  BY <1>2, <1>3, <1>4, <1>5, <1>6, <1>7, <1>8, <1>9 DEF WiFi_task_entry

\* The module answers in words the task knows.
LEMMA AnswerIsWords == \A c : Answer(c) \subseteq Words
BY DEF Answer, Words

\* The module, the link and the timers keep the types.
LEMMA OthersKeepTypes ==
  ASSUME TypeInv, UNCHANGED faults,
         \/ Tick \/ FrameCompletes \/ FrameOverflows \/ ModuleHandles \/ LinkDrops \/ SinkSends
  PROVE  TaskTypes' /\ ReceiverTypes' /\ LineTypes' /\ LinkTypes'
<1>1. IInv /\ TaskTypes /\ ReceiverTypes /\ LineTypes /\ LinkTypes
  BY DEF TypeInv
<1>2. CASE Tick
  BY <1>1, <1>2 DEF Tick, TaskTypes, ReceiverTypes, LineTypes, LinkTypes, task, receiver, module
<1>3. CASE FrameCompletes \/ FrameOverflows
  <2>1. ReceiverTypes'
    BY <1>1, <1>3 DEF FrameCompletes, FrameOverflows, ReceiverTypes
  <2> QED
    BY <1>1, <1>3, <2>1
       DEF FrameCompletes, FrameOverflows, TaskTypes, LineTypes, LinkTypes, task, counters, module
<1>4. CASE ModuleHandles
  <2>1. line # <<>> /\ line' = Tail(line) /\ UNCHANGED <<task, counters, last>>
    BY <1>4 DEF ModuleHandles
  <2>2. LineTypes'
    BY <1>1, <2>1, WifiTaskAssumption DEF LineTypes
  <2>3. \E words \in SUBSET Words : Receive(words)
    <3>1. CASE TakeData
      BY <3>1 DEF TakeData, Words
    <3>2. CASE TakeCommand
      BY <3>2, AnswerIsWords DEF TakeCommand, Words
    <3>3. CASE Refuse
      BY <3>3 DEF Refuse, Words
    <3> QED
      BY <1>4, <3>1, <3>2, <3>3 DEF ModuleHandles
  <2>4. LinkTypes'
    <3>1. CASE TakeData
      BY <1>1, <2>1, <3>1 DEF TakeData, LinkTypes
    <3>2. CASE TakeCommand
      <4>1. link' \in {"up", "down"}
        BY <1>1, <3>2, Zenon DEF TakeCommand, LinkTypes
      <4>2. accepting' \in BOOLEAN /\ delivered' = delivered
        BY <3>2 DEF TakeCommand
      <4> QED
        BY <1>1, <2>1, <4>1, <4>2 DEF LinkTypes
    <3>3. CASE Refuse
      BY <1>1, <2>1, <3>3 DEF Refuse, LinkTypes
    <3> QED
      BY <1>4, <3>1, <3>2, <3>3 DEF ModuleHandles
  <2> QED
    BY <1>1, <2>1, <2>2, <2>3, <2>4, ReceiverKeeps DEF TaskTypes, task, counters
<1>5. CASE LinkDrops \/ SinkSends
  <2>1. \E words \in SUBSET Words : Receive(words)
    BY <1>5 DEF LinkDrops, SinkSends, Words
  <2> QED
    BY <1>1, <1>5, <2>1, ReceiverKeeps
       DEF LinkDrops, SinkSends, TaskTypes, LineTypes, LinkTypes, task, counters, module
<1> QED
  BY <1>2, <1>3, <1>4, <1>5

\* The task starts with its types.
LEMMA InitTypes == Init => TypeInv
<1> SUFFICES ASSUME Init
             PROVE  TypeInv
  OBVIOUS
<1>1. TaskTypes
  BY WifiTaskAssumption DEF Init, TaskTypes, Commands, Script
<1>2. ReceiverTypes
  BY DEF Init, ReceiverTypes
<1>3. LineTypes
  BY WifiTaskAssumption DEF Init, LineTypes
<1>4. LinkTypes
  BY DEF Init, LinkTypes
<1> QED
  BY <1>1, <1>2, <1>3, <1>4, InitInv DEF TypeInv

\* Every step keeps the types.
LEMMA StepTypes == TypeInv /\ [Next]_vars => TypeInv'
<1> SUFFICES ASSUME TypeInv, [Next]_vars
             PROVE  TypeInv'
  OBVIOUS
<1>1. IInv'
  BY StepInv DEF TypeInv
<1>2. CASE UNCHANGED vars
  BY <1>1, <1>2 DEF TypeInv, TaskTypes, ReceiverTypes, LineTypes, LinkTypes, vars, flexible, task,
                    counters, receiver, module
<1>3. CASE Next
  BY <1>1, <1>3, TaskKeepsTypes, OthersKeepTypes DEF Next, TypeInv
<1> QED
  BY <1>2, <1>3

\* Every variable of the task, the receiver and the module keeps its type.
THEOREM TypeCorrect == Spec => []TypeOK
<1>1. TypeInv => TypeOK
  BY DEF TypeInv, IInv, QueueInv, CountersOK, TaskTypes, ReceiverTypes, LineTypes, LinkTypes, TypeOK
<1> QED
  BY InitTypes, StepTypes, <1>1, PTL DEF Spec

-----------------------------------------------------------------------------
(***************************************************************************)
(* What the module answers, when it answers before the task looks.         *)
(***************************************************************************)

\* What Transmit(c) writes.
Written(c) == IF c = "data" THEN First(WiFisendQueue) ELSE c

\* Only what the task waits for is on its way to the module.
OnItsWay ==
  line = <<>> \/ (pc = "wait" /\ line = <<Written(cmd)>> /\ 0 < MaxPending)

\* The module expects data only where the task is about to write them, or has
\* just written them.
Announced ==
  accepting =>
    /\ pc = "wait" /\ 0 < MaxPending
    /\ \/ cmd = "CIPSEND" /\ line = <<>>
       \/ cmd = "data" /\ line = <<First(WiFisendQueue)>>

\* OK answers data only when they were passed on.
OKMeansDelivered ==
  pc = "wait" /\ cmd = "data" /\ "OK" \in text => delivered = First(WiFisendQueue)

AnswersInTime == "late" \notin faults => OnItsWay /\ Announced /\ OKMeansDelivered

AnswerInv == TypeInv /\ AnswersInTime

\* Nothing is on its way to the module when the task ends its wait.
LEMMA NothingLeft ==
  ASSUME AnswerInv, "late" \notin faults, Looks
  PROVE  line = <<>> /\ (accepting => cmd = "CIPSEND")
BY DEF AnswerInv, AnswersInTime, Announced, Looks

\* A transmission from an empty line: a command, or data that may have been
\* announced.
LEMMA TransmitAnswers ==
  ASSUME AnswerInv, "late" \notin faults, line = <<>>,
         NEW c \in Commands \cup {"data"}, Transmit(c),
         accepting => c = "data",
         UNCHANGED <<WiFisendQueue, accepting, delivered, faults>>
  PROVE  AnswersInTime'
<1>1. /\ pc' = "wait" /\ cmd' = c /\ text' = {}
      /\ line' = IF 0 < MaxPending THEN <<Written(c)>> ELSE <<>>
  BY DEF Transmit, Cleared, Written
<1>2. Written(c) = Written(cmd)'
  BY <1>1 DEF Written, First
<1>3. OnItsWay'
  BY <1>1, <1>2 DEF OnItsWay
<1>4. accepting => 0 < MaxPending
  BY DEF AnswerInv, AnswersInTime, Announced
<1>5. Announced'
  BY <1>1, <1>4 DEF Announced, Written, First
<1>6. OKMeansDelivered'
  BY <1>1 DEF OKMeansDelivered
<1> QED
  BY <1>3, <1>5, <1>6 DEF AnswersInTime

\* The task waits for one answer at a time.
LEMMA TaskKeepsAnswers ==
  ASSUME AnswerInv, WiFi_task_entry, UNCHANGED faults, "late" \notin faults
  PROVE  AnswersInTime'
<1>1. OnItsWay /\ Announced /\ OKMeansDelivered /\ CmdOK
  BY DEF AnswerInv, AnswersInTime, TypeInv, IInv
<1>2. CASE Initialise
  <2>1. Transmit("RST") /\ "RST" \in Commands \cup {"data"}
    BY <1>2 DEF Initialise, Script, Commands
  <2>2. line = <<>> /\ ~ accepting
    BY <1>1, <1>2 DEF Initialise, OnItsWay, Announced
  <2>3. UNCHANGED <<WiFisendQueue, accepting, delivered, faults>>
    BY <1>2 DEF Initialise
  <2> QED
    BY <2>1, <2>2, <2>3, TransmitAnswers
<1>3. CASE Repeats
  <2>1. Transmit(cmd) /\ cmd \in Commands \cup {"data"} /\ Looks /\ cmd \in Repeated
    BY <1>1, <1>3 DEF Repeats, CmdOK
  <2>2. line = <<>> /\ ~ accepting
    BY <2>1, NothingLeft DEF Repeated
  <2>3. UNCHANGED <<WiFisendQueue, accepting, delivered, faults>>
    BY <1>3 DEF Repeats
  <2> QED
    BY <2>1, <2>2, <2>3, TransmitAnswers
<1>4. CASE NextCommand
  <2> DEFINE c == IF cmd = "CIPSEND" THEN "data" ELSE Following(cmd)
  <2>1. Looks /\ cmd \notin {"TCP", "data"} /\ Transmit(c)
    BY <1>4 DEF NextCommand, Ends
  <2>2. c \in Commands \cup {"data"}
    BY <1>1, <2>1, FollowingIsScripted DEF CmdOK
  <2>3. line = <<>> /\ (accepting => c = "data")
    BY <2>1, NothingLeft
  <2>4. UNCHANGED <<WiFisendQueue, accepting, delivered, faults>>
    BY <1>4 DEF NextCommand
  <2> HIDE DEF c
  <2> QED
    BY <2>1, <2>2, <2>3, <2>4, TransmitAnswers
<1>5. CASE Sends
  <2>1. Transmit("CIPSEND") /\ "CIPSEND" \in Commands \cup {"data"}
    BY <1>5 DEF Sends, Commands
  <2>2. line = <<>> /\ ~ accepting
    BY <1>1, <1>5 DEF Sends, OnItsWay, Announced
  <2>3. UNCHANGED <<WiFisendQueue, accepting, delivered, faults>>
    BY <1>5 DEF Sends
  <2> QED
    BY <2>1, <2>2, <2>3, TransmitAnswers
<1>6. CASE WaitsOn
  <2>1. UNCHANGED <<pc, cmd, line, accepting, delivered, WiFisendQueue>> /\ text' \subseteq text
    BY <1>6 DEF WaitsOn, ClearedIfDone, Cleared, receiver, module
  <2> QED
    BY <1>1, <2>1 DEF AnswersInTime, OnItsWay, Announced, OKMeansDelivered, Written, First
<1>7. CASE Connected \/ PacketSent
  <2>1. Looks /\ cmd \in {"TCP", "data"} /\ pc' \in {"outer", "delay"} /\ UNCHANGED <<line, accepting>>
    BY <1>7 DEF Connected, PacketSent, Ends, module
  <2>2. line = <<>> /\ ~ accepting
    BY <2>1, NothingLeft
  <2> QED
    BY <2>1, <2>2 DEF AnswersInTime, OnItsWay, Announced, OKMeansDelivered
<1>8. CASE \/ Serve \/ Disconnected \/ ReceivesData \/ LooksForWork \/ SendsNothing
           \/ PutsPacket \/ PutsNothing
  <2>1. pc # "wait" /\ pc' # "wait" /\ UNCHANGED <<line, accepting>>
    BY <1>8 DEF Serve, Disconnected, ReceivesData, LooksForWork, SendsNothing, PutsPacket, PutsNothing,
                task, module
  <2> QED
    BY <1>1, <2>1 DEF AnswersInTime, OnItsWay, Announced, OKMeansDelivered
<1> QED
  BY <1>2, <1>3, <1>4, <1>5, <1>6, <1>7, <1>8 DEF WiFi_task_entry

\* The module answers what is on its way.
LEMMA ModuleKeepsAnswers ==
  ASSUME AnswerInv, ModuleHandles, UNCHANGED faults, "late" \notin faults
  PROVE  AnswersInTime'
<1>1. OnItsWay /\ Announced /\ OKMeansDelivered /\ CmdOK /\ IInv
  BY DEF AnswerInv, AnswersInTime, TypeInv, IInv
<1>2. UNCHANGED <<pc, cmd, WiFisendQueue>>
  BY DEF ModuleHandles, task
<1>3. pc = "wait" /\ line = <<Written(cmd)>> /\ 0 < MaxPending
  BY <1>1 DEF ModuleHandles, OnItsWay
<1>4. Head(line) = Written(cmd) /\ line' = <<>>
  BY <1>3 DEF ModuleHandles
<1>5. OnItsWay'
  BY <1>4 DEF OnItsWay
<1>6. cmd = "data" => Head(line) \in Packet /\ Head(line) \notin Commands
  BY <1>1, <1>3, <1>4, HeadIsPacket, PacketAssumption DEF Written, IInv, WaitInv
<1>7. CASE TakeData
  <2>1. cmd = "data" /\ delivered' = First(WiFisendQueue) /\ accepting' = FALSE
    BY <1>1, <1>3, <1>4, <1>6, <1>7 DEF TakeData, Announced, Written
  <2>2. Announced'
    BY <2>1 DEF Announced
  <2>3. OKMeansDelivered'
    BY <1>2, <2>1 DEF OKMeansDelivered, First
  <2> QED
    BY <1>5, <2>2, <2>3 DEF AnswersInTime
<1>8. CASE TakeCommand
  <2>1. cmd # "data" /\ Head(line) = cmd
    BY <1>4, <1>6, <1>8 DEF TakeCommand, Written
  <2>2. accepting' => cmd = "CIPSEND"
    BY <1>8, <2>1 DEF TakeCommand
  <2> QED
    BY <1>2, <1>3, <1>4, <1>5, <2>1, <2>2 DEF AnswersInTime, Announced, OKMeansDelivered
<1>9. CASE Refuse
  <2>1. ~ accepting' /\ delivered' = delivered /\ ("OK" \in text' => "OK" \in text)
    BY <1>9 DEF Refuse, Receive, receiver
  <2>2. OKMeansDelivered'
    BY <1>1, <1>2, <2>1 DEF OKMeansDelivered, First
  <2> QED
    BY <1>5, <2>1, <2>2 DEF AnswersInTime, Announced
<1> QED
  BY <1>7, <1>8, <1>9 DEF ModuleHandles

\* The link and the timers say OK to nothing.
LEMMA OthersKeepAnswers ==
  ASSUME AnswerInv, UNCHANGED faults, "late" \notin faults,
         Tick \/ FrameCompletes \/ FrameOverflows \/ LinkDrops \/ SinkSends
  PROVE  AnswersInTime'
<1>1. OnItsWay /\ Announced /\ OKMeansDelivered
  BY DEF AnswerInv, AnswersInTime
<1>2. /\ UNCHANGED <<pc, cmd, WiFisendQueue, line, delivered>>
      /\ accepting' => accepting
      /\ "OK" \in text' => "OK" \in text
  <2>1. CASE Tick
    BY <2>1 DEF Tick, task, receiver, module
  <2>2. CASE FrameCompletes \/ FrameOverflows
    BY <2>2 DEF FrameCompletes, FrameOverflows, task, module
  <2>3. CASE LinkDrops \/ SinkSends
    BY <2>3 DEF LinkDrops, SinkSends, Receive, task, receiver, module
  <2> QED
    BY <2>1, <2>2, <2>3
<1> QED
  BY <1>1, <1>2 DEF AnswersInTime, OnItsWay, Announced, OKMeansDelivered, Written, First

\* The task starts with nothing on its way.
LEMMA InitAnswers == Init => AnswerInv
BY InitTypes DEF Init, AnswerInv, AnswersInTime, OnItsWay, Announced, OKMeansDelivered

\* Every step keeps what the answers mean.
LEMMA StepAnswers == AnswerInv /\ [Next]_vars => AnswerInv'
<1> SUFFICES ASSUME AnswerInv, [Next]_vars
             PROVE  AnswerInv'
  OBVIOUS
<1>1. TypeInv'
  BY StepTypes DEF AnswerInv
<1>2. faults' = faults
  BY DEF Next, vars
<1>3. CASE "late" \in faults
  BY <1>1, <1>2, <1>3 DEF AnswerInv, AnswersInTime
<1>4. CASE "late" \notin faults /\ UNCHANGED vars
  BY <1>1, <1>4
     DEF AnswerInv, AnswersInTime, OnItsWay, Announced, OKMeansDelivered, Written, First, vars, flexible,
         task, receiver, module
<1>5. CASE "late" \notin faults /\ Next
  BY <1>1, <1>2, <1>5, TaskKeepsAnswers, ModuleKeepsAnswers, OthersKeepAnswers DEF Next, AnswerInv
<1> QED
  BY <1>3, <1>4, <1>5

\* With a module that answers in time, every packet that leaves the queue was
\* passed on to the sink (TCPtransmitUP).
THEOREM NoPacketIsLost == Spec => RemovedIsDelivered
<1>1. AnswerInv /\ [Next]_vars
        => ["late" \notin faults /\ PacketSent => delivered = First(WiFisendQueue)]_vars
  <2> SUFFICES ASSUME AnswerInv, "late" \notin faults, PacketSent
               PROVE  delivered = First(WiFisendQueue)
    OBVIOUS
  <2>1. pc = "wait" /\ cmd = "data" /\ Answered
    BY DEF PacketSent, Ends, Looks, Repeated
  <2>2. "OK" \in text
    BY <2>1, Zenon DEF Answered, Ack
  <2> QED
    BY <2>1, <2>2 DEF AnswerInv, AnswersInTime, OKMeansDelivered
<1> QED
  BY InitAnswers, StepAnswers, <1>1, PTL DEF Spec, RemovedIsDelivered

\* With a module that answers in time, what follows an announcement is the
\* packet announced (TCPtransmitUP).
THEOREM AnnouncementsHold == Spec => AnnouncedIsSent
<1>1. AnswerInv /\ [Next]_vars
        => ["late" \notin faults /\ ModuleHandles /\ accepting => Head(line) = First(WiFisendQueue)]_vars
  <2> SUFFICES ASSUME AnswerInv, "late" \notin faults, ModuleHandles, accepting
               PROVE  Head(line) = First(WiFisendQueue)
    OBVIOUS
  <2>1. line = <<First(WiFisendQueue)>>
    BY DEF ModuleHandles, AnswerInv, AnswersInTime, Announced
  <2> QED
    BY <2>1
<1> QED
  BY InitAnswers, StepAnswers, <1>1, PTL DEF Spec, AnnouncedIsSent

-----------------------------------------------------------------------------
(***************************************************************************)
(* Retries.                                                                *)
(***************************************************************************)

\* As long as the data of a packet were not written, and while the module
\* still expects them, the packet was not passed on.
NotYet ==
  /\ accepting => delivered = "none"
  /\ WiFisendQueue.currentNum > 0 /\ ~ (pc = "wait" /\ cmd = "data") => delivered = "none"

OnceInv == AnswerInv /\ ("late" \notin faults => NotYet)

\* Data are written only after an announcement, and only a new packet is
\* announced.
LEMMA TaskKeepsNotYet ==
  ASSUME AnswerInv, NotYet, WiFi_task_entry
  PROVE  NotYet'
<1>1. /\ IInv /\ CmdOK /\ "data" \notin Commands
  BY DEF AnswerInv, TypeInv, IInv, Commands, Script
<1>2. CASE Initialise \/ NextCommand \/ Sends \/ Repeats
  <2>1. PICK c : Transmit(c) /\ (c # "data" => ~ (pc = "wait" /\ cmd = "data"))
    <3>1. CASE Initialise
      BY <3>1 DEF Initialise
    <3>2. CASE NextCommand
      BY <3>2 DEF NextCommand
    <3>3. CASE Sends
      BY <3>3 DEF Sends
    <3>4. CASE Repeats
      BY <3>4 DEF Repeats
    <3> QED
      BY <1>2, <3>1, <3>2, <3>3, <3>4
  <2>2. UNCHANGED <<WiFisendQueue, accepting, delivered>>
    BY <1>2 DEF Initialise, NextCommand, Sends, Repeats
  <2>3. pc' = "wait" /\ cmd' = c
    BY <2>1 DEF Transmit
  <2> QED
    BY <2>1, <2>2, <2>3 DEF NotYet
<1>3. CASE PacketSent
  <2>1. /\ pc = "wait" /\ cmd = "data" /\ WiFisendQueue' = Sent(WiFisendQueue)
        /\ UNCHANGED <<accepting, delivered>>
    BY <1>3 DEF PacketSent, Ends, Looks, module
  <2>2. WiFisendQueue'.currentNum = WiFisendQueue.currentNum - 1
    BY <2>1 DEF Sent
  <2>3. ~ (WiFisendQueue'.currentNum > 0)
    BY <1>1, <2>2, NumIsNat, SendQueueAssumption DEF IInv, AtMostOnePacket
  <2> QED
    BY <2>1, <2>3 DEF NotYet
<1>4. CASE PutsPacket
  BY <1>4 DEF PutsPacket, NotYet
<1>5. CASE Serve
  <2>1. WiFisendQueue'.currentNum = 0 /\ UNCHANGED <<accepting, delivered>>
    BY <1>5 DEF Serve, ClearSendQueue, module
  <2> QED
    BY <2>1 DEF NotYet
<1>6. CASE \/ WaitsOn \/ Connected \/ Disconnected \/ ReceivesData \/ LooksForWork
           \/ SendsNothing \/ PutsNothing
  <2>1. UNCHANGED <<WiFisendQueue, accepting, delivered>>
    BY <1>6 DEF WaitsOn, Connected, Disconnected, ReceivesData, LooksForWork, SendsNothing,
                PutsNothing, module
  <2>2. pc = "wait" /\ cmd = "data" => pc' = "wait" /\ cmd' = "data"
    BY <1>6 DEF WaitsOn, Connected, Disconnected, ReceivesData, LooksForWork, SendsNothing,
                PutsNothing, task
  <2> QED
    BY <2>1, <2>2 DEF NotYet
<1> QED
  BY <1>2, <1>3, <1>4, <1>5, <1>6 DEF WiFi_task_entry

\* The module expects data after an announcement only, and takes them once.
LEMMA ModuleKeepsNotYet ==
  ASSUME AnswerInv, "late" \notin faults, NotYet, ModuleHandles
  PROVE  NotYet'
<1>1. OnItsWay /\ Announced /\ IInv /\ CmdOK
  BY DEF AnswerInv, AnswersInTime, TypeInv, IInv
<1>2. UNCHANGED <<pc, cmd, WiFisendQueue>>
  BY DEF ModuleHandles, task
<1>3. pc = "wait" /\ line = <<Written(cmd)>>
  BY <1>1 DEF ModuleHandles, OnItsWay
<1>4. Head(line) = Written(cmd)
  BY <1>3
<1>5. cmd = "data" => Head(line) \in Packet /\ Head(line) \notin Commands
  BY <1>1, <1>3, <1>4, HeadIsPacket, PacketAssumption DEF Written, IInv, WaitInv
<1>6. CASE TakeData
  <2>1. cmd = "data"
    BY <1>1, <1>3, <1>6 DEF TakeData, Announced, OnItsWay, ModuleHandles
  <2> QED
    BY <1>2, <1>3, <1>6, <2>1 DEF TakeData, NotYet
<1>7. CASE TakeCommand
  <2>1. cmd # "data" /\ Head(line) = cmd
    BY <1>4, <1>5, <1>7 DEF TakeCommand, Written
  <2>2. accepting' => cmd = "CIPSEND"
    BY <1>7, <2>1 DEF TakeCommand
  <2>3. accepting' => WiFisendQueue.currentNum > 0
    BY <1>1, <1>3, <2>2 DEF IInv, WaitInv
  <2> QED
    BY <1>2, <1>7, <2>1, <2>3 DEF TakeCommand, NotYet
<1>8. CASE Refuse
  BY <1>2, <1>8 DEF Refuse, NotYet
<1> QED
  BY <1>6, <1>7, <1>8 DEF ModuleHandles

\* Every step keeps the order of announcement, data and delivery.
LEMMA OnceNext == OnceInv /\ [Next]_vars => OnceInv'
<1> SUFFICES ASSUME OnceInv, [Next]_vars, "late" \notin faults
             PROVE  NotYet'
  BY StepAnswers DEF OnceInv, Next, vars
<1> USE DEF OnceInv
<1>1. CASE WiFi_task_entry
  BY <1>1, TaskKeepsNotYet
<1>2. CASE ModuleHandles
  BY <1>2, ModuleKeepsNotYet
<1>3. CASE \/ Tick \/ FrameCompletes \/ FrameOverflows \/ LinkDrops \/ SinkSends
           \/ UNCHANGED vars
  <2>1. UNCHANGED <<pc, cmd, WiFisendQueue, delivered>> /\ (accepting' => accepting)
    BY <1>3 DEF Tick, FrameCompletes, FrameOverflows, LinkDrops, SinkSends, task, module, vars, flexible
  <2> QED
    BY <2>1 DEF NotYet
<1> QED
  BY <1>1, <1>2, <1>3 DEF Next

\* With a module that answers in time, no packet is passed on to the sink
\* twice, whatever is repeated, dropped and sent by the sink (TCPtransmitUP).
THEOREM RetriesAreHarmless == Spec => PacketsAreSentOnce
<1>1. Init => OnceInv
  <2>1. Init => NotYet
    BY DEF Init, NotYet
  <2> QED
    BY <2>1, InitAnswers DEF OnceInv
<1>2. OnceInv /\ [Next]_vars
        => ["late" \notin faults /\ ModuleHandles /\ accepting => Head(line) # delivered]_vars
  <2> SUFFICES ASSUME OnceInv, "late" \notin faults, ModuleHandles, accepting
               PROVE  Head(line) # delivered
    OBVIOUS
  <2>1. delivered = "none"
    BY DEF OnceInv, NotYet
  <2>2. line = <<First(WiFisendQueue)>> /\ pc = "wait" /\ cmd = "data"
    BY DEF OnceInv, ModuleHandles, AnswerInv, AnswersInTime, Announced
  <2>3. First(WiFisendQueue) \in Packet
    BY <2>2, HeadIsPacket DEF OnceInv, AnswerInv, TypeInv, IInv, WaitInv
  <2> QED
    BY <2>1, <2>2, <2>3, WifiTaskAssumption
<1> QED
  BY <1>1, <1>2, OnceNext, PTL DEF Spec, PacketsAreSentOnce
=============================================================================
