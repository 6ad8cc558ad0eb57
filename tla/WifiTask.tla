------------------------------ MODULE WifiTask ------------------------------
(***************************************************************************)
(* The WiFi task of the terminal (WiFi_task_entry, WIFIInit, CreatTCP,     *)
(* TCPtransmitUP, atk_8266_send_cmd) against its module, an ESP8266 that   *)
(* answers commands over the receiver of Uart3.  A frame is abstracted to  *)
(* the set of the words the task searches in it.  Between two delays the   *)
(* task runs for far less than the period of the software timer, so at     *)
(* most one callback falls into such a stretch.                            *)
(***************************************************************************)
EXTENDS SendQueue

CONSTANTS
  SendGap,      \* 20: ticks of the timer between two transmissions
  UpdateGap,    \* 100: ticks between two periodic packets
  CounterMax,   \* 255: where the counters stop
  WaitTime,     \* tries of a command's wait; 100 to 1000
  FaultSets,    \* sets of what the module and the link may do: "late", "drop", "talk"
  MaxPending    \* bound: commands the module has not handled

ASSUME WifiTaskAssumption ==
  /\ SendGap \in Nat /\ UpdateGap \in Nat /\ CounterMax \in Nat
  /\ SendGap < UpdateGap /\ UpdateGap < CounterMax
  /\ WaitTime \in Nat /\ WaitTime > 1
  /\ MaxPending \in Nat
  /\ FaultSets \subseteq SUBSET {"late", "drop", "talk"}
  /\ "none" \notin Packet

VARIABLES
  faults,              \* what the module and the link may do; rigid
  pc,                  \* where the task is
  cmd,                 \* the command whose answer it waits for
  waittime,
  DEVICE_STATE,        \* 1: connected with the sink
  WiFisendQueue,
  PeriodUpdateEnable, PeriodUpdateCounter, SendCounter,
  ticked,              \* a callback fell into the task's present stretch
  text, done, timed,   \* the receiver: frame, flag, and whether the timer runs
  line,                \* what the module has not handled yet
  link,                \* the module's connection with the sink
  accepting,           \* the module was told that data follow
  delivered,           \* history: the packet passed on to the sink since the last one was put
  last                 \* history: the packet last put into the queue

task == <<pc, cmd, waittime, DEVICE_STATE>>
counters == <<PeriodUpdateEnable, PeriodUpdateCounter, SendCounter, ticked>>
receiver == <<text, done, timed>>
module == <<line, link, accepting>>
flexible == <<task, WiFisendQueue, counters, receiver, module, delivered, last>>
vars == <<flexible, faults>>

\* What the task searches for in a frame, and anything else.
Words == {"OK", "IOT", "STAIP", "IPD", "CLOSED", "ERROR"}

-----------------------------------------------------------------------------
(***************************************************************************)
(* The commands of WIFIInit and CreatTCP, in their order.                  *)
(***************************************************************************)
Script == <<"RST", "CWMODE", "CWLAP", "CWJAP", "CIFSR", "CIPMUX", "CIPSERVER", "CIPSTO", "UDP", "TCP">>
Commands == {Script[k] : k \in DOMAIN Script} \cup {"CIPSEND"}

\* Data are no command: a packet begins with the address it comes from.
ASSUME PacketAssumption == Packet \cap Commands = {}

Following(c) == Script[1 + CHOOSE k \in DOMAIN Script : Script[k] = c]

\* The word that answers a command.
Ack(c) == CASE c = "CWLAP" -> "IOT"
            [] c = "CIFSR" -> "STAIP"
            [] OTHER -> "OK"

\* Mutant: data without an answer are given up.
Repeated_once == {"CWLAP", "CIFSR", "CIPSERVER", "TCP"}

\* Mutant: an announcement without an answer is repeated.
Repeated_announcement == {"CWLAP", "CIFSR", "CIPSERVER", "TCP", "data", "CIPSEND"}

\* What is sent again until it is answered.
Repeated == {"CWLAP", "CIFSR", "CIPSERVER", "TCP", "data"}

-----------------------------------------------------------------------------
(***************************************************************************)
(* The receiver, as Uart3 leaves it to the task.                           *)
(***************************************************************************)

\* Words that come while a frame is complete are lost.
Receive(words) ==
  IF done
  THEN UNCHANGED receiver
  ELSE /\ text' = text \cup words
       /\ timed' = (timed \/ text = {})
       /\ UNCHANGED done

\* Mutant: the flag is not reset.
Cleared_flagged == text' = {} /\ UNCHANGED <<done, timed>>

Cleared == text' = {} /\ done' = FALSE /\ UNCHANGED timed

ClearedIfDone == IF done THEN Cleared ELSE UNCHANGED receiver

\* The timer completes a frame, maybe one that was cleared after it began.
FrameCompletes ==
  /\ timed
  /\ done' = TRUE /\ timed' = FALSE
  /\ \/ UNCHANGED text
     \/ "late" \in faults /\ \E words \in SUBSET text : text' = words
  /\ UNCHANGED <<task, WiFisendQueue, counters, module, delivered, last>>

\* The buffer is full.
FrameOverflows ==
  /\ "talk" \in faults
  /\ text # {} /\ ~ done
  /\ done' = TRUE
  /\ UNCHANGED <<text, timed, task, WiFisendQueue, counters, module, delivered, last>>

-----------------------------------------------------------------------------
(***************************************************************************)
(* The module and the link.                                                *)
(***************************************************************************)
Answer(c) == CASE c = "CWLAP" -> {"IOT", "OK"}
               [] c = "CIFSR" -> {"STAIP", "OK"}
               [] OTHER -> {"OK"}

\* Whatever follows an announcement is taken for the data.
TakeData ==
  /\ accepting
  /\ accepting' = FALSE
  /\ delivered' = IF Head(line) \in Packet THEN Head(line) ELSE "none"
  /\ Receive({"OK"})
  /\ UNCHANGED link

TakeCommand ==
  /\ ~ accepting
  /\ Head(line) \in Commands
  /\ link' = CASE Head(line) = "RST" -> "down" [] Head(line) = "TCP" -> "up" [] OTHER -> link
  /\ accepting' = (Head(line) = "CIPSEND" /\ link = "up")
  /\ Receive(IF Head(line) = "CIPSEND" /\ link = "down" THEN {"ERROR"} ELSE Answer(Head(line)))
  /\ UNCHANGED delivered

\* Data that were not announced are no command.
Refuse ==
  /\ ~ accepting
  /\ Head(line) \in Packet
  /\ Receive({"ERROR"})
  /\ UNCHANGED <<link, accepting, delivered>>

ModuleHandles ==
  /\ line # <<>>
  /\ line' = Tail(line)
  /\ TakeData \/ TakeCommand \/ Refuse
  /\ UNCHANGED <<task, WiFisendQueue, counters, last>>

LinkDrops ==
  /\ "drop" \in faults
  /\ link = "up"
  /\ link' = "down" /\ accepting' = FALSE
  /\ Receive({"CLOSED"})
  /\ UNCHANGED <<task, WiFisendQueue, counters, line, delivered, last>>

SinkSends ==
  /\ "talk" \in faults
  /\ link = "up"
  /\ Receive({"IPD"})
  /\ UNCHANGED <<task, WiFisendQueue, counters, module, delivered, last>>

-----------------------------------------------------------------------------
(***************************************************************************)
(* The end of Timer_uart3_Callback: the counters of the task.              *)
(***************************************************************************)
Delayed == pc \in {"outer", "wait", "delay"}

Counted(n) == IF n < CounterMax THEN n + 1 ELSE n

Tick ==
  /\ PeriodUpdateEnable = 1
  /\ Delayed \/ ~ ticked
  /\ PeriodUpdateCounter' = Counted(PeriodUpdateCounter)
  /\ SendCounter' = Counted(SendCounter)
  /\ ticked' = ~ Delayed
  /\ UNCHANGED <<PeriodUpdateEnable, task, WiFisendQueue, receiver, module, delivered, last>>

-----------------------------------------------------------------------------
(***************************************************************************)
(* atk_8266_send_cmd and atk_8266_send_data.                               *)
(***************************************************************************)

\* What came so far is discarded and the command is written to the module.
Transmit(c) ==
  /\ pc' = "wait" /\ cmd' = c /\ waittime' = WaitTime - 1
  /\ Cleared
  /\ line' = IF Len(line) < MaxPending
             THEN Append(line, IF c = "data" THEN First(WiFisendQueue) ELSE c)
             ELSE line

\* Without the fault "late" the answer comes before the task looks.
Looks ==
  /\ pc = "wait"
  /\ "late" \in faults \/ (line = <<>> /\ (text = {} \/ done))

Answered == done /\ Ack(cmd) \in text

WaitsOn ==
  /\ Looks /\ ~ Answered /\ waittime > 1
  /\ waittime' = waittime - 1
  /\ ClearedIfDone
  /\ UNCHANGED <<pc, cmd, DEVICE_STATE, WiFisendQueue, counters, module, delivered, last>>

\* Mutant: data without an answer are announced again.
Repeats_announced ==
  /\ Looks /\ ~ Answered /\ waittime = 1
  /\ cmd \in Repeated
  /\ Transmit(IF cmd = "data" THEN "CIPSEND" ELSE cmd)
  /\ UNCHANGED <<DEVICE_STATE, WiFisendQueue, counters, link, accepting, delivered, last>>

Repeats ==
  /\ Looks /\ ~ Answered /\ waittime = 1
  /\ cmd \in Repeated
  /\ Transmit(cmd)
  /\ UNCHANGED <<DEVICE_STATE, WiFisendQueue, counters, link, accepting, delivered, last>>

\* The answer came, or the program goes on without.
Ends == Looks /\ (Answered \/ (waittime = 1 /\ cmd \notin Repeated))

NextCommand ==
  /\ Ends
  /\ cmd \notin {"TCP", "data"}
  /\ Transmit(IF cmd = "CIPSEND" THEN "data" ELSE Following(cmd))
  /\ UNCHANGED <<DEVICE_STATE, WiFisendQueue, counters, link, accepting, delivered, last>>

\* The end of CreatTCP: the answer is left in the receiver.
Connected ==
  /\ Ends
  /\ cmd = "TCP"
  /\ pc' = "outer" /\ DEVICE_STATE' = 1
  /\ UNCHANGED <<cmd, waittime, WiFisendQueue, counters, receiver, module, delivered, last>>

\* The end of TCPtransmitUP: the packet leaves the queue.
PacketSent ==
  /\ Ends
  /\ cmd = "data"
  /\ pc' = "delay"
  /\ Cleared
  /\ WiFisendQueue' = Sent(WiFisendQueue)
  /\ SendCounter' = 0 /\ ticked' = FALSE
  /\ UNCHANGED <<cmd, waittime, DEVICE_STATE, PeriodUpdateEnable, PeriodUpdateCounter, module,
                 delivered, last>>

-----------------------------------------------------------------------------
(***************************************************************************)
(* WiFi_task_entry.                                                        *)
(***************************************************************************)
Initialise ==
  /\ pc = "outer" /\ DEVICE_STATE = 0
  /\ Transmit(Script[1])
  /\ UNCHANGED <<DEVICE_STATE, WiFisendQueue, counters, link, accepting, delivered, last>>

Serve ==
  /\ pc = "outer" /\ DEVICE_STATE = 1
  /\ pc' = "delay"
  /\ WiFisendQueue' = ClearSendQueue
  /\ PeriodUpdateEnable' = 1
  /\ Cleared
  /\ UNCHANGED <<cmd, waittime, DEVICE_STATE, PeriodUpdateCounter, SendCounter, ticked, module,
                 delivered, last>>

Disconnected ==
  /\ pc = "delay" /\ done /\ "CLOSED" \in text
  /\ pc' = "outer" /\ DEVICE_STATE' = 0
  /\ UNCHANGED <<cmd, waittime, WiFisendQueue, counters, receiver, module, delivered, last>>

\* Data from the sink are analysed and nothing else is done this time.
ReceivesData ==
  /\ pc = "delay" /\ done /\ "CLOSED" \notin text /\ "IPD" \in text
  /\ Cleared
  /\ UNCHANGED <<task, WiFisendQueue, counters, module, delivered, last>>

LooksForWork ==
  /\ pc = "delay" /\ ~ (done /\ {"CLOSED", "IPD"} \cap text # {})
  /\ pc' = "send" /\ ticked' = FALSE
  /\ ClearedIfDone
  /\ UNCHANGED <<cmd, waittime, DEVICE_STATE, WiFisendQueue, PeriodUpdateEnable,
                 PeriodUpdateCounter, SendCounter, module, delivered, last>>

SendDue == SendCounter > SendGap /\ WiFisendQueue.currentNum > 0

Sends ==
  /\ pc = "send" /\ SendDue
  /\ Transmit("CIPSEND")
  /\ ticked' = FALSE
  /\ UNCHANGED <<DEVICE_STATE, WiFisendQueue, PeriodUpdateEnable, PeriodUpdateCounter, SendCounter,
                 link, accepting, delivered, last>>

SendsNothing ==
  /\ pc = "send" /\ ~ SendDue
  /\ pc' = "update"
  /\ UNCHANGED <<cmd, waittime, DEVICE_STATE, WiFisendQueue, counters, receiver, module, delivered,
                 last>>

\* Mutant: the counter of the periodic packets is not reset.
PutsPacket_unreset ==
  /\ pc = "update" /\ PeriodUpdateCounter > UpdateGap
  /\ pc' = "delay" /\ ticked' = FALSE
  /\ \E packet \in Packet \ {last} :
       /\ WiFisendQueue' = wifi_send_function(WiFisendQueue, packet)
       /\ last' = packet
  /\ delivered' = "none"
  /\ UNCHANGED <<cmd, waittime, DEVICE_STATE, PeriodUpdateCounter, PeriodUpdateEnable, SendCounter,
                 receiver, module>>

\* The next packet of the periodic update, which differs from the last one.
PutsPacket ==
  /\ pc = "update" /\ PeriodUpdateCounter > UpdateGap
  /\ pc' = "delay" /\ ticked' = FALSE
  /\ PeriodUpdateCounter' = 0
  /\ \E packet \in Packet \ {last} :
       /\ WiFisendQueue' = wifi_send_function(WiFisendQueue, packet)
       /\ last' = packet
  /\ delivered' = "none"
  /\ UNCHANGED <<cmd, waittime, DEVICE_STATE, PeriodUpdateEnable, SendCounter, receiver, module>>

PutsNothing ==
  /\ pc = "update" /\ PeriodUpdateCounter <= UpdateGap
  /\ pc' = "delay" /\ ticked' = FALSE
  /\ UNCHANGED <<cmd, waittime, DEVICE_STATE, WiFisendQueue, PeriodUpdateEnable,
                 PeriodUpdateCounter, SendCounter, receiver, module, delivered, last>>

WiFi_task_entry ==
  \/ Initialise \/ Serve
  \/ WaitsOn \/ Repeats \/ NextCommand \/ Connected \/ PacketSent
  \/ Disconnected \/ ReceivesData \/ LooksForWork
  \/ Sends \/ SendsNothing \/ PutsPacket \/ PutsNothing

-----------------------------------------------------------------------------
Init ==
  /\ faults \in FaultSets
  /\ pc = "outer" /\ cmd = "RST" /\ waittime = 0
  /\ DEVICE_STATE = 0
  /\ WiFisendQueue = ClearSendQueue
  /\ PeriodUpdateEnable = 0 /\ PeriodUpdateCounter = 0 /\ SendCounter = 0
  /\ ticked = FALSE
  /\ text = {} /\ done = FALSE /\ timed = FALSE
  /\ line = <<>> /\ link = "down" /\ accepting = FALSE
  /\ delivered = "none" /\ last = "none"

Next == /\ \/ WiFi_task_entry
           \/ Tick
           \/ FrameCompletes
           \/ FrameOverflows
           \/ ModuleHandles
           \/ LinkDrops
           \/ SinkSends
        /\ UNCHANGED faults

Spec == Init /\ [][Next]_vars

\* The task is scheduled, its delays end, the timer is periodic and the
\* module handles what it is sent.
FairSpec ==
  /\ Spec
  /\ WF_flexible(WiFi_task_entry)
  /\ WF_flexible(Tick)
  /\ WF_flexible(FrameCompletes)
  /\ WF_flexible(ModuleHandles)

-----------------------------------------------------------------------------
(***************************************************************************)
(* Properties.                                                             *)
(***************************************************************************)

\* Every variable has its type.
TypeOK ==
  /\ faults \in FaultSets
  /\ pc \in {"outer", "wait", "delay", "send", "update"}
  /\ cmd \in Commands \cup {"data"}
  /\ waittime \in 0 .. WaitTime - 1
  /\ DEVICE_STATE \in {0, 1} /\ PeriodUpdateEnable \in {0, 1}
  /\ PeriodUpdateCounter \in 0 .. CounterMax /\ SendCounter \in 0 .. CounterMax
  /\ WiFisendQueue \in sendQueue
  /\ text \subseteq Words
  /\ {done, timed, ticked, accepting} \subseteq BOOLEAN
  /\ line \in Seq(Commands \cup Packet) /\ Len(line) <= MaxPending
  /\ link \in {"up", "down"}
  /\ delivered \in Packet \cup {"none"} /\ last \in Packet \cup {"none"}

\* The storage position is where the packets in the queue end, and they are
\* packets, not cleared buffers (wifi_send_function, WiFi_task_entry).
RingOK ==
  LET Q == WiFisendQueue IN
  /\ Q.nextStorage = Behind(Q.currentSendpos, Q.currentNum)
  /\ \A k \in 1 .. Q.currentNum : Contents(Q)[k] \in Packet

\* The queue of ten never holds two packets: a packet is sent before the next
\* one is due, wherever the callback falls (lines 167 to 211).
AtMostOnePacket == WiFisendQueue.currentNum <= 1

\* If the module answers within a wait, a packet that leaves the queue was
\* passed on to the sink, although the result of its announcement is ignored
\* (TCPtransmitUP).
RemovedIsDelivered ==
  []["late" \notin faults /\ PacketSent => delivered = First(WiFisendQueue)]_vars

\* If the module answers within a wait, what follows an announcement is the
\* packet announced, never a command.
AnnouncedIsSent ==
  []["late" \notin faults /\ ModuleHandles /\ accepting => Head(line) = First(WiFisendQueue)]_vars

\* If the module answers within a wait, a packet that was passed on to the sink
\* is not passed on again before the next one is put into the queue, although
\* data without an answer are repeated for ever: a retry follows no
\* announcement and is refused (TCPtransmitUP, wifitask.c:159).
PacketsAreSentOnce ==
  []["late" \notin faults /\ ModuleHandles /\ accepting => Head(line) # delivered]_vars

\* Without faults the terminal reports for ever: every other packet reaches
\* the sink again, and a packet in the queue leaves it (WiFi_task_entry,
\* TCPtransmitUP).
SinkIsUpdated ==
  faults = {} => /\ \A packet \in Packet : []<>(delivered = packet)
                 /\ WiFisendQueue.currentNum > 0 ~> WiFisendQueue.currentNum = 0

\* liteos_all_tasks.c:80: state 1 means that the terminal is connected.
DisconnectIsNoticed == [](link = "down" /\ DEVICE_STATE = 1 ~> link = "up" \/ DEVICE_STATE = 0)
=============================================================================
