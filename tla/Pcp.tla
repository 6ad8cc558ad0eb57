-------------------------------- MODULE Pcp ---------------------------------
(***************************************************************************)
(* The firmware update of iot_link (pcp.c, ota_flag.c): pcp_main fetches   *)
(* the blocks of a new version one by one, writes them to flash, and keeps *)
(* in flash how far it came, so that it goes on after a restart.  Messages *)
(* come through the queue that IotQueue implements.  The platform is       *)
(* modelled from what pcp.c expects of it; offsets count blocks.           *)
(***************************************************************************)
EXTENDS Naturals, Sequences

CONSTANTS
  Blocks,       \* blocks of an image
  QueueLength,  \* 8: messages in pcp_rcv_queue
  MaxVersion,   \* bound: versions the platform publishes
  FaultSets,    \* sets of what may go wrong
  MaxFaults     \* bound: restarts, failed writes, messages lost, repeated and late

\* Late, lost and repeated messages; a restart, also between the two records
\* that end a download; a restart that damages the record being written; a
\* write that fails; a newer version published during an update.
Faults == {"late", "lose", "repeat", "restart", "between", "tear", "write", "update"}

ASSUME PcpAssumption ==
  /\ {Blocks, QueueLength, MaxVersion} \subseteq Nat \ {0} /\ MaxFaults \in Nat
  /\ FaultSets \subseteq SUBSET Faults

VARIABLES
  faults,                  \* what may go wrong; rigid
  left,                    \* faults that may still happen
  pc,                      \* where pcp_main is
  msg,                     \* the message it handles
  record,                  \* s_pcp_cb.record
  overdue,                 \* timer_deadline is over
  outbox,                  \* what the present message makes the task send
  msg_queue,               \* pcp_rcv_queue
  flag, bin,               \* flash: the record and the image
  toDevice, toPlatform,    \* messages on their way, in no order
  offer, accepted, result  \* platform: version offered, offer answered, version reported

flash == <<flag, bin>>
device == <<pc, msg, record, overdue, outbox>>
network == <<toDevice, toPlatform>>
platform == <<offer, accepted, result>>
pcpVars == <<faults, left, device, msg_queue, flash, network, platform>>

\* A message, and the version and block it is about.  A block does not say its
\* version (pcp_response_block_t): ver is only what it is part of.
Message(code, ver, num) == [code |-> code, ver |-> ver, num |-> num]

Block(ver, num) == Message("GETBLOCK", ver, num)

NoMessage == Message("none", 0, 0)

\* What is sent is on its way once, however often it was sent.
Sent(messages) == toPlatform' = toPlatform \cup messages

\* A fault of one kind happens.
Fails(kind) == kind \in faults /\ left > 0 /\ left' = left - 1

\* A wait of two seconds ends while an answer is still on its way, or when
\* none will come.
Waited ==
  \/ Fails("late")
  \/ pc \in {"pop", "off"} /\ msg_queue = <<>> /\ toDevice \cup toPlatform = {} /\ UNCHANGED left

-----------------------------------------------------------------------------
(***************************************************************************)
(* pcp_entry: the start, and the wait for a message.                       *)
(***************************************************************************)
NoRecord == [ver |-> 0, blk_cur |-> 0, cur_state |-> "IDLE"]

TornRecord == [NoRecord EXCEPT !.cur_state = "torn"]

\* A record that fails its CRC is replaced.
Starts ==
  /\ pc = "off"
  /\ IF flag = TornRecord
     THEN record' = NoRecord /\ pc' = "save"
     ELSE record' = flag /\ pc' = "pop"
  /\ UNCHANGED <<faults, left, msg, overdue, outbox, msg_queue, flash, network, platform>>

\* A time-out before the deadline changes nothing.
PopTimesOut ==
  /\ pc = "pop" /\ msg_queue = <<>>
  /\ record.cur_state # "IDLE" /\ overdue
  /\ pc' = "check"
  /\ UNCHANGED <<faults, left, msg, record, overdue, outbox, msg_queue, flash, network, platform>>

\* The deadline is looked at when a wait has ended; it passes before.
DeadlinePasses ==
  /\ pc = "pop" /\ ~ overdue
  /\ Waited
  /\ overdue' = TRUE
  /\ UNCHANGED <<faults, pc, msg, record, outbox, msg_queue, flash, network, platform>>

-----------------------------------------------------------------------------
(***************************************************************************)
(* pcp_handle_msg.                                                         *)
(***************************************************************************)
Handling(code) ==
  /\ pc = "pop" /\ msg_queue # <<>>
  /\ msg' = Head(msg_queue) /\ msg_queue' = Tail(msg_queue)
  /\ msg'.code = code

Answering(messages) == pc' = "send" /\ outbox' = messages /\ UNCHANGED record

\* The answer with the version changes nothing at the platform.
pcp_cmd_getversion == Handling("GETVER") /\ Answering({})

KnownVersion ==
  /\ Handling("NOTIFYNEWVER") /\ msg'.ver = record.ver
  /\ Answering({Message(IF record.cur_state = "IDLE" THEN "DEVLATESTVER" ELSE "OK", 0, 0)})

NewVersion ==
  /\ Handling("NOTIFYNEWVER") /\ msg'.ver # record.ver
  /\ record' = [ver |-> msg'.ver, blk_cur |-> 0, cur_state |-> "DOWNLOADING"]
  /\ pc' = "save"
  /\ UNCHANGED outbox

\* Mutant: a block is taken whatever its number.
BlockExpected_any(m) == record.cur_state = "DOWNLOADING"

BlockExpected(m) == record.cur_state = "DOWNLOADING" /\ m.num = record.blk_cur

ExpectedBlock == Handling("GETBLOCK") /\ BlockExpected(msg') /\ pc' = "write" /\ UNCHANGED <<record, outbox>>

\* An answer without a block, which says why, is ignored in the same way.
UnexpectedBlock ==
  /\ Handling("GETBLOCK") /\ ~ BlockExpected(msg')
  /\ pc' = "check"
  /\ UNCHANGED <<record, outbox>>

pcp_cmd_upgrade ==
  /\ Handling("EXCUTEUPDATE") /\ record.cur_state = "DOWNLOADED"
  /\ record' = [record EXCEPT !.cur_state = "UPGRADING"]
  /\ pc' = "send" /\ outbox' = {}

\* The command is refused and the program goes on as if it were not.
RefusedUpgrade ==
  /\ Handling("EXCUTEUPDATE") /\ record.cur_state # "DOWNLOADED"
  /\ pc' = "sleep"
  /\ UNCHANGED <<record, outbox>>

\* After five seconds, longer than any deadline, the upgrade counts as done
\* ("todo": nothing restarts).
Upgraded ==
  /\ pc = "sleep"
  /\ record' = [record EXCEPT !.cur_state = "UPGRADED"]
  /\ pc' = "save"
  /\ UNCHANGED <<outbox, msg, msg_queue>>

pcp_response_upgradestatus ==
  /\ Handling("NOTIFYSTATE")
  /\ record' = [record EXCEPT !.cur_state = "IDLE"]
  /\ pc' = "save"
  /\ UNCHANGED outbox

pcp_handle_msg ==
  /\ \/ pcp_cmd_getversion \/ KnownVersion \/ NewVersion \/ ExpectedBlock \/ UnexpectedBlock
     \/ pcp_cmd_upgrade \/ RefusedUpgrade \/ Upgraded \/ pcp_response_upgradestatus
  /\ overdue' = (overdue \/ pc = "sleep")
  /\ UNCHANGED <<faults, left, flash, network, platform>>

-----------------------------------------------------------------------------
(***************************************************************************)
(* Writing to flash, and what follows.                                     *)
(***************************************************************************)
Request == Block(record.ver, record.blk_cur)
Report == Message("REPORTDOWNLOADSTATE", 0, 0)

\* A block is in flash before the record says so.
pcp_save_newblock ==
  /\ pc = "write"
  /\ \/ /\ bin' = [bin EXCEPT ![record.blk_cur] = msg]
        /\ record' = [record EXCEPT !.blk_cur = @ + 1]
        /\ pc' = "save" /\ UNCHANGED <<outbox, left>>
     \/ Fails("write") /\ Answering({}) /\ UNCHANGED bin
  /\ UNCHANGED <<faults, msg, overdue, msg_queue, flag, network, platform>>

\* Mutant: the record is written to flash only when the download is complete.
pcp_save_flag_last ==
  IF record.cur_state = "DOWNLOADING" /\ msg.code = "GETBLOCK"
  THEN UNCHANGED <<flag, left>>
  ELSE flag' = record /\ UNCHANGED left

pcp_save_flag ==
  \/ flag' = record /\ UNCHANGED left
  \/ Fails("write") /\ UNCHANGED flag

SavesRecord ==
  /\ pc = "save"
  /\ pcp_save_flag
  /\ UNCHANGED <<faults, msg, overdue, msg_queue, bin, network, platform>>

Downloading == msg.code = "GETBLOCK" /\ record.cur_state = "DOWNLOADING"

\* The start and the ends of an upgrade send nothing.
SavesState ==
  /\ SavesRecord
  /\ msg.code \in {"none", "EXCUTEUPDATE", "NOTIFYSTATE"}
  /\ pc' = "check"
  /\ UNCHANGED <<record, outbox>>

SavesVersion ==
  /\ SavesRecord
  /\ msg.code = "NOTIFYNEWVER"
  /\ Answering({Message("OK", 0, 0), Request})

\* A record that could not be written is reported as missing space, which
\* changes nothing at the platform.
SavesBlock ==
  /\ SavesRecord
  /\ Downloading
  /\ IF flag' # record
     THEN Answering({})
     ELSE IF record.blk_cur < Blocks
          THEN Answering({Request})
          ELSE record' = [record EXCEPT !.cur_state = "DOWNLOADED"] /\ UNCHANGED <<pc, outbox>>

SavesImage ==
  /\ SavesRecord
  /\ msg.code = "GETBLOCK" /\ record.cur_state = "DOWNLOADED"
  /\ Answering({Report})

pcp_send_msg ==
  /\ pc = "send"
  /\ Sent(outbox) /\ overdue' = FALSE
  /\ outbox' = {}
  /\ pc' = IF record.cur_state = "UPGRADING" THEN "sleep" ELSE "check"
  /\ UNCHANGED <<faults, left, msg, record, msg_queue, flash, toDevice, platform>>

-----------------------------------------------------------------------------
(***************************************************************************)
(* The end of the loop: pcp_handle_timeout, if the deadline is over.       *)
(***************************************************************************)

\* Mutant: only requests are sent again.
Again_requests == IF record.cur_state = "DOWNLOADING" THEN {Request} ELSE {}

\* What is sent again.
Again == CASE record.cur_state = "DOWNLOADING" -> {Request}
           [] record.cur_state = "DOWNLOADED" -> {Report}
           [] record.cur_state = "UPGRADED" -> {Message("NOTIFYSTATE", record.ver, 0)}
           [] OTHER -> {}

pcp_handle_timeout ==
  /\ pc = "check"
  /\ pc' = "pop"
  /\ IF overdue THEN Sent(Again) /\ overdue' = (Again = {}) ELSE UNCHANGED <<toPlatform, overdue>>
  /\ msg' = NoMessage
  /\ UNCHANGED <<faults, left, record, outbox, msg_queue, flash, toDevice, platform>>

pcp_entry ==
  \/ Starts \/ PopTimesOut
  \/ pcp_handle_msg \/ pcp_save_newblock
  \/ SavesState \/ SavesVersion \/ SavesBlock \/ SavesImage
  \/ pcp_send_msg \/ pcp_handle_timeout

\* The last block is recorded, and that it was the last one is not.
Between == pc = "save" /\ record.cur_state = "DOWNLOADED"

\* The device restarts: what is not in flash is lost, and a record or block
\* that was being written may be damaged.
Restart ==
  /\ Fails("restart")
  /\ pc # "off"
  /\ Between => "between" \in faults
  /\ pc' = "off" /\ record' = NoRecord /\ overdue' = TRUE /\ outbox' = {}
  /\ msg' = NoMessage /\ msg_queue' = <<>>
  /\ \/ UNCHANGED flash
     \/ pc = "save" /\ "tear" \in faults /\ flag' = TornRecord /\ UNCHANGED bin
     \/ pc = "write" /\ bin' = [bin EXCEPT ![record.blk_cur] = NoMessage] /\ UNCHANGED flag
  /\ UNCHANGED <<faults, network, platform>>

-----------------------------------------------------------------------------
(***************************************************************************)
(* The network, and the tasks that push what arrives (pcp_msg_push).       *)
(***************************************************************************)
\* A message arrives, and may arrive again.
Arrives(m) ==
  \/ toDevice' = toDevice \ {m} /\ UNCHANGED left
  \/ UNCHANGED toDevice /\ Fails("repeat")

\* A message is dropped if no cell becomes free in time.
pcp_msg_push(m) ==
  /\ pc # "off" /\ m \in toDevice
  /\ Arrives(m)
  /\ Len(msg_queue) < QueueLength
  /\ msg_queue' = Append(msg_queue, m)
  /\ UNCHANGED <<faults, device, flash, toPlatform, platform>>

PushTimesOut(m) ==
  /\ pc # "off" /\ m \in toDevice
  /\ Arrives(m)
  /\ Len(msg_queue) = QueueLength
  /\ UNCHANGED <<faults, device, msg_queue, flash, toPlatform, platform>>

DeviceReceives == \E m \in toDevice : pcp_msg_push(m) \/ PushTimesOut(m)

Lost ==
  /\ Fails("lose")
  /\ \/ \E m \in toDevice : toDevice' = toDevice \ {m} /\ UNCHANGED toPlatform
     \/ \E m \in toPlatform : toPlatform' = toPlatform \ {m} /\ UNCHANGED toDevice
  /\ UNCHANGED <<faults, device, msg_queue, flash, platform>>

-----------------------------------------------------------------------------
(***************************************************************************)
(* The platform.                                                           *)
(***************************************************************************)
Publish ==
  /\ offer < MaxVersion
  /\ offer > 0 => "update" \in faults
  /\ offer' = offer + 1 /\ accepted' = FALSE
  /\ toDevice' = toDevice \cup {Message("NOTIFYNEWVER", offer', 0)}
  /\ UNCHANGED <<faults, left, device, msg_queue, flash, toPlatform, result>>

Offer ==
  /\ offer > 0 /\ ~ accepted
  /\ Waited
  /\ toDevice' = toDevice \cup {Message("NOTIFYNEWVER", offer, 0)}
  /\ UNCHANGED <<faults, device, msg_queue, flash, toPlatform, platform>>

Replies(messages) == toDevice' = toDevice \cup messages

PlatformHandles(m) ==
  /\ m \in toPlatform
  /\ \/ toPlatform' = toPlatform \ {m} /\ UNCHANGED left
     \/ UNCHANGED toPlatform /\ Fails("repeat")
  /\ accepted' = (accepted \/ m.code \in {"OK", "DEVLATESTVER"})
  /\ result' = CASE m.code = "DEVLATESTVER" -> offer
                 [] m.code = "NOTIFYSTATE" -> m.ver
                 [] OTHER -> result
  /\ Replies(CASE m.code = "GETBLOCK" /\ m.num < Blocks -> {m}
               [] m.code = "REPORTDOWNLOADSTATE" -> {Message("EXCUTEUPDATE", 0, 0)}
               [] m.code = "NOTIFYSTATE" -> {Message("NOTIFYSTATE", 0, 0)}
               [] OTHER -> {})
  /\ UNCHANGED <<faults, device, msg_queue, flash, offer>>

PlatformReceives == \E m \in toPlatform : PlatformHandles(m)

-----------------------------------------------------------------------------
PcpInit ==
  /\ faults \in FaultSets /\ left = MaxFaults
  /\ pc = "off" /\ record = NoRecord /\ overdue = TRUE /\ outbox = {}
  /\ msg = NoMessage /\ msg_queue = <<>>
  /\ flag = TornRecord /\ bin = [n \in 0 .. Blocks - 1 |-> NoMessage]
  /\ toDevice = {Message("GETVER", 0, 0)} /\ toPlatform = {}
  /\ offer = 0 /\ accepted = FALSE /\ result = 0

PcpNext ==
  \/ pcp_entry \/ DeadlinePasses \/ Restart
  \/ DeviceReceives
  \/ Lost
  \/ Publish \/ Offer \/ PlatformReceives

\* The task runs, two seconds pass, and what is on its way arrives or is lost.
PcpFairness ==
  /\ WF_pcpVars(pcp_entry) /\ WF_pcpVars(DeadlinePasses) /\ WF_pcpVars(Offer)
  /\ WF_pcpVars(DeviceReceives) /\ WF_pcpVars(PlatformReceives)

-----------------------------------------------------------------------------
(***************************************************************************)
(* Properties.                                                             *)
(***************************************************************************)

\* With one version, the blocks a record counts are in flash, each at its
\* place, in the record of the task and in the one a restart would find,
\* although blocks are lost, repeated, late, cut off by a restart, or cannot
\* be written.  And what the platform was told is installed is in flash as a
\* whole, as long as no write fails.  (A block does not carry its version: a
\* late one of an older version becomes part of a newer image.)
CountedIsWritten ==
  /\ "update" \notin faults =>
       \A r \in {record, flag} : \A n \in 0 .. r.blk_cur - 1 : bin[n] = Block(r.ver, n)
  /\ faults \cap {"update", "tear", "write"} = {} /\ result # 0 =>
       \A n \in 0 .. Blocks - 1 : bin[n] = Block(result, n)

\* A restart never costs more than the block that is being saved: whenever the
\* task goes on, the record in flash counts the same blocks of the same
\* version, and while it saves, at most one less (pcp_save_newblock writes the
\* block before the record).
RestartCostsOneBlock ==
  faults \cap {"tear", "write"} = {} /\ pc # "off" /\ record.blk_cur > 0 =>
    /\ flag.ver = record.ver
    /\ flag.blk_cur = record.blk_cur \/ (pc = "save" /\ flag.blk_cur = record.blk_cur - 1)

\* A version that is offered is reported as installed, although messages are
\* lost, late, repeated and out of order and the device restarts in between:
\* every state is left by an answer, or what was sent is sent again
\* (pcp_handle_timeout, and pcp_entry with the record from flash).
UpdateCompletes ==
  faults \cap {"update", "tear", "write"} = {} => (offer # 0 ~> result = offer)

\* pcp.c:139: the record in flash lets the work continue when the power
\* recovers.
DownloadGoesOn == offer # 0 ~> result = offer
=============================================================================
