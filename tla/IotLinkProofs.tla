---------------------------- MODULE IotLinkProofs ----------------------------
(***************************************************************************)
(* Proofs about the three parts of iot_link for any tasks, data, words,    *)
(* images and bounds: the firmware update, the AT client, and the queue.   *)
(* A step of one part leaves the others alone.                             *)
(***************************************************************************)
EXTENDS IotLink, SequenceTheorems, FiniteSetTheorems, TLAPS

-----------------------------------------------------------------------------
(***************************************************************************)
(* The firmware update, for images of any size, any number of versions,    *)
(* any length of the queue and any number of faults.                       *)
(***************************************************************************)
Codes == {"none", "GETVER", "NOTIFYNEWVER", "GETBLOCK", "EXCUTEUPDATE", "NOTIFYSTATE",
          "OK", "DEVLATESTVER", "REPORTDOWNLOADSTATE"}

States == {"IDLE", "DOWNLOADING", "DOWNLOADED", "UPGRADING", "UPGRADED", "torn"}

Messages == [code : Codes, ver : Nat, num : Nat]

Records == [ver : Nat, blk_cur : Nat, cur_state : States]

PcpTypeOK ==
  /\ faults \in SUBSET Faults /\ left \in Nat
  /\ pc \in {"off", "pop", "check", "send", "sleep", "write", "save"}
  /\ record \in Records /\ flag \in Records
  /\ msg \in Messages /\ msg_queue \in Seq(Messages)
  /\ outbox \subseteq Messages /\ toDevice \subseteq Messages /\ toPlatform \subseteq Messages
  /\ bin \in [0 .. Blocks - 1 -> Messages]
  /\ offer \in Nat /\ result \in Nat
  /\ pc = "write" => msg.code = "GETBLOCK" /\ msg.num = record.blk_cur
  /\ pc = "off" => msg = NoMessage

-----------------------------------------------------------------------------
(***************************************************************************)
(* Types.                                                                  *)
(***************************************************************************)

\* The values for "no message" and "no record", and messages, have their types.
LEMMA ConstantsInTheirTypes ==
  /\ NoMessage \in Messages /\ NoRecord \in Records /\ TornRecord \in Records
  /\ \A code \in Codes, ver, num \in Nat : Message(code, ver, num) \in Messages
BY DEF NoMessage, NoRecord, TornRecord, Message, Messages, Records, Codes, States

\* What the task may send is made of messages.
LEMMA SentInItsType ==
  ASSUME record \in Records
  PROVE  /\ Request \in Messages /\ Report \in Messages /\ Again \subseteq Messages
         /\ Request = [code |-> "GETBLOCK", ver |-> record.ver, num |-> record.blk_cur]
         /\ Report = [code |-> "REPORTDOWNLOADSTATE", ver |-> 0, num |-> 0]
BY ConstantsInTheirTypes DEF Request, Report, Again, Block, Message, Messages, Records, Codes

\* A message taken from the queue is a message, and so are those that remain.
LEMMA HandlingInItsType ==
  ASSUME PcpTypeOK, NEW code, Handling(code)
  PROVE  msg' \in Messages /\ msg_queue' \in Seq(Messages) /\ pc = "pop" /\ msg'.code = code
BY HeadTailProperties DEF PcpTypeOK, Handling

\* The device and the platform start with their types.
LEMMA PcpTypeInit == PcpInit => PcpTypeOK
BY PcpAssumption, ConstantsInTheirTypes DEF PcpInit, PcpTypeOK, Message, Codes

\* Handling a message keeps the types.
LEMMA HandlingKeepsTypes == PcpTypeOK /\ pcp_handle_msg => PcpTypeOK'
<1> SUFFICES ASSUME PcpTypeOK, pcp_handle_msg
             PROVE  PcpTypeOK'
  OBVIOUS
<1> USE DEF PcpTypeOK, Answering
<1>1. /\ UNCHANGED <<faults, left, flash, network, platform>>
      /\ \/ pcp_cmd_getversion \/ KnownVersion \/ NewVersion \/ ExpectedBlock \/ UnexpectedBlock
         \/ pcp_cmd_upgrade \/ RefusedUpgrade \/ Upgraded \/ pcp_response_upgradestatus
      /\ overdue' = (overdue \/ pc = "sleep")
  BY Zenon DEF pcp_handle_msg
<1>2. CASE pcp_cmd_getversion
  BY <1>1, <1>2, HandlingInItsType DEF pcp_cmd_getversion, flash, network, platform
<1>3. CASE KnownVersion
  BY <1>1, <1>3, HandlingInItsType, ConstantsInTheirTypes
  DEF KnownVersion, flash, network, platform, Codes
<1>4. CASE NewVersion
  BY <1>1, <1>4, HandlingInItsType DEF NewVersion, flash, network, platform, Records, States, Messages
<1>5. CASE ExpectedBlock
  BY <1>1, <1>5, HandlingInItsType DEF ExpectedBlock, BlockExpected, flash, network, platform
<1>6. CASE UnexpectedBlock
  BY <1>1, <1>6, HandlingInItsType DEF UnexpectedBlock, flash, network, platform
<1>7. CASE pcp_cmd_upgrade
  BY <1>1, <1>7, HandlingInItsType DEF pcp_cmd_upgrade, flash, network, platform, Records, States
<1>8. CASE RefusedUpgrade
  BY <1>1, <1>8, HandlingInItsType DEF RefusedUpgrade, flash, network, platform
<1>9. CASE Upgraded
  BY <1>1, <1>9 DEF Upgraded, flash, network, platform, Records, States
<1>10. CASE pcp_response_upgradestatus
  BY <1>1, <1>10, HandlingInItsType
  DEF pcp_response_upgradestatus, flash, network, platform, Records, States
<1> QED
  BY <1>1, <1>2, <1>3, <1>4, <1>5, <1>6, <1>7, <1>8, <1>9, <1>10

\* Every step of the task keeps the types.
LEMMA EntryKeepsTypes == PcpTypeOK /\ pcp_entry => PcpTypeOK'
<1> SUFFICES ASSUME PcpTypeOK, pcp_entry
             PROVE  PcpTypeOK'
  OBVIOUS
<1> USE DEF PcpTypeOK, Answering
<1>1. CASE Starts
  BY <1>1, ConstantsInTheirTypes DEF Starts, flash, network, platform
<1>2. CASE PopTimesOut
  BY <1>2 DEF PopTimesOut, flash, network, platform
<1>3. CASE pcp_handle_msg
  BY <1>3, HandlingKeepsTypes
<1>4. CASE pcp_save_newblock
  <2>1. CASE Fails("write") /\ Answering({}) /\ UNCHANGED bin
    BY <1>4, <2>1 DEF pcp_save_newblock, Fails, network, platform
  <2>2. CASE /\ bin' = [bin EXCEPT ![record.blk_cur] = msg]
             /\ record' = [record EXCEPT !.blk_cur = @ + 1]
             /\ pc' = "save" /\ UNCHANGED <<outbox, left>>
    <3>1. record' \in Records
      <4>1. record.blk_cur + 1 \in Nat /\ record' = [record EXCEPT !.blk_cur = record.blk_cur + 1]
        BY <2>2 DEF Records
      <4> QED
        BY <4>1 DEF Records
    <3>2. bin' \in [0 .. Blocks - 1 -> Messages]
      BY <2>2
    <3> QED
      BY <1>4, <2>2, <3>1, <3>2 DEF pcp_save_newblock, network, platform
  <2> QED
    BY <1>4, <2>1, <2>2 DEF pcp_save_newblock
<1>5. ASSUME SavesRecord
      PROVE  /\ flag' \in Records /\ left' \in Nat /\ pc = "save"
             /\ UNCHANGED <<faults, msg, overdue, msg_queue, bin, toDevice, toPlatform,
                            offer, accepted, result>>
  BY <1>5 DEF SavesRecord, pcp_save_flag, Fails, network, platform
<1>6. CASE SavesState
  BY <1>5, <1>6 DEF SavesState
<1>7. CASE SavesVersion
  BY <1>5, <1>7, ConstantsInTheirTypes, SentInItsType DEF SavesVersion, Codes
<1>8. CASE SavesBlock
  <2>1. [record EXCEPT !.cur_state = "DOWNLOADED"] \in Records
    BY DEF Records, States
  <2> QED
    BY <1>5, <1>8, <2>1, SentInItsType DEF SavesBlock
<1>9. CASE SavesImage
  BY <1>5, <1>9, SentInItsType DEF SavesImage
<1>10. CASE pcp_send_msg
  BY <1>10 DEF pcp_send_msg, Sent, flash, platform
<1>11. CASE pcp_handle_timeout
  BY <1>11, ConstantsInTheirTypes, SentInItsType DEF pcp_handle_timeout, Sent, flash, platform
<1> QED
  BY <1>1, <1>2, <1>3, <1>4, <1>6, <1>7, <1>8, <1>9, <1>10, <1>11 DEF pcp_entry

\* A restart keeps the types.
LEMMA RestartKeepsTypes == PcpTypeOK /\ Restart => PcpTypeOK'
<1> SUFFICES ASSUME PcpTypeOK, Restart
             PROVE  PcpTypeOK'
  OBVIOUS
<1> USE DEF PcpTypeOK
<1>1. /\ flag' \in Records
      /\ bin' \in [0 .. Blocks - 1 -> Messages]
  BY ConstantsInTheirTypes DEF Restart, flash
<1>2. <<>> \in Seq(Messages)
  OBVIOUS
<1> QED
  BY <1>1, <1>2, ConstantsInTheirTypes DEF Restart, Fails, network, platform

\* The network keeps the types.
LEMMA NetworkKeepsTypes == PcpTypeOK /\ (DeviceReceives \/ Lost) => PcpTypeOK'
<1> SUFFICES ASSUME PcpTypeOK, DeviceReceives \/ Lost
             PROVE  PcpTypeOK'
  OBVIOUS
<1> USE DEF PcpTypeOK, Fails
<1>1. ASSUME NEW m \in toDevice, pcp_msg_push(m) \/ PushTimesOut(m)
      PROVE  PcpTypeOK'
  <2>1. toDevice' \subseteq toDevice /\ left' \in Nat
    BY <1>1 DEF pcp_msg_push, PushTimesOut, Arrives
  <2>2. msg_queue' \in Seq(Messages)
    BY <1>1, AppendProperties DEF pcp_msg_push, PushTimesOut
  <2> QED
    BY <1>1, <2>1, <2>2 DEF pcp_msg_push, PushTimesOut, device, flash, platform
<1>2. CASE Lost
  BY <1>2 DEF Lost, device, flash, platform
<1> QED
  BY <1>1, <1>2 DEF DeviceReceives

\* The platform and the task's deadline keep the types.
LEMMA PlatformKeepsTypes ==
  PcpTypeOK /\ (Publish \/ Offer \/ DeadlinePasses \/ PlatformReceives) => PcpTypeOK'
<1> SUFFICES ASSUME PcpTypeOK, Publish \/ Offer \/ DeadlinePasses \/ PlatformReceives
             PROVE  PcpTypeOK'
  OBVIOUS
<1> USE DEF PcpTypeOK
<1>1. Waited => left' \in Nat
  BY DEF Waited, Fails
<1>2. CASE Publish
  <2>1. Message("NOTIFYNEWVER", offer + 1, 0) \in Messages
    <3>1. offer + 1 \in Nat /\ 0 \in Nat /\ "NOTIFYNEWVER" \in Codes
      BY DEF Codes
    <3> QED
      BY <3>1, ConstantsInTheirTypes
  <2> QED
    BY <1>2, <2>1 DEF Publish, device, flash
<1>3. CASE Offer
  <2>1. Message("NOTIFYNEWVER", offer, 0) \in Messages
    BY ConstantsInTheirTypes DEF Codes
  <2> QED
    BY <1>1, <1>3, <2>1 DEF Offer, device, flash, platform
<1>4. CASE DeadlinePasses
  BY <1>1, <1>4 DEF DeadlinePasses, flash, network, platform
<1>5. ASSUME NEW m \in toPlatform, PlatformHandles(m)
      PROVE  PcpTypeOK'
  <2>1. m \in Messages /\ m.ver \in Nat
    BY DEF Messages
  <2>2. /\ Message("EXCUTEUPDATE", 0, 0) \in Messages
        /\ Message("NOTIFYSTATE", 0, 0) \in Messages
    BY ConstantsInTheirTypes DEF Codes
  <2>3. toDevice' \subseteq Messages
    BY <1>5, <2>1, <2>2 DEF PlatformHandles, Replies
  <2>4. result' \in Nat
    <3>1. result' = CASE m.code = "DEVLATESTVER" -> offer
                      [] m.code = "NOTIFYSTATE" -> m.ver
                      [] OTHER -> result
      BY <1>5 DEF PlatformHandles
    <3>2. result' \in {offer, m.ver, result}
      BY <3>1, Zenon
    <3> QED
      BY <2>1, <3>2
  <2>5. toPlatform' \subseteq Messages /\ left' \in Nat
    BY <1>5 DEF PlatformHandles, Fails
  <2> QED
    BY <1>5, <2>3, <2>4, <2>5 DEF PlatformHandles, device, flash
<1> QED
  BY <1>2, <1>3, <1>4, <1>5 DEF PlatformReceives

\* Every step keeps the types.
LEMMA PcpTypeNext == PcpTypeOK /\ [PcpNext]_pcpVars => PcpTypeOK'
<1>1. PcpTypeOK /\ UNCHANGED pcpVars => PcpTypeOK'
  BY DEF PcpTypeOK, pcpVars, device, flash, network, platform
<1> QED
  BY <1>1, EntryKeepsTypes, RestartKeepsTypes, NetworkKeepsTypes, PlatformKeepsTypes DEF PcpNext

-----------------------------------------------------------------------------
(***************************************************************************)
(* The record in flash follows the record of the task.                     *)
(***************************************************************************)

\* As RestartCostsOneBlock, but also for a record that counts no block, except
\* while that one is being saved.
FlagFollows ==
  faults \cap {"tear", "write"} = {} =>
    /\ pc \notin {"off", "save"} => flag.ver = record.ver /\ flag.blk_cur = record.blk_cur
    /\ pc = "save" /\ record.blk_cur > 0 =>
         flag.ver = record.ver /\ flag.blk_cur \in {record.blk_cur, record.blk_cur - 1}

\* At the start the record in flash is the one in memory.
LEMMA FollowsInit == PcpInit => FlagFollows
BY DEF PcpInit, FlagFollows, NoRecord

\* Handling a message changes the record only on the way to saving it.
LEMMA HandlingFollows == PcpTypeOK /\ FlagFollows /\ pcp_handle_msg => FlagFollows'
<1> SUFFICES ASSUME PcpTypeOK, FlagFollows, pcp_handle_msg
             PROVE  FlagFollows'
  OBVIOUS
<1>1. /\ UNCHANGED <<faults, flag>>
      /\ \/ pcp_cmd_getversion \/ KnownVersion \/ NewVersion \/ ExpectedBlock \/ UnexpectedBlock
         \/ pcp_cmd_upgrade \/ RefusedUpgrade \/ Upgraded \/ pcp_response_upgradestatus
  BY Zenon DEF pcp_handle_msg, flash
<1>2. CASE NewVersion
  <2>1. record'.blk_cur = 0 /\ pc' = "save"
    BY <1>2 DEF NewVersion
  <2> QED
    BY <1>1, <2>1 DEF FlagFollows
<1>3. CASE pcp_cmd_upgrade \/ Upgraded \/ pcp_response_upgradestatus
  <2>1. /\ pc \notin {"off", "save"}
        /\ record'.ver = record.ver /\ record'.blk_cur = record.blk_cur
    BY <1>3 DEF pcp_cmd_upgrade, Upgraded, pcp_response_upgradestatus, Handling, PcpTypeOK, Records
  <2>2. record.blk_cur \in Nat
    BY DEF PcpTypeOK, Records
  <2> QED
    BY <1>1, <2>1, <2>2 DEF FlagFollows
<1>4. CASE pcp_cmd_getversion \/ KnownVersion \/ ExpectedBlock \/ UnexpectedBlock \/ RefusedUpgrade
  <2>1. pc = "pop" /\ pc' # "save" /\ UNCHANGED record
    BY <1>4 DEF pcp_cmd_getversion, KnownVersion, ExpectedBlock, UnexpectedBlock, RefusedUpgrade,
                Handling, Answering
  <2> QED
    BY <1>1, <2>1 DEF FlagFollows
<1> QED
  BY <1>1, <1>2, <1>3, <1>4

\* Every step of the task keeps the record in flash at most one save behind.
LEMMA EntryFollows == PcpTypeOK /\ FlagFollows /\ pcp_entry => FlagFollows'
<1> SUFFICES ASSUME PcpTypeOK, FlagFollows, pcp_entry
             PROVE  FlagFollows'
  OBVIOUS
<1>1. CASE Starts
  <2>1. NoRecord.blk_cur = 0
    BY DEF NoRecord
  <2> QED
    BY <1>1, <2>1 DEF Starts, FlagFollows, flash
<1>2. CASE PopTimesOut \/ pcp_send_msg \/ pcp_handle_timeout
  BY <1>2 DEF PopTimesOut, pcp_send_msg, pcp_handle_timeout, FlagFollows, flash
<1>3. CASE pcp_handle_msg
  BY <1>3, HandlingFollows
<1>4. CASE pcp_save_newblock
  <2>1. pc = "write" /\ UNCHANGED <<faults, flag>>
    BY <1>4 DEF pcp_save_newblock
  <2>2. CASE Fails("write")
    BY <2>1, <2>2 DEF FlagFollows, Fails
  <2>3. CASE record' = [record EXCEPT !.blk_cur = @ + 1] /\ pc' = "save"
    <3>1. /\ record'.ver = record.ver /\ record'.blk_cur = record.blk_cur + 1
          /\ record.blk_cur \in Nat
      BY <2>3 DEF PcpTypeOK, Records
    <3> QED
      BY <2>1, <2>3, <3>1 DEF FlagFollows
  <2> QED
    BY <1>4, <2>2, <2>3 DEF pcp_save_newblock
<1>5. CASE SavesState \/ SavesVersion \/ SavesBlock \/ SavesImage
  <2>1. pc = "save" /\ UNCHANGED faults /\ (flag' = record \/ "write" \in faults)
    BY <1>5 DEF SavesState, SavesVersion, SavesBlock, SavesImage, SavesRecord, pcp_save_flag, Fails
  <2>2. record'.ver = record.ver /\ record'.blk_cur = record.blk_cur
    BY <1>5 DEF SavesState, SavesVersion, SavesBlock, SavesImage, Answering, PcpTypeOK, Records
  <2> QED
    BY <2>1, <2>2 DEF FlagFollows
<1> QED
  BY <1>1, <1>2, <1>3, <1>4, <1>5 DEF pcp_entry

\* So does every step, restarts among them.
LEMMA FollowsNext == PcpTypeOK /\ FlagFollows /\ [PcpNext]_pcpVars => FlagFollows'
<1> SUFFICES ASSUME PcpTypeOK, FlagFollows, [PcpNext]_pcpVars
             PROVE  FlagFollows'
  OBVIOUS
<1>1. CASE pcp_entry
  BY <1>1, EntryFollows
<1>2. CASE Restart
  BY <1>2 DEF Restart, FlagFollows
<1>3. CASE \/ DeadlinePasses \/ DeviceReceives \/ Lost \/ Publish \/ Offer \/ PlatformReceives
           \/ UNCHANGED pcpVars
  <2>1. UNCHANGED <<faults, pc, record, flag>>
    BY <1>3, Zenon DEF DeadlinePasses, DeviceReceives, pcp_msg_push, PushTimesOut, Lost, Publish, Offer,
                PlatformReceives, PlatformHandles, pcpVars, device, flash
  <2> QED
    BY <2>1 DEF FlagFollows
<1> QED
  BY <1>1, <1>2, <1>3 DEF PcpNext

\* What a restart would find is at most one block behind.
LEMMA FollowsImplies == PcpTypeOK /\ FlagFollows => RestartCostsOneBlock
BY DEF PcpTypeOK, FlagFollows, RestartCostsOneBlock, Records

-----------------------------------------------------------------------------
(***************************************************************************)
(* With one version, what is on its way is about that version, and what    *)
(* the records count is in flash.                                          *)
(***************************************************************************)

\* What has arrived or will arrive at the task.
Arrived == {msg} \cup toDevice \cup {msg_queue[k] : k \in 1 .. Len(msg_queue)}

OnItsWay == outbox \cup toPlatform

\* A message about the first version, and about a block up to last.
AboutFirst(m, last) ==
  /\ m.code = "NOTIFYNEWVER" => m.ver = 1
  /\ m.code = "GETBLOCK" => m.ver = 1 /\ m.num <= last

\* A record of an update that was begun.
Begun(r) == r.blk_cur > 0 \/ r.cur_state \in {"DOWNLOADING", "DOWNLOADED", "UPGRADING"}

RecordOK(r) ==
  /\ r.blk_cur <= Blocks /\ r.ver \in {0, 1}
  /\ Begun(r) => r.ver = 1
  /\ \A n \in 0 .. r.blk_cur - 1 : bin[n] = Block(1, n)

\* A damaged block is not one that the record in flash counts.
FlagBehind ==
  /\ flag.blk_cur <= record.blk_cur
  /\ record.ver = 0 => flag.blk_cur = 0

VersionOK ==
  "update" \notin faults =>
    /\ offer \in {0, 1}
    /\ \A m \in OnItsWay : AboutFirst(m, Blocks)
    /\ \A m \in Arrived : AboutFirst(m, Blocks - 1)
    /\ RecordOK(record) /\ RecordOK(flag)
    /\ pc # "off" => FlagBehind
    /\ pc = "write" \/ (pc \in {"save", "sleep"} /\ msg.code = "NOTIFYNEWVER") => record.ver = 1

\* What is put into a queue is all that is new in it.
LEMMA QueueGrows ==
  ASSUME NEW S, NEW s \in Seq(S), NEW e \in S
  PROVE  {Append(s, e)[k] : k \in 1 .. Len(Append(s, e))} \subseteq {s[k] : k \in 1 .. Len(s)} \cup {e}
BY AppendProperties

\* What is taken from a queue was in it.
LEMMA QueueShrinks ==
  ASSUME NEW S, NEW s \in Seq(S), s # <<>>
  PROVE  {Head(s)} \cup {Tail(s)[k] : k \in 1 .. Len(Tail(s))} \subseteq {s[k] : k \in 1 .. Len(s)}
<1>1. /\ Head(s) = s[1] /\ Len(s) \in Nat \ {0}
      /\ Len(Tail(s)) = Len(s) - 1
      /\ \A k \in 1 .. Len(Tail(s)) : Tail(s)[k] = s[k + 1]
  BY HeadTailProperties, EmptySeq
<1>2. 1 \in 1 .. Len(s) /\ \A k \in 1 .. Len(Tail(s)) : k + 1 \in 1 .. Len(s)
  BY <1>1
<1> QED
  BY <1>1, <1>2

\* A step of the task takes what arrived before and sends to the platform only.
LEMMA TaskArrived ==
  ASSUME PcpTypeOK, pcp_entry \/ Restart \/ DeadlinePasses
  PROVE  Arrived' \subseteq Arrived \cup {NoMessage} /\ UNCHANGED <<toDevice, offer, result, faults>>
<1>1. CASE pcp_handle_msg /\ ~ Upgraded
  <2>1. UNCHANGED <<toDevice, offer, result, faults>>
    BY <1>1 DEF pcp_handle_msg, network, platform
  <2>2. \E code \in Codes : Handling(code)
    BY <1>1 DEF pcp_handle_msg, pcp_cmd_getversion, KnownVersion, NewVersion, ExpectedBlock,
                UnexpectedBlock, pcp_cmd_upgrade, RefusedUpgrade, pcp_response_upgradestatus, Codes
  <2>3. msg_queue # <<>> /\ msg' = Head(msg_queue) /\ msg_queue' = Tail(msg_queue)
    BY <2>2 DEF Handling
  <2>4. {msg'} \cup {msg_queue'[k] : k \in 1 .. Len(msg_queue')} \subseteq Arrived
    BY <2>3, QueueShrinks DEF Arrived, PcpTypeOK
  <2> QED
    BY <2>1, <2>4 DEF Arrived
<1>2. CASE pcp_handle_msg /\ Upgraded
  BY <1>2 DEF pcp_handle_msg, Upgraded, network, platform, Arrived
<1>3. CASE Restart
  <2>1. msg' = NoMessage /\ msg_queue' = <<>> /\ UNCHANGED <<toDevice, offer, result, faults>>
    BY <1>3 DEF Restart, network, platform
  <2>2. {<<>>[k] : k \in 1 .. Len(<<>>)} = {}
    BY EmptySeq
  <2>3. {msg_queue'[k] : k \in 1 .. Len(msg_queue')} = {}
    BY <2>1, <2>2
  <2> QED
    BY <2>1, <2>3 DEF Arrived
<1>4. CASE pcp_handle_timeout
  BY <1>4 DEF pcp_handle_timeout, platform, Arrived
<1>5. CASE \/ Starts \/ PopTimesOut \/ pcp_save_newblock \/ SavesState \/ SavesVersion \/ SavesBlock
           \/ SavesImage \/ pcp_send_msg \/ DeadlinePasses
  <2>1. UNCHANGED <<msg, msg_queue, toDevice, offer, result, faults>>
    BY <1>5, Zenon DEF Starts, PopTimesOut, pcp_save_newblock, SavesState, SavesVersion, SavesBlock,
                SavesImage, SavesRecord, pcp_send_msg, DeadlinePasses, network, platform
  <2> QED
    BY <2>1 DEF Arrived
<1> QED
  BY <1>1, <1>2, <1>3, <1>4, <1>5 DEF pcp_entry

\* At the start nothing is on its way and no update has begun.
LEMMA VersionInit == PcpInit => VersionOK
<1> SUFFICES ASSUME PcpInit
             PROVE  VersionOK
  OBVIOUS
<1>1. Arrived = {NoMessage, Message("GETVER", 0, 0)} /\ OnItsWay = {}
  <2>1. {<<>>[k] : k \in 1 .. Len(<<>>)} = {}
    BY EmptySeq
  <2>2. {msg_queue[k] : k \in 1 .. Len(msg_queue)} = {}
    BY <2>1 DEF PcpInit
  <2> QED
    BY <2>2 DEF PcpInit, Arrived, OnItsWay
<1>2. \A m \in Arrived : AboutFirst(m, Blocks - 1)
  BY <1>1 DEF AboutFirst, NoMessage, Message
<1>3. RecordOK(NoRecord) /\ RecordOK(TornRecord)
  BY PcpAssumption DEF RecordOK, Begun, NoRecord, TornRecord
<1> QED
  BY <1>1, <1>2, <1>3 DEF PcpInit, VersionOK

\* What the task sends is about the record it has.
LEMMA RequestIsAboutFirst ==
  ASSUME PcpTypeOK, record.ver = 1, record.blk_cur <= Blocks
  PROVE  AboutFirst(Request, Blocks)
BY SentInItsType DEF PcpTypeOK, AboutFirst

\* A message that names neither a new version nor a block is about no other version.
LEMMA OthersAreAboutFirst ==
  /\ \A code \in {"none", "OK", "DEVLATESTVER", "NOTIFYSTATE", "EXCUTEUPDATE"}, ver \in Nat :
       \A last : AboutFirst(Message(code, ver, 0), last)
  /\ \A last : AboutFirst(Report, last) /\ AboutFirst(NoMessage, last)
BY DEF AboutFirst, Message, Report, NoMessage

\* Whatever the task sends is about the first version.
LEMMA TaskSendsFirst ==
  ASSUME PcpTypeOK, VersionOK, "update" \notin faults, pcp_entry \/ Restart \/ DeadlinePasses
  PROVE  \A m \in OnItsWay' : AboutFirst(m, Blocks)
<1> USE DEF OnItsWay
<1>1. /\ \A m \in OnItsWay : AboutFirst(m, Blocks)
      /\ Begun(record) => record.ver = 1
      /\ record.blk_cur <= Blocks /\ record.ver \in Nat
  BY DEF VersionOK, RecordOK, PcpTypeOK, Records
<1>2. CASE pcp_handle_msg
  <2>1. outbox' = outbox \/ outbox' \subseteq {Message(c, 0, 0) : c \in {"OK", "DEVLATESTVER"}}
    BY <1>2 DEF pcp_handle_msg, pcp_cmd_getversion, KnownVersion, NewVersion, ExpectedBlock,
                UnexpectedBlock, pcp_cmd_upgrade, RefusedUpgrade, Upgraded,
                pcp_response_upgradestatus, Answering
  <2>2. toPlatform' = toPlatform
    BY <1>2 DEF pcp_handle_msg, network
  <2> QED
    BY <1>1, <2>1, <2>2, OthersAreAboutFirst
<1>3. CASE SavesVersion
  <2>1. record.ver = 1
    BY <1>3 DEF SavesVersion, SavesRecord, VersionOK
  <2>2. outbox' = {Message("OK", 0, 0), Request} /\ UNCHANGED toPlatform
    BY <1>3 DEF SavesVersion, SavesRecord, Answering, network
  <2> QED
    BY <1>1, <2>1, <2>2, OthersAreAboutFirst, RequestIsAboutFirst
<1>4. CASE SavesBlock
  <2>1. record.ver = 1
    BY <1>1, <1>4 DEF SavesBlock, Downloading, Begun
  <2>2. outbox' \subseteq outbox \cup {Request} /\ UNCHANGED toPlatform
    BY <1>4 DEF SavesBlock, SavesRecord, Answering, network
  <2> QED
    BY <1>1, <2>1, <2>2, RequestIsAboutFirst
<1>5. CASE SavesImage
  <2>1. outbox' = {Report} /\ UNCHANGED toPlatform
    BY <1>5 DEF SavesImage, SavesRecord, Answering, network
  <2> QED
    BY <1>1, <2>1, OthersAreAboutFirst
<1>6. CASE pcp_send_msg
  BY <1>1, <1>6 DEF pcp_send_msg, Sent
<1>7. CASE pcp_handle_timeout
  <2>1. \A m \in Again : AboutFirst(m, Blocks)
    <3>1. CASE record.cur_state = "DOWNLOADING"
      <4>1. Again = {Request} /\ record.ver = 1
        BY <1>1, <3>1 DEF Again, Begun
      <4> QED
        BY <1>1, <4>1, RequestIsAboutFirst
    <3>2. CASE record.cur_state = "DOWNLOADED"
      BY <3>2, OthersAreAboutFirst DEF Again
    <3>3. CASE record.cur_state = "UPGRADED"
      <4>1. Again = {Message("NOTIFYSTATE", record.ver, 0)}
        BY <3>3 DEF Again
      <4> QED
        BY <1>1, <4>1, OthersAreAboutFirst
    <3>4. CASE record.cur_state \notin {"DOWNLOADING", "DOWNLOADED", "UPGRADED"}
      BY <3>4 DEF Again
    <3> QED
      BY <3>1, <3>2, <3>3, <3>4
  <2> QED
    BY <1>1, <1>7, <2>1 DEF pcp_handle_timeout, Sent
<1>8. CASE Starts \/ PopTimesOut \/ SavesState \/ DeadlinePasses
  <2>1. UNCHANGED <<outbox, toPlatform>>
    BY <1>8, Zenon DEF Starts, PopTimesOut, SavesState, SavesRecord, DeadlinePasses, network
  <2> QED
    BY <1>1, <2>1
<1>9. CASE Restart \/ pcp_save_newblock
  <2>1. outbox' \subseteq outbox /\ UNCHANGED toPlatform
    BY <1>9 DEF Restart, pcp_save_newblock, Answering, network
  <2> QED
    BY <1>1, <2>1
<1> QED
  BY <1>2, <1>3, <1>4, <1>5, <1>6, <1>7, <1>8, <1>9 DEF pcp_entry

\* A message that is handled is about the first version.
LEMMA HandledIsAboutFirst ==
  ASSUME PcpTypeOK, VersionOK, "update" \notin faults, pcp_handle_msg, ~ Upgraded
  PROVE  AboutFirst(msg', Blocks - 1) /\ pc = "pop" /\ UNCHANGED <<faults, flag, bin>>
<1>1. msg' \in Arrived \cup {NoMessage}
  BY TaskArrived DEF pcp_entry, Arrived
<1>2. pc = "pop"
  BY DEF pcp_handle_msg, pcp_cmd_getversion, KnownVersion, NewVersion, ExpectedBlock,
         UnexpectedBlock, pcp_cmd_upgrade, RefusedUpgrade, pcp_response_upgradestatus, Handling
<1> QED
  BY <1>1, <1>2, OthersAreAboutFirst DEF VersionOK, pcp_handle_msg, flash

\* The records, and where the task is, as VersionOK has them.
Places ==
  /\ RecordOK(record) /\ RecordOK(flag)
  /\ pc # "off" => FlagBehind
  /\ pc = "write" \/ (pc \in {"save", "sleep"} /\ msg.code = "NOTIFYNEWVER") => record.ver = 1

\* A record of the same version and blocks, whose state is one of a begun
\* update only if it was before.
LEMMA SameRecordOK ==
  ASSUME NEW r \in Records, NEW q \in Records, RecordOK(r), bin' = bin,
         q.ver = r.ver, q.blk_cur = r.blk_cur, Begun(q) => Begun(r)
  PROVE  RecordOK(q) /\ RecordOK(q)'
BY DEF RecordOK

\* Handling a message keeps the records of the first version.
LEMMA HandlingPlaces ==
  ASSUME PcpTypeOK, VersionOK, "update" \notin faults, pcp_handle_msg
  PROVE  Places'
<1>1. Places
  BY DEF VersionOK, Places
<1>2. UNCHANGED <<faults, flag, bin>> /\ record \in Records /\ flag \in Records
      /\ record' \in Records
  BY HandlingKeepsTypes DEF pcp_handle_msg, flash, PcpTypeOK
<1>3. RecordOK(flag)'
  BY <1>1, <1>2 DEF Places, RecordOK
<1>4. CASE Upgraded
  <2>1. /\ pc = "sleep" /\ pc' = "save" /\ msg' = msg
        /\ record'.ver = record.ver /\ record'.blk_cur = record.blk_cur /\ record'.cur_state = "UPGRADED"
    BY <1>2, <1>4 DEF Upgraded, Records
  <2>2. RecordOK(record)'
    <3>1. Begun(record') => Begun(record)
      BY <2>1 DEF Begun
    <3> QED
      BY <1>1, <1>2, <2>1, <3>1, SameRecordOK DEF Places
  <2> QED
    BY <1>1, <1>2, <1>3, <2>1, <2>2 DEF Places, FlagBehind
<1>5. CASE ~ Upgraded
  <2>1. AboutFirst(msg', Blocks - 1) /\ pc = "pop"
    BY <1>5, HandledIsAboutFirst
  <2>2. CASE NewVersion
    <3>1. /\ msg'.ver = 1 /\ record.ver = 0
          /\ record' = [ver |-> 1, blk_cur |-> 0, cur_state |-> "DOWNLOADING"]
          /\ pc' = "save"
      BY <1>1, <2>1, <2>2 DEF NewVersion, Handling, AboutFirst, Places, RecordOK
    <3>2. flag.blk_cur = 0
      BY <1>1, <2>1, <3>1 DEF Places, FlagBehind
    <3>3. RecordOK(record)' /\ FlagBehind'
      BY <1>2, <3>1, <3>2, PcpAssumption DEF RecordOK, FlagBehind
    <3> QED
      BY <1>2, <1>3, <3>1, <3>3 DEF Places
  <2>3. CASE ExpectedBlock
    <3>1. UNCHANGED record /\ record.cur_state = "DOWNLOADING" /\ pc' = "write"
      BY <2>3 DEF ExpectedBlock, BlockExpected
    <3>2. record.ver = 1
      BY <1>1, <3>1 DEF Places, RecordOK, Begun
    <3> QED
      BY <1>1, <1>2, <2>1, <3>1, <3>2 DEF Places, RecordOK, FlagBehind
  <2>4. CASE pcp_cmd_upgrade \/ pcp_response_upgradestatus
    <3>1. /\ record'.ver = record.ver /\ record'.blk_cur = record.blk_cur
          /\ Begun(record') => Begun(record)
          /\ pc' \notin {"off", "write"}
          /\ msg'.code \in {"EXCUTEUPDATE", "NOTIFYSTATE"}
      BY <1>2, <2>4 DEF pcp_cmd_upgrade, pcp_response_upgradestatus, Handling, Records, Begun
    <3>2. RecordOK(record)'
      BY <1>1, <1>2, <3>1, SameRecordOK DEF Places
    <3> QED
      BY <1>1, <1>2, <1>3, <2>1, <3>1, <3>2 DEF Places, FlagBehind
  <2>5. CASE pcp_cmd_getversion \/ KnownVersion \/ UnexpectedBlock \/ RefusedUpgrade
    <3>1. /\ UNCHANGED record
          /\ pc' \in {"send", "check"} \/ (msg'.code = "EXCUTEUPDATE" /\ pc' = "sleep")
      BY <2>5 DEF pcp_cmd_getversion, KnownVersion, UnexpectedBlock, RefusedUpgrade, Handling, Answering
    <3> QED
      BY <1>1, <1>2, <2>1, <3>1 DEF Places, RecordOK, FlagBehind
  <2> QED
    BY <1>5, <2>2, <2>3, <2>4, <2>5 DEF pcp_handle_msg
<1> QED
  BY <1>4, <1>5

\* Saving a record keeps both records of the first version.
LEMMA SavingPlaces ==
  ASSUME PcpTypeOK, VersionOK, "update" \notin faults,
         SavesState \/ SavesVersion \/ SavesBlock \/ SavesImage
  PROVE  Places'
<1>1. Places /\ record \in Records /\ flag \in Records
  BY DEF VersionOK, Places, PcpTypeOK
<1>2. /\ pc = "save" /\ UNCHANGED <<bin, msg>>
      /\ flag' \in {record, flag}
  BY DEF SavesState, SavesVersion, SavesBlock, SavesImage, SavesRecord, pcp_save_flag
<1>3. /\ record' \in Records /\ flag' \in Records
      /\ record'.ver = record.ver /\ record'.blk_cur = record.blk_cur
      /\ Begun(record') => Begun(record)
  <2>1. CASE SavesBlock
    BY <1>1, <1>2, <2>1 DEF SavesBlock, Downloading, Answering, Records, States, Begun
  <2>2. CASE SavesState \/ SavesVersion \/ SavesImage
    BY <1>1, <1>2, <2>2 DEF SavesState, SavesVersion, SavesImage, Answering, Begun
  <2> QED
    BY <2>1, <2>2
<1>4. pc' # "write" /\ pc' # "off" /\ (pc' \in {"save", "sleep"} => pc' = pc)
  BY <1>2 DEF SavesState, SavesVersion, SavesBlock, SavesImage, Answering
<1>5. RecordOK(record)' /\ RecordOK(flag)'
  <2>1. RecordOK(record)'
    BY <1>1, <1>2, <1>3, SameRecordOK DEF Places
  <2>2. RecordOK(flag)'
    BY <1>1, <1>2, SameRecordOK DEF Places
  <2> QED
    BY <2>1, <2>2
<1>6. FlagBehind'
  <2>1. record.blk_cur \in Nat /\ (record.ver = 0 => record.blk_cur = 0)
    BY <1>1 DEF Places, RecordOK, Begun, Records
  <2> QED
    BY <1>1, <1>2, <1>3, <2>1 DEF Places, FlagBehind
<1> QED
  BY <1>1, <1>2, <1>3, <1>4, <1>5, <1>6 DEF Places

\* Writing a block keeps what is counted in flash: the block is the next one.
LEMMA WritingPlaces ==
  ASSUME PcpTypeOK, VersionOK, "update" \notin faults, pcp_save_newblock
  PROVE  Places'
<1>1. Places /\ record \in Records /\ flag \in Records /\ record.ver = 1
  BY DEF VersionOK, Places, PcpTypeOK, pcp_save_newblock
<1>2. /\ pc = "write" /\ UNCHANGED <<flag, msg>>
      /\ pc' \in {"save", "send"}
  BY DEF pcp_save_newblock, Answering
<1>3. msg = Block(1, record.blk_cur) /\ record.blk_cur \in 0 .. Blocks - 1
  <2>1. AboutFirst(msg, Blocks - 1)
    BY DEF VersionOK, Arrived
  <2> QED
    BY <1>1, <1>2, <2>1, PcpAssumption DEF AboutFirst, PcpTypeOK, Messages, Records, Block, Message
<1>4. CASE UNCHANGED <<record, bin>>
  <2>1. pc' = "send" \/ pc' = "save"
    BY <1>2
  <2>2. RecordOK(record)' /\ RecordOK(flag)' /\ FlagBehind'
    BY <1>1, <1>2, <1>4 DEF Places, RecordOK, FlagBehind
  <2> QED
    BY <1>1, <1>2, <1>4, <2>2 DEF Places
<1>5. CASE bin' = [bin EXCEPT ![record.blk_cur] = msg] /\ record' = [record EXCEPT !.blk_cur = @ + 1]
  <2>1. /\ record'.ver = 1 /\ record'.blk_cur = record.blk_cur + 1
        /\ record.blk_cur \in Nat
    BY <1>1, <1>5 DEF Records
  <2>2. \A n \in 0 .. Blocks - 1 : bin[n] = Block(1, n) \/ n = record.blk_cur => bin'[n] = Block(1, n)
    BY <1>3, <1>5 DEF PcpTypeOK
  <2>3. \A n \in 0 .. record.blk_cur : n \in 0 .. Blocks - 1 /\ (bin[n] = Block(1, n) \/ n = record.blk_cur)
    <3>1. \A n \in 0 .. record.blk_cur : n \in 0 .. record.blk_cur - 1 \/ n = record.blk_cur
      BY <2>1
    <3>2. \A n \in 0 .. record.blk_cur - 1 : bin[n] = Block(1, n)
      BY <1>1 DEF Places, RecordOK
    <3>3. \A n \in 0 .. record.blk_cur : n \in 0 .. Blocks - 1
      BY <1>3, <2>1, PcpAssumption
    <3> QED
      BY <3>1, <3>2, <3>3
  <2>4. RecordOK(record)'
    BY <1>3, <2>1, <2>2, <2>3, PcpAssumption DEF RecordOK
  <2>5. RecordOK(flag)'
    <3>1. \A n \in 0 .. flag.blk_cur - 1 : n \in 0 .. Blocks - 1 /\ bin[n] = Block(1, n)
      BY <1>1, PcpAssumption DEF Places, RecordOK, Records
    <3> QED
      BY <1>1, <1>2, <2>2, <3>1 DEF Places, RecordOK, Begun
  <2>6. FlagBehind'
    BY <1>1, <1>2, <2>1 DEF Places, FlagBehind, Records
  <2> QED
    BY <1>2, <2>1, <2>4, <2>5, <2>6 DEF Places
<1> QED
  BY <1>4, <1>5 DEF pcp_save_newblock, Answering

\* A restart keeps the record in flash and forgets the one in memory.
LEMMA RestartPlaces ==
  ASSUME PcpTypeOK, VersionOK, "update" \notin faults, Restart
  PROVE  Places'
<1>1. Places /\ record \in Records /\ flag \in Records
  BY DEF VersionOK, Places, PcpTypeOK
<1>2. pc # "off" /\ pc' = "off" /\ record' = NoRecord
  BY DEF Restart
<1>3. RecordOK(record)'
  BY <1>2, PcpAssumption DEF RecordOK, NoRecord, Begun
<1>4. RecordOK(flag)'
  <2>1. CASE UNCHANGED flash
    BY <1>1, <2>1 DEF flash, Places, RecordOK
  <2>2. CASE flag' = TornRecord
    BY <2>2, PcpAssumption DEF RecordOK, TornRecord, NoRecord, Begun
  <2>3. CASE bin' = [bin EXCEPT ![record.blk_cur] = NoMessage] /\ UNCHANGED flag
    <3>1. flag.blk_cur <= record.blk_cur /\ flag.blk_cur <= Blocks
      BY <1>1, <1>2 DEF Places, FlagBehind, RecordOK
    <3>2. \A n \in 0 .. flag.blk_cur - 1 : n \in 0 .. Blocks - 1 /\ n # record.blk_cur
      BY <1>1, <3>1, PcpAssumption DEF Records
    <3>3. \A n \in 0 .. flag.blk_cur - 1 : bin'[n] = bin[n]
      BY <2>3, <3>2 DEF PcpTypeOK
    <3> QED
      BY <1>1, <2>3, <3>3 DEF Places, RecordOK
  <2> QED
    BY <2>1, <2>2, <2>3 DEF Restart
<1> QED
  BY <1>2, <1>3, <1>4 DEF Places

\* Every step of the task, a restart and a deadline keep the records of the first
\* version.
LEMMA TaskPlaces ==
  ASSUME PcpTypeOK, VersionOK, "update" \notin faults, pcp_entry \/ Restart \/ DeadlinePasses
  PROVE  Places'
<1>1. Places
  BY DEF VersionOK, Places
<1>2. CASE Starts
  <2>1. /\ UNCHANGED <<flag, bin, msg>> /\ pc' \in {"save", "pop"}
        /\ \/ record' = NoRecord /\ flag = TornRecord
           \/ record' = flag /\ pc' = "pop"
    BY <1>2 DEF Starts, flash
  <2>2. RecordOK(NoRecord)' /\ RecordOK(flag)'
    BY <1>1, <2>1, PcpAssumption DEF Places, RecordOK, NoRecord, Begun
  <2>3. record' = flag \/ (record'.blk_cur = 0 /\ record'.ver = 0 /\ flag.blk_cur = 0)
    BY <2>1 DEF NoRecord, TornRecord
  <2>4. flag.ver = 0 => flag.blk_cur = 0
    BY <1>1 DEF Places, RecordOK, Begun, PcpTypeOK, Records
  <2>5. RecordOK(record)' /\ FlagBehind'
    BY <2>1, <2>2, <2>3, <2>4 DEF FlagBehind, RecordOK, PcpTypeOK, Records
  <2>6. msg'.code = "none"
    BY <1>2, <2>1 DEF Starts, PcpTypeOK, NoMessage, Message
  <2> QED
    BY <2>1, <2>2, <2>5, <2>6 DEF Places
<1>3. CASE pcp_handle_msg
  BY <1>3, HandlingPlaces
<1>4. CASE pcp_save_newblock
  BY <1>4, WritingPlaces
<1>5. CASE SavesState \/ SavesVersion \/ SavesBlock \/ SavesImage
  BY <1>5, SavingPlaces
<1>6. CASE Restart
  BY <1>6, RestartPlaces
<1>7. CASE PopTimesOut \/ DeadlinePasses
  <2>1. UNCHANGED <<flag, bin, msg, record>> /\ pc = "pop" /\ pc' \in {"pop", "check"}
    BY <1>7 DEF PopTimesOut, DeadlinePasses, flash
  <2> QED
    BY <1>1, <2>1 DEF Places, RecordOK, FlagBehind
<1>8. CASE pcp_handle_timeout
  <2>1. UNCHANGED <<flag, bin, record>> /\ pc = "check" /\ pc' = "pop"
    BY <1>8 DEF pcp_handle_timeout, flash
  <2> QED
    BY <1>1, <2>1 DEF Places, RecordOK, FlagBehind
<1>9. CASE pcp_send_msg
  <2>1. /\ UNCHANGED <<flag, bin, record>> /\ pc = "send"
        /\ pc' = IF record.cur_state = "UPGRADING" THEN "sleep" ELSE "check"
    BY <1>9 DEF pcp_send_msg, flash
  <2>2. pc' = "sleep" => record.ver = 1
    BY <1>1, <2>1 DEF Places, RecordOK, Begun
  <2> QED
    BY <1>1, <2>1, <2>2 DEF Places, RecordOK, FlagBehind
<1> QED
  BY <1>2, <1>3, <1>4, <1>5, <1>6, <1>7, <1>8, <1>9 DEF pcp_entry

\* What the network and the platform do leaves the task and its flash alone.
LEMMA OthersPlaces ==
  ASSUME PcpTypeOK, VersionOK, "update" \notin faults,
         DeviceReceives \/ Lost \/ Publish \/ Offer \/ PlatformReceives \/ UNCHANGED pcpVars
  PROVE  Places' /\ UNCHANGED <<device, flash, faults>>
<1>1. UNCHANGED <<device, flash, faults>>
  BY Zenon DEF DeviceReceives, pcp_msg_push, PushTimesOut, Lost, Publish, Offer, PlatformReceives,
               PlatformHandles, pcpVars
<1> QED
  BY <1>1 DEF device, flash, VersionOK, Places, RecordOK, FlagBehind

\* What is on its way stays about the first version, whatever arrives, is
\* lost, or is sent by the platform.
LEMMA OthersSendFirst ==
  ASSUME PcpTypeOK, VersionOK, "update" \notin faults,
         DeviceReceives \/ Lost \/ Publish \/ Offer \/ PlatformReceives \/ UNCHANGED pcpVars
  PROVE  /\ offer' \in {0, 1}
         /\ \A m \in OnItsWay' : AboutFirst(m, Blocks)
         /\ \A m \in Arrived' : AboutFirst(m, Blocks - 1)
<1>1. /\ offer \in {0, 1}
      /\ \A m \in OnItsWay : AboutFirst(m, Blocks)
      /\ \A m \in Arrived : AboutFirst(m, Blocks - 1)
      /\ UNCHANGED <<outbox, msg>>
  BY OthersPlaces DEF VersionOK, device
<1>2. ASSUME NEW m \in toDevice, pcp_msg_push(m) \/ PushTimesOut(m)
      PROVE  Arrived' \subseteq Arrived /\ UNCHANGED <<toPlatform, offer>>
  <2>1. toDevice' \subseteq toDevice /\ UNCHANGED <<toPlatform, offer>>
    BY <1>2 DEF pcp_msg_push, PushTimesOut, Arrives, platform
  <2>2. {msg_queue'[k] : k \in 1 .. Len(msg_queue')} \subseteq {msg_queue[k] : k \in 1 .. Len(msg_queue)} \cup {m}
    BY <1>2, QueueGrows DEF pcp_msg_push, PushTimesOut, PcpTypeOK
  <2> QED
    BY <1>1, <2>1, <2>2 DEF Arrived
<1>3. CASE Lost
  <2>1. /\ toDevice' \subseteq toDevice /\ toPlatform' \subseteq toPlatform
        /\ UNCHANGED <<msg_queue, offer>>
    BY <1>3 DEF Lost, platform
  <2> QED
    BY <1>1, <2>1 DEF Arrived, OnItsWay
<1>4. CASE Publish \/ Offer
  <2>1. /\ UNCHANGED <<msg_queue, toPlatform>>
        /\ toDevice' = toDevice \cup {Message("NOTIFYNEWVER", offer', 0)}
        /\ offer' = 1
    BY <1>1, <1>4 DEF Publish, Offer, network, platform
  <2>2. AboutFirst(Message("NOTIFYNEWVER", 1, 0), Blocks - 1)
    BY DEF AboutFirst, Message
  <2> QED
    BY <1>1, <2>1, <2>2 DEF Arrived, OnItsWay
<1>5. ASSUME NEW m \in toPlatform, PlatformHandles(m)
      PROVE  /\ \A k \in Arrived' : AboutFirst(k, Blocks - 1)
             /\ toPlatform' \subseteq toPlatform /\ UNCHANGED offer
  <2>1. /\ UNCHANGED <<msg_queue, offer>> /\ toPlatform' \subseteq toPlatform
        /\ toDevice' = toDevice \cup
             (CASE m.code = "GETBLOCK" /\ m.num < Blocks -> {m}
                [] m.code = "REPORTDOWNLOADSTATE" -> {Message("EXCUTEUPDATE", 0, 0)}
                [] m.code = "NOTIFYSTATE" -> {Message("NOTIFYSTATE", 0, 0)}
                [] OTHER -> {})
    BY <1>5 DEF PlatformHandles, Replies
  <2>2. CASE m.code = "GETBLOCK" /\ m.num < Blocks
    <3>1. toDevice' = toDevice \cup {m}
      BY <2>1, <2>2
    <3>2. AboutFirst(m, Blocks - 1)
      BY <1>1, <2>2, PcpAssumption DEF AboutFirst, OnItsWay, PcpTypeOK, Messages
    <3> QED
      BY <1>1, <2>1, <3>1, <3>2 DEF Arrived
  <2>3. CASE ~ (m.code = "GETBLOCK" /\ m.num < Blocks)
    <3>1. toDevice' \subseteq toDevice \cup {Message("EXCUTEUPDATE", 0, 0), Message("NOTIFYSTATE", 0, 0)}
      BY <2>1, <2>3, Zenon
    <3> QED
      BY <1>1, <2>1, <3>1, OthersAreAboutFirst DEF Arrived
  <2> QED
    BY <2>1, <2>2, <2>3
<1>6. CASE UNCHANGED pcpVars
  BY <1>1, <1>6 DEF pcpVars, device, network, platform, Arrived, OnItsWay
<1>7. ASSUME Arrived' \subseteq Arrived, UNCHANGED <<toPlatform, offer>>
      PROVE  /\ offer' \in {0, 1}
             /\ \A m \in OnItsWay' : AboutFirst(m, Blocks)
             /\ \A m \in Arrived' : AboutFirst(m, Blocks - 1)
  BY <1>1, <1>7 DEF OnItsWay
<1>8. CASE DeviceReceives
  BY <1>2, <1>7, <1>8 DEF DeviceReceives
<1>9. CASE PlatformReceives
  BY <1>1, <1>5, <1>9 DEF PlatformReceives, OnItsWay
<1> QED
  BY <1>3, <1>4, <1>6, <1>8, <1>9

\* With one version, every step keeps messages and records about it.
LEMMA VersionNext == PcpTypeOK /\ VersionOK /\ [PcpNext]_pcpVars => VersionOK'
<1> SUFFICES ASSUME PcpTypeOK, VersionOK, [PcpNext]_pcpVars, "update" \notin faults'
             PROVE  VersionOK'
  BY DEF VersionOK
<1>1. CASE pcp_entry \/ Restart \/ DeadlinePasses
  <2>1. /\ Arrived' \subseteq Arrived \cup {NoMessage}
        /\ UNCHANGED <<offer, faults>>
    BY <1>1, TaskArrived
  <2>2. Places' /\ \A m \in OnItsWay' : AboutFirst(m, Blocks)
    BY <1>1, <2>1, TaskPlaces, TaskSendsFirst
  <2> QED
    BY <2>1, <2>2, OthersAreAboutFirst DEF VersionOK, Places
<1>2. CASE DeviceReceives \/ Lost \/ Publish \/ Offer \/ PlatformReceives \/ UNCHANGED pcpVars
  <2>1. UNCHANGED faults
    BY <1>2, Zenon DEF DeviceReceives, pcp_msg_push, PushTimesOut, Lost, Publish, Offer, PlatformReceives,
                 PlatformHandles, pcpVars
  <2>2. Places'
    BY <1>2, <2>1, OthersPlaces
  <2> QED
    BY <1>2, <2>1, <2>2, OthersSendFirst DEF VersionOK, Places
<1> QED
  BY <1>1, <1>2 DEF PcpNext

-----------------------------------------------------------------------------
(***************************************************************************)
(* Without a newer version, a damaged record or a failed write, all that   *)
(* is said and done after a download presupposes a whole image in flash.   *)
(***************************************************************************)

\* A record of a version whose download is over.
Complete(r) ==
  \/ r.cur_state \in {"DOWNLOADED", "UPGRADING", "UPGRADED"}
  \/ r.cur_state = "IDLE" /\ r.ver # 0

\* A message that is sent only when the download is over.
Tells(m) == m.code \in {"REPORTDOWNLOADSTATE", "EXCUTEUPDATE", "NOTIFYSTATE", "DEVLATESTVER"}

Told ==
  \/ Complete(record) \/ Complete(flag) \/ pc = "sleep" \/ result # 0
  \/ \E m \in OnItsWay \cup Arrived : Tells(m)

\* What is reported as installed is the first version.
ReportsFirst ==
  /\ \A m \in OnItsWay : m.code = "NOTIFYSTATE" => m.ver = 1
  /\ result \in {0, 1}

ImageOK ==
  faults \cap {"update", "tear", "write"} = {} =>
    /\ Told => flag.blk_cur = Blocks
    /\ ReportsFirst

\* At the start nothing was told and nothing is installed.
LEMMA ImageInit == PcpInit => ImageOK
<1> SUFFICES ASSUME PcpInit
             PROVE  ImageOK
  OBVIOUS
<1>1. Arrived = {NoMessage, Message("GETVER", 0, 0)} /\ OnItsWay = {}
  <2>1. {<<>>[k] : k \in 1 .. Len(<<>>)} = {}
    BY EmptySeq
  <2>2. {msg_queue[k] : k \in 1 .. Len(msg_queue)} = {}
    BY <2>1 DEF PcpInit
  <2> QED
    BY <2>2 DEF PcpInit, Arrived, OnItsWay
<1>2. \A m \in Arrived : ~ Tells(m)
  BY <1>1 DEF Tells, NoMessage, Message
<1>3. ~ Complete(NoRecord) /\ ~ Complete(TornRecord)
  BY DEF Complete, NoRecord, TornRecord
<1> QED
  BY <1>1, <1>2, <1>3 DEF PcpInit, ImageOK, Told, ReportsFirst

\* The record in flash never counts less again.
LEMMA ImageStays ==
  ASSUME PcpTypeOK, VersionOK, [PcpNext]_pcpVars,
         faults \cap {"update", "tear", "write"} = {}, flag.blk_cur = Blocks
  PROVE  flag'.blk_cur = Blocks
<1>1. flag' = flag \/ (pc = "save" /\ flag' = record)
  <2>1. CASE pcp_handle_msg
    BY <2>1 DEF pcp_handle_msg, flash
  <2>2. CASE SavesState \/ SavesVersion \/ SavesBlock \/ SavesImage
    BY <2>2 DEF SavesState, SavesVersion, SavesBlock, SavesImage, SavesRecord, pcp_save_flag
  <2>3. CASE Restart
    BY <2>3 DEF Restart, flash
  <2>4. CASE \/ Starts \/ PopTimesOut \/ pcp_save_newblock \/ pcp_send_msg \/ pcp_handle_timeout
             \/ DeadlinePasses \/ DeviceReceives \/ Lost \/ Publish \/ Offer \/ PlatformReceives
             \/ UNCHANGED pcpVars
    BY <2>4, Zenon DEF Starts, PopTimesOut, pcp_save_newblock, pcp_send_msg, pcp_handle_timeout,
                       DeadlinePasses, DeviceReceives, pcp_msg_push, PushTimesOut, Lost, Publish,
                       Offer, PlatformReceives, PlatformHandles, pcpVars, flash
  <2> QED
    BY <2>1, <2>2, <2>3, <2>4 DEF PcpNext, pcp_entry
<1>2. pc = "save" => record.blk_cur = Blocks
  BY PcpAssumption DEF VersionOK, FlagBehind, RecordOK, PcpTypeOK, Records
<1> QED
  BY <1>1, <1>2

\* A complete record is one of the first version.
LEMMA CompleteIsFirst ==
  ASSUME PcpTypeOK, VersionOK, ImageOK, faults \cap {"update", "tear", "write"} = {},
         Complete(record), pc # "off"
  PROVE  record.ver = 1
<1>1. flag.blk_cur = Blocks /\ flag.blk_cur <= record.blk_cur
  BY DEF ImageOK, Told, VersionOK, FlagBehind
<1> QED
  BY <1>1, PcpAssumption DEF VersionOK, RecordOK, Begun, PcpTypeOK, Records

\* Handling a message tells nothing of a complete image that was not told before.
LEMMA HandlingTells ==
  ASSUME PcpTypeOK, VersionOK, ImageOK, faults \cap {"update", "tear", "write"} = {},
         pcp_handle_msg
  PROVE  (Told' => Told) /\ ReportsFirst'
<1>1. /\ Arrived' \subseteq Arrived \cup {NoMessage} /\ ~ Tells(NoMessage)
      /\ UNCHANGED <<result, flag, toPlatform>>
  BY TaskArrived DEF pcp_entry, pcp_handle_msg, flash, network, Tells, NoMessage, Message
<1>2. ReportsFirst /\ "update" \notin faults
  BY DEF ImageOK
<1>3. CASE Upgraded
  BY <1>3 DEF Upgraded, Told, pcp_handle_msg, ReportsFirst, OnItsWay, ImageOK, network, platform
<1>4. ASSUME ~ Upgraded
      PROVE  msg' \in Arrived \cup {NoMessage} /\ AboutFirst(msg', Blocks - 1)
  BY <1>1, <1>2, <1>4, HandledIsAboutFirst DEF Arrived
<1>5. CASE KnownVersion
  <2>1. /\ UNCHANGED <<record, toPlatform>> /\ pc' = "send"
        /\ outbox' = {Message(IF record.cur_state = "IDLE" THEN "DEVLATESTVER" ELSE "OK", 0, 0)}
        /\ msg'.code = "NOTIFYNEWVER" /\ msg'.ver = record.ver /\ pc = "pop"
    BY <1>5 DEF KnownVersion, Answering, Handling, pcp_handle_msg, network
  <2>2. record.ver = 1
    BY <1>4, <2>1 DEF Upgraded, AboutFirst
  <2>3. record.cur_state = "IDLE" => Told
    BY <2>2 DEF Told, Complete
  <2>4. record.cur_state # "IDLE" => \A m \in outbox' : ~ Tells(m)
    BY <2>1 DEF Tells, Message
  <2>5. \A m \in outbox' : m.code # "NOTIFYSTATE"
    BY <2>1 DEF Message
  <2> QED
    BY <1>1, <1>2, <2>1, <2>3, <2>4, <2>5 DEF Told, ReportsFirst, OnItsWay
<1>6. CASE pcp_cmd_getversion \/ ExpectedBlock \/ UnexpectedBlock
  <2>1. UNCHANGED record /\ outbox' \subseteq outbox /\ pc' # "sleep"
    BY <1>6 DEF pcp_cmd_getversion, ExpectedBlock, UnexpectedBlock, Answering
  <2> QED
    BY <1>1, <1>2, <2>1 DEF Told, ReportsFirst, OnItsWay
<1>7. CASE NewVersion
  <2>1. ~ Complete(record') /\ outbox' = outbox /\ pc' = "save"
    BY <1>7 DEF NewVersion, Complete
  <2> QED
    BY <1>1, <1>2, <2>1 DEF Told, ReportsFirst, OnItsWay
<1>8. CASE pcp_cmd_upgrade
  <2>1. record.cur_state = "DOWNLOADED" /\ outbox' = {}
    BY <1>8 DEF pcp_cmd_upgrade
  <2> QED
    BY <1>1, <1>2, <2>1 DEF Told, Complete, ReportsFirst, OnItsWay
<1>9. CASE RefusedUpgrade \/ pcp_response_upgradestatus
  <2>1. /\ msg'.code \in {"EXCUTEUPDATE", "NOTIFYSTATE"} /\ outbox' = outbox
        /\ pc = "pop"
    BY <1>9 DEF RefusedUpgrade, pcp_response_upgradestatus, Handling
  <2>2. Tells(msg') /\ msg' \in Arrived
    BY <1>1, <1>4, <2>1 DEF Tells, Upgraded
  <2> QED
    BY <1>1, <1>2, <2>1, <2>2 DEF Told, ReportsFirst, OnItsWay
<1> QED
  BY <1>3, <1>5, <1>6, <1>7, <1>8, <1>9 DEF pcp_handle_msg

\* What saving a record tells is that the image is complete in flash.
LEMMA SavingTells ==
  ASSUME PcpTypeOK, VersionOK, ImageOK, faults \cap {"update", "tear", "write"} = {},
         SavesState \/ SavesVersion \/ SavesBlock \/ SavesImage
  PROVE  (Told' => Told \/ flag'.blk_cur = Blocks) /\ ReportsFirst'
<1>1. /\ UNCHANGED <<result, toPlatform, toDevice, msg, msg_queue>>
      /\ pc = "save" /\ pc' # "sleep"
      /\ flag' = record
  BY DEF SavesState, SavesVersion, SavesBlock, SavesImage, SavesRecord, pcp_save_flag, Fails,
         network, platform, Answering
<1>2. ReportsFirst /\ "update" \notin faults /\ UNCHANGED Arrived
  BY <1>1 DEF ImageOK, Arrived
<1>3. ~ Tells(Request) /\ ~ Tells(Message("OK", 0, 0))
  BY DEF Tells, Request, Message, Block
<1>4. /\ Request.code # "NOTIFYSTATE" /\ Message("OK", 0, 0).code # "NOTIFYSTATE"
      /\ Report.code # "NOTIFYSTATE"
  BY DEF Request, Block, Message, Report
<1>5. CASE SavesState \/ SavesVersion
  <2>1. UNCHANGED record /\ outbox' \subseteq outbox \cup {Message("OK", 0, 0), Request}
    BY <1>5 DEF SavesState, SavesVersion, Answering
  <2> QED
    BY <1>1, <1>2, <1>3, <1>4, <2>1 DEF Told, ReportsFirst, OnItsWay
<1>6. CASE SavesBlock
  <2>1. CASE record.blk_cur < Blocks
    <3>1. UNCHANGED record /\ outbox' = {Request}
      BY <1>1, <1>6, <2>1 DEF SavesBlock, Answering
    <3> QED
      BY <1>1, <1>2, <1>3, <1>4, <3>1 DEF Told, ReportsFirst, OnItsWay
  <2>2. CASE ~ (record.blk_cur < Blocks)
    <3>1. flag'.blk_cur = Blocks
      BY <1>1, <1>2, <2>2, PcpAssumption DEF VersionOK, RecordOK, PcpTypeOK, Records
    <3>2. UNCHANGED outbox
      BY <1>1, <1>6, <2>2 DEF SavesBlock
    <3> QED
      BY <1>1, <1>2, <3>1, <3>2 DEF ReportsFirst, OnItsWay
  <2> QED
    BY <2>1, <2>2
<1>7. CASE SavesImage
  <2>1. UNCHANGED record /\ outbox' = {Report} /\ record.cur_state = "DOWNLOADED"
    BY <1>7 DEF SavesImage, Answering
  <2> QED
    BY <1>1, <1>2, <1>4, <2>1 DEF Told, Complete, ReportsFirst, OnItsWay
<1> QED
  BY <1>5, <1>6, <1>7

\* So do all steps of the task.
LEMMA TaskTells ==
  ASSUME PcpTypeOK, VersionOK, ImageOK, faults \cap {"update", "tear", "write"} = {},
         pcp_entry \/ Restart \/ DeadlinePasses
  PROVE  (Told' => Told \/ flag'.blk_cur = Blocks) /\ ReportsFirst'
<1>1. /\ Arrived' \subseteq Arrived \cup {NoMessage} /\ ~ Tells(NoMessage)
      /\ UNCHANGED result
  BY TaskArrived DEF Tells, NoMessage, Message
<1>2. ReportsFirst /\ "update" \notin faults
  BY DEF ImageOK
<1>3. ~ Complete(NoRecord)
  BY DEF Complete, NoRecord
<1>4. CASE Starts \/ Restart
  <2>1. /\ record' = NoRecord \/ record' = flag
        /\ flag' = flag /\ pc' # "sleep"
        /\ outbox' \subseteq outbox /\ UNCHANGED toPlatform
    BY <1>4 DEF Starts, Restart, flash, network
  <2> QED
    BY <1>1, <1>2, <1>3, <2>1 DEF Told, ReportsFirst, OnItsWay
<1>5. CASE PopTimesOut \/ DeadlinePasses \/ pcp_save_newblock
  <2>1. /\ record' = record \/ record' = [record EXCEPT !.blk_cur = @ + 1]
        /\ UNCHANGED <<flag, toPlatform>> /\ pc' # "sleep"
        /\ outbox' \subseteq outbox
    BY <1>5 DEF PopTimesOut, DeadlinePasses, pcp_save_newblock, Answering, flash, network
  <2>2. Complete(record') <=> Complete(record)
    BY <2>1 DEF Complete, PcpTypeOK, Records
  <2> QED
    BY <1>1, <1>2, <2>1, <2>2 DEF Told, ReportsFirst, OnItsWay
<1>6. CASE pcp_send_msg
  <2>1. /\ UNCHANGED <<record, flag>> /\ OnItsWay' = OnItsWay
        /\ pc' = "sleep" => record.cur_state = "UPGRADING"
    BY <1>6 DEF pcp_send_msg, Sent, OnItsWay, flash
  <2> QED
    BY <1>1, <1>2, <2>1 DEF Told, Complete, ReportsFirst
<1>7. CASE pcp_handle_timeout
  <2>1. /\ UNCHANGED <<record, flag, outbox>> /\ pc = "check" /\ pc' = "pop"
        /\ toPlatform' \subseteq toPlatform \cup Again
    BY <1>7 DEF pcp_handle_timeout, Sent, flash
  <2>2. \A m \in Again : (Tells(m) => Complete(record)) /\ (m.code = "NOTIFYSTATE" => m.ver = 1)
    <3>1. CASE record.cur_state = "DOWNLOADING"
      BY <3>1 DEF Again, Request, Block, Message, Tells
    <3>2. CASE record.cur_state = "DOWNLOADED"
      BY <3>2 DEF Again, Report, Message, Complete
    <3>3. CASE record.cur_state = "UPGRADED"
      <4>1. Again = {Message("NOTIFYSTATE", record.ver, 0)} /\ Complete(record)
        BY <3>3 DEF Again, Complete
      <4>2. record.ver = 1
        BY <2>1, <4>1, CompleteIsFirst
      <4> QED
        BY <4>1, <4>2 DEF Message
    <3>4. CASE record.cur_state \notin {"DOWNLOADING", "DOWNLOADED", "UPGRADED"}
      BY <3>4 DEF Again
    <3> QED
      BY <3>1, <3>2, <3>3, <3>4
  <2> QED
    BY <1>1, <1>2, <2>1, <2>2 DEF Told, ReportsFirst, OnItsWay
<1>8. CASE pcp_handle_msg
  BY <1>8, HandlingTells
<1>9. CASE SavesState \/ SavesVersion \/ SavesBlock \/ SavesImage
  BY <1>9, SavingTells
<1> QED
  BY <1>4, <1>5, <1>6, <1>7, <1>8, <1>9 DEF pcp_entry

\* The network and the platform repeat only what the task told.
LEMMA OthersTell ==
  ASSUME PcpTypeOK, VersionOK, ImageOK, faults \cap {"update", "tear", "write"} = {},
         DeviceReceives \/ Lost \/ Publish \/ Offer \/ PlatformReceives \/ UNCHANGED pcpVars
  PROVE  (Told' => Told) /\ ReportsFirst'
<1>1. UNCHANGED <<device, flash>> /\ ReportsFirst /\ "update" \notin faults
  BY OthersPlaces DEF ImageOK
<1>2. ASSUME UNCHANGED result, OnItsWay' \subseteq OnItsWay,
             \A m \in Arrived' : Tells(m) => m \in Arrived
      PROVE  (Told' => Told) /\ ReportsFirst'
  BY <1>1, <1>2 DEF Told, ReportsFirst, device, flash
<1>3. ASSUME NEW m \in toDevice, pcp_msg_push(m) \/ PushTimesOut(m)
      PROVE  Arrived' \subseteq Arrived /\ UNCHANGED <<toPlatform, result>>
  <2>1. toDevice' \subseteq toDevice /\ UNCHANGED <<toPlatform, result>>
    BY <1>3 DEF pcp_msg_push, PushTimesOut, Arrives, platform
  <2>2. {msg_queue'[k] : k \in 1 .. Len(msg_queue')} \subseteq {msg_queue[k] : k \in 1 .. Len(msg_queue)} \cup {m}
    BY <1>3, QueueGrows DEF pcp_msg_push, PushTimesOut, PcpTypeOK
  <2> QED
    BY <1>1, <2>1, <2>2 DEF Arrived, device
<1>4. CASE DeviceReceives
  BY <1>1, <1>2, <1>3, <1>4 DEF DeviceReceives, OnItsWay, device
<1>5. CASE Lost
  <2>1. /\ toDevice' \subseteq toDevice /\ toPlatform' \subseteq toPlatform
        /\ UNCHANGED <<msg_queue, result>>
    BY <1>5 DEF Lost, platform
  <2> QED
    BY <1>1, <1>2, <2>1 DEF Arrived, OnItsWay, device
<1>6. CASE Publish \/ Offer
  <2>1. /\ UNCHANGED <<msg_queue, toPlatform, result>>
        /\ toDevice' = toDevice \cup {Message("NOTIFYNEWVER", offer', 0)}
    BY <1>6 DEF Publish, Offer, network, platform
  <2>2. ~ Tells(Message("NOTIFYNEWVER", offer', 0))
    BY DEF Tells, Message
  <2> QED
    BY <1>1, <1>2, <2>1, <2>2 DEF Arrived, OnItsWay, device
<1>7. ASSUME NEW m \in toPlatform, PlatformHandles(m)
      PROVE  (Told' => Told) /\ ReportsFirst'
  <2>1. /\ UNCHANGED <<msg_queue, offer>> /\ toPlatform' \subseteq toPlatform /\ m \in OnItsWay
        /\ result' = CASE m.code = "DEVLATESTVER" -> offer
                       [] m.code = "NOTIFYSTATE" -> m.ver
                       [] OTHER -> result
        /\ toDevice' = toDevice \cup
             (CASE m.code = "GETBLOCK" /\ m.num < Blocks -> {m}
                [] m.code = "REPORTDOWNLOADSTATE" -> {Message("EXCUTEUPDATE", 0, 0)}
                [] m.code = "NOTIFYSTATE" -> {Message("NOTIFYSTATE", 0, 0)}
                [] OTHER -> {})
    BY <1>7 DEF PlatformHandles, Replies, OnItsWay
  <2>2. ~ Tells(m) => result' = result /\ toDevice' \subseteq toDevice \cup {m}
    BY <2>1, Zenon DEF Tells
  <2>3. result' \in {offer, result} \/ (m.code = "NOTIFYSTATE" /\ result' = m.ver)
    BY <2>1, Zenon
  <2>4. result' \in {0, 1}
    BY <1>1, <2>1, <2>3 DEF ReportsFirst, VersionOK
  <2>5. CASE Tells(m)
    <3>1. Told
      BY <2>1, <2>5 DEF Told
    <3> QED
      BY <1>1, <2>1, <2>4, <3>1 DEF ReportsFirst, OnItsWay, device
  <2>6. CASE ~ Tells(m)
    BY <1>1, <1>2, <2>1, <2>2, <2>6 DEF Arrived, OnItsWay, device
  <2> QED
    BY <2>5, <2>6
<1>8. CASE UNCHANGED pcpVars
  BY <1>2, <1>8 DEF pcpVars, Arrived, OnItsWay, device, network, platform
<1> QED
  BY <1>4, <1>5, <1>6, <1>7, <1>8 DEF PlatformReceives

\* Without failing or torn writes, what is reported as installed is in flash as a
\* whole.
LEMMA ImageNext == PcpTypeOK /\ VersionOK /\ ImageOK /\ [PcpNext]_pcpVars => ImageOK'
<1> SUFFICES ASSUME PcpTypeOK, VersionOK, ImageOK, [PcpNext]_pcpVars,
                    faults' \cap {"update", "tear", "write"} = {}
             PROVE  (Told' => flag'.blk_cur = Blocks) /\ ReportsFirst'
  BY DEF ImageOK
<1>1. faults' = faults
  <2>1. CASE pcp_entry \/ Restart \/ DeadlinePasses
    BY <2>1, TaskArrived
  <2>2. CASE DeviceReceives \/ Lost \/ Publish \/ Offer \/ PlatformReceives \/ UNCHANGED pcpVars
    BY <2>2, Zenon DEF DeviceReceives, pcp_msg_push, PushTimesOut, Lost, Publish, Offer,
                       PlatformReceives, PlatformHandles, pcpVars
  <2> QED
    BY <2>1, <2>2 DEF PcpNext
<1>2. Told => flag.blk_cur = Blocks
  BY <1>1 DEF ImageOK
<1>3. (Told' => Told \/ flag'.blk_cur = Blocks) /\ ReportsFirst'
  BY <1>1, TaskTells, OthersTell DEF PcpNext
<1> QED
  BY <1>1, <1>2, <1>3, ImageStays

\* The inductive invariant, and what it is for.
PcpInv == PcpTypeOK /\ FlagFollows /\ VersionOK /\ ImageOK

\* The invariant of the update holds at the start.
LEMMA PcpInvInit == PcpInit => PcpInv
BY PcpTypeInit, FollowsInit, VersionInit, ImageInit DEF PcpInv

\* The invariant of the update is inductive.
LEMMA PcpInvNext == PcpInv /\ [PcpNext]_pcpVars => PcpInv'
BY PcpTypeNext, FollowsNext, VersionNext, ImageNext DEF PcpInv

\* The invariant of the update implies its two properties.
LEMMA PcpInvImplies == PcpInv => CountedIsWritten /\ RestartCostsOneBlock
<1> SUFFICES ASSUME PcpInv
             PROVE  CountedIsWritten
  BY FollowsImplies DEF PcpInv
<1> USE DEF PcpInv
<1>1. ASSUME "update" \notin faults, NEW r \in {record, flag}, NEW n \in 0 .. r.blk_cur - 1
      PROVE  bin[n] = Block(r.ver, n)
  <2>1. RecordOK(r) /\ r.blk_cur \in Nat
    BY <1>1 DEF VersionOK, PcpTypeOK, Records
  <2>2. r.ver = 1
    BY <2>1 DEF RecordOK, Begun
  <2> QED
    BY <2>1, <2>2 DEF RecordOK
<1>2. ASSUME faults \cap {"update", "tear", "write"} = {}, result # 0, NEW n \in 0 .. Blocks - 1
      PROVE  bin[n] = Block(result, n)
  <2>1. flag.blk_cur = Blocks /\ result = 1
    BY <1>2 DEF ImageOK, Told, ReportsFirst
  <2>2. RecordOK(flag)
    BY <1>2 DEF VersionOK
  <2> QED
    BY <2>1, <2>2 DEF RecordOK
<1> QED
  BY <1>1, <1>2 DEF CountedIsWritten

-----------------------------------------------------------------------------
(***************************************************************************)
(* The AT client.                                                          *)
(***************************************************************************)
Frames == [of : Nat, words : SUBSET Word]

AtCalls == [pc : {"none", "sync", "create", "send", "wait", "read", "clear", "post"}, id : Nat,
            index : Word \cup {"none"}, respbuf : Client \cup {"none"}, ok : BOOLEAN, frame : Frames]

AtCommands == [command : [index : Word \cup {"none"}, respbuf : Client \cup {"none"}, respdata : Frames],
               cmdsync : {0, 1}, respsync : {0, 1}]

AtTypeOK ==
  /\ prompt \in BOOLEAN /\ cmd \in AtCommands
  /\ at \in [Client -> AtCalls] /\ buf \in [Client -> Frames]
  /\ rcvbuf \in Frames /\ line \in Seq(Frames)
  /\ inbox \in Seq([id : Nat, index : Word \cup {"none"}])
  /\ commands \in Nat

\* The task holds cmdsync.
Holds(t) == at[t].pc \in {"create", "send", "wait", "read", "clear", "post"}

\* Its command is the present one.
Presents(t) == at[t].pc \in {"send", "wait", "read", "clear"}

OneAtATime ==
  /\ \A t \in Client : Holds(t) => cmd.cmdsync = 0
  /\ \A t, u \in Client : Holds(t) /\ Holds(u) => t = u

PresentIsKnown ==
  /\ \A t \in Client : Presents(t) => cmd.command.index = at[t].index /\ cmd.command.respbuf = at[t].respbuf
  /\ (\A t \in Client : ~ Presents(t)) => cmd.command = NoCommand
  /\ \A t \in Client : at[t].respbuf \in {t, "none"}
  /\ \A t \in Client : at[t].pc # "none" => at[t].index \in Word

\* The task has an answer, or will read one when it goes on.
HasAnswer(t) == at[t].pc = "read" \/ (at[t].pc \in {"send", "wait"} /\ cmd.respsync = 1)

AnswersFit ==
  \A t \in Client :
    /\ HasAnswer(t) => at[t].index \in cmd.command.respdata.words
    /\ HasAnswer(t) /\ prompt => cmd.command.respdata.of = at[t].id
    /\ at[t].ok => /\ at[t].pc \in {"clear", "post"}
                   /\ at[t].index \in at[t].frame.words
                   /\ prompt => at[t].frame.of = at[t].id
    /\ HasAnswer(t) \/ at[t].ok => (at[t].respbuf = t => at[t].index \in buf[t].words)

\* With a prompt module, all that is on its way belongs to the task that waits.
OneAnswer ==
  prompt =>
    /\ \A t \in Client : at[t].pc = "send" => cmd.respsync = 0
    /\ \/ inbox = <<>> /\ line = <<>> /\ rcvbuf = NoFrame
       \/ \E t \in Client :
            /\ at[t].pc = "wait" /\ cmd.respsync = 0
            /\ \/ Len(inbox) = 1 /\ inbox[1].id = at[t].id /\ line = <<>> /\ rcvbuf = NoFrame
               \/ inbox = <<>> /\ Len(line) = 1 /\ line[1].of = at[t].id /\ rcvbuf = NoFrame
               \/ inbox = <<>> /\ line = <<>> /\ rcvbuf.of = at[t].id

AtInv == AtTypeOK /\ OneAtATime /\ PresentIsKnown /\ AnswersFit /\ OneAnswer

\* The values for "no frame", "no call" and "no command" have their types.
LEMMA AtConstants ==
  /\ NoFrame \in Frames /\ NoCall \in AtCalls
  /\ NoCommand \in [index : Word \cup {"none"}, respbuf : Client \cup {"none"}, respdata : Frames]
  /\ NoFrame.words = {} /\ NoFrame.of = 0
  /\ NoCall.pc = "none" /\ NoCall.index = "none" /\ NoCall.respbuf = "none" /\ ~ NoCall.ok
  /\ NoCall.frame = NoFrame
  /\ NoCommand.index = "none" /\ NoCommand.respbuf = "none" /\ NoCommand.respdata = NoFrame
BY DEF NoFrame, NoCall, NoCommand, Frames, AtCalls

\* A call that begins.
Began(n, i, r) == [NoCall EXCEPT !.pc = "sync", !.id = n, !.index = i, !.respbuf = r]

\* A call that begins is typed and has no answer.
LEMMA NewCall ==
  ASSUME NEW n \in Nat, NEW i \in Word, NEW r \in Client \cup {"none"}
  PROVE  /\ Began(n, i, r) \in AtCalls
         /\ Began(n, i, r).pc = "sync" /\ Began(n, i, r).id = n /\ Began(n, i, r).index = i
         /\ Began(n, i, r).respbuf = r /\ ~ Began(n, i, r).ok
BY AtConstants DEF AtCalls, Began

\* At the start no task calls and nothing is on its way.
LEMMA AtInitInv == at_init => AtInv
<1> SUFFICES ASSUME at_init
             PROVE  AtInv
  OBVIOUS
<1>1. AtTypeOK
  BY AtConstants DEF at_init, AtTypeOK, AtCommands
<1>2. OneAtATime /\ PresentIsKnown /\ AnswersFit /\ OneAnswer
  BY AtConstants DEF at_init, OneAtATime, PresentIsKnown, AnswersFit, OneAnswer, Holds, Presents, HasAnswer
<1> QED
  BY <1>1, <1>2 DEF AtInv

\* The present command with a new answer, as cmd_match leaves it.
Answered(c, f) ==
  [command |-> [index |-> c.command.index, respbuf |-> c.command.respbuf, respdata |-> f],
   cmdsync |-> c.cmdsync, respsync |-> 1]

\* Fields of the present command, after a step that changes some of them.
LEMMA CommandFields ==
  ASSUME NEW c \in AtCommands
  PROVE  /\ [c EXCEPT !.cmdsync = 0] \in AtCommands
         /\ [c EXCEPT !.cmdsync = 1] \in AtCommands
         /\ [c EXCEPT !.respsync = 0] \in AtCommands
         /\ [c EXCEPT !.command = NoCommand] \in AtCommands
         /\ \A f \in Frames : /\ [c EXCEPT !.command.respdata = f, !.respsync = 1] = Answered(c, f)
                              /\ Answered(c, f) \in AtCommands
<1>1. [c EXCEPT !.cmdsync = 0] \in AtCommands /\ [c EXCEPT !.cmdsync = 1] \in AtCommands
  BY DEF AtCommands
<1>2. [c EXCEPT !.respsync = 0] \in AtCommands
  BY DEF AtCommands
<1>3. [c EXCEPT !.command = NoCommand] \in AtCommands
  BY AtConstants DEF AtCommands
<1>4. ASSUME NEW f \in Frames
      PROVE  [c EXCEPT !.command.respdata = f, !.respsync = 1] = Answered(c, f)
  <2>1. c = [command |-> c.command, cmdsync |-> c.cmdsync, respsync |-> c.respsync]
    BY DEF AtCommands
  <2>2. [c.command EXCEPT !.respdata = f] =
          [index |-> c.command.index, respbuf |-> c.command.respbuf, respdata |-> f]
    BY DEF AtCommands
  <2>3. [c EXCEPT !.command = [c.command EXCEPT !.respdata = f]] =
          [command |-> [c.command EXCEPT !.respdata = f], cmdsync |-> c.cmdsync, respsync |-> c.respsync]
    BY <2>1
  <2>4. [c EXCEPT !.command.respdata = f] = [c EXCEPT !.command = [c.command EXCEPT !.respdata = f]]
    BY <2>1
  <2> DEFINE d == [c EXCEPT !.command.respdata = f]
  <2>5. d = [command |-> [index |-> c.command.index, respbuf |-> c.command.respbuf, respdata |-> f],
             cmdsync |-> c.cmdsync, respsync |-> c.respsync]
    BY <2>2, <2>3, <2>4
  <2>6. [c EXCEPT !.command.respdata = f, !.respsync = 1] = [d EXCEPT !.respsync = 1]
    OBVIOUS
  <2> HIDE DEF d
  <2>7. [d EXCEPT !.respsync = 1] = Answered(c, f)
    BY <2>5 DEF Answered
  <2> QED
    BY <2>6, <2>7
<1>5. ASSUME NEW f \in Frames
      PROVE  Answered(c, f) \in AtCommands
  BY DEF AtCommands, Answered
<1> QED
  BY <1>1, <1>2, <1>3, <1>4, <1>5

\* Every step of the tasks, the receive task and the module keeps the types.
LEMMA AtTypeNext == AtTypeOK /\ [AtNext]_atVars => AtTypeOK'
<1> SUFFICES ASSUME AtTypeOK, [AtNext]_atVars
             PROVE  AtTypeOK'
  OBVIOUS
<1> USE DEF AtTypeOK
<1>1. ASSUME NEW t \in Client, NEW index \in Word, NEW respbuf \in {t, "none"}, Calls(t, index, respbuf)
      PROVE  AtTypeOK'
  <2>1. [NoCall EXCEPT !.pc = "sync", !.id = commands', !.index = index, !.respbuf = respbuf] \in AtCalls
    <3>1. commands' \in Nat /\ respbuf \in Client \cup {"none"}
      BY <1>1 DEF Calls
    <3> QED
      BY <3>1, NewCall DEF Began
  <2> QED
    BY <1>1, <2>1 DEF Calls
<1>2. ASSUME NEW t \in Client, CallsWithoutIndex(t)
      PROVE  AtTypeOK'
  <2>1. commands' \in Nat /\ [id |-> commands', index |-> "none"] \in [id : Nat, index : Word \cup {"none"}]
    BY <1>2 DEF CallsWithoutIndex
  <2> QED
    BY <1>2, <2>1, AppendProperties DEF CallsWithoutIndex
<1>3. ASSUME NEW t \in Client, NEW p \in {"create", "send", "wait", "read", "clear", "post"}, Goes(t, p)
      PROVE  at' \in [Client -> AtCalls]
  BY <1>3 DEF Goes, AtCalls
<1>4. ASSUME NEW t \in Client, PendsCommand(t)
      PROVE  AtTypeOK'
  <2>1. cmd' \in AtCommands
    BY <1>4, CommandFields DEF PendsCommand
  <2>2. at' \in [Client -> AtCalls]
    BY <1>3, <1>4, AtConstants DEF PendsCommand
  <2> QED
    BY <1>4, <2>1, <2>2 DEF PendsCommand
<1>5. ASSUME NEW t \in Client, cmd_create(t)
      PROVE  AtTypeOK'
  <2>1. at[t] \in AtCalls
    OBVIOUS
  <2>2. Present(t) \in [index : Word \cup {"none"}, respbuf : Client \cup {"none"}, respdata : Frames]
    BY <2>1, AtConstants DEF Present, NoCommand, AtCalls
  <2>3. cmd' \in AtCommands
    BY <1>5, <2>2 DEF cmd_create, Created, AtCommands
  <2> QED
    BY <1>3, <1>5, <2>3 DEF cmd_create
<1>6. ASSUME NEW t \in Client, cmd_send(t)
      PROVE  AtTypeOK'
  <2>1. [id |-> at[t].id, index |-> at[t].index] \in [id : Nat, index : Word \cup {"none"}]
    BY DEF AtCalls
  <2>2. inbox' \in Seq([id : Nat, index : Word \cup {"none"}])
    <3> DEFINE a == [id |-> at[t].id, index |-> at[t].index]
    <3>1. inbox' = Append(inbox, a) \/ inbox' = inbox
      BY <1>6 DEF cmd_send
    <3> HIDE DEF a
    <3>2. Append(inbox, a) \in Seq([id : Nat, index : Word \cup {"none"}])
      BY <2>1, AppendProperties DEF a
    <3> QED
      BY <3>1, <3>2
  <2> QED
    BY <1>3, <1>6, <2>2 DEF cmd_send
<1>7. ASSUME NEW t \in Client, PendsAnswer(t)
      PROVE  AtTypeOK'
  BY <1>3, <1>7, CommandFields DEF PendsAnswer
<1>8. ASSUME NEW t \in Client, AnswerTimesOut(t)
      PROVE  AtTypeOK'
  BY <1>3, <1>8 DEF AnswerTimesOut
<1>9. ASSUME NEW t \in Client, ReadsLength(t)
      PROVE  AtTypeOK'
  <2>1. cmd.command.respdata \in Frames
    BY DEF AtCommands
  <2>2. at' \in [Client -> AtCalls]
    <3>1. [at[t] EXCEPT !.pc = "clear", !.ok = TRUE, !.frame = cmd.command.respdata] \in AtCalls
      BY <2>1 DEF AtCalls
    <3>2. at' = [at EXCEPT ![t] = [at[t] EXCEPT !.pc = "clear", !.ok = TRUE, !.frame = cmd.command.respdata]]
      BY <1>9 DEF ReadsLength
    <3> QED
      BY <3>1, <3>2
  <2> QED
    BY <1>9, <2>2 DEF ReadsLength
<1>10. ASSUME NEW t \in Client, cmd_clear(t)
       PROVE  AtTypeOK'
  BY <1>3, <1>10, CommandFields DEF cmd_clear
<1>11. ASSUME NEW t \in Client, Returns(t)
       PROVE  AtTypeOK'
  BY <1>11, CommandFields, AtConstants DEF Returns
<1>12. CASE resp_rcv
  <2>1. Head(line) \in Frames /\ Tail(line) \in Seq(Frames)
    BY <1>12, HeadTailProperties DEF resp_rcv
  <2> QED
    BY <1>12, <2>1 DEF resp_rcv
<1>13. CASE cmd_match
  <2>1. cmd' \in AtCommands
    BY <1>13, CommandFields DEF cmd_match
  <2>2. buf' \in [Client -> Frames]
    BY <1>13 DEF cmd_match
  <2> QED
    BY <1>13, <2>1, <2>2, AtConstants DEF cmd_match
<1>14. ASSUME NEW f \in Frames, Sends(f)
       PROVE  line' \in Seq(Frames)
  BY <1>14, AppendProperties DEF Sends
<1>15. CASE ModuleAnswers
  <2>1. /\ Head(inbox) \in [id : Nat, index : Word \cup {"none"}]
        /\ inbox' \in Seq([id : Nat, index : Word \cup {"none"}])
    BY <1>15, HeadTailProperties DEF ModuleAnswers
  <2>2. line' \in Seq(Frames)
    <3>1. \A word \in Word : [of |-> Head(inbox).id, words |-> {word}] \in Frames
      BY <2>1 DEF Frames
    <3> QED
      BY <1>14, <1>15, <3>1 DEF ModuleAnswers
  <2> QED
    BY <1>15, <2>1, <2>2 DEF ModuleAnswers
<1>16. CASE ModuleTalks
  <2>1. \A word \in Word : [of |-> 0, words |-> {word}] \in Frames
    BY DEF Frames
  <2> QED
    BY <1>14, <1>16, <2>1 DEF ModuleTalks
<1>17. CASE UNCHANGED atVars
  BY <1>17 DEF atVars
<1>18. ASSUME NEW t \in Client, at_command(t)
       PROVE  AtTypeOK'
  BY <1>1, <1>2, <1>4, <1>5, <1>6, <1>7, <1>8, <1>9, <1>10, <1>11, <1>18 DEF at_command
<1> QED
  BY <1>12, <1>13, <1>15, <1>16, <1>17, <1>18 DEF AtNext

-----------------------------------------------------------------------------
\* What a step of a task does, field by field.
Others(t) == \A u \in Client : u # t => at'[u] = at[u]

Keeps(t) ==
  /\ at'[t].id = at[t].id /\ at'[t].index = at[t].index /\ at'[t].respbuf = at[t].respbuf
  /\ at'[t].frame = at[t].frame

Moves(t, p, q) == at[t].pc = p /\ at'[t].pc = q /\ Keeps(t) /\ (at'[t].ok <=> at[t].ok) /\ Others(t)

CommandKept == cmd'.command = cmd.command

\* The steps of a task, as the invariant needs them.
TaskSteps(t) ==
  \/ /\ at[t].pc = "none" /\ at'[t].pc = "sync" /\ ~ at'[t].ok /\ at'[t].index \in Word
     /\ at'[t].respbuf \in {t, "none"} /\ Others(t) /\ UNCHANGED <<cmd, inbox>>
  \/ ~ prompt /\ UNCHANGED <<at, cmd>>
  \/ /\ Moves(t, "sync", "create") /\ cmd.cmdsync = 1 /\ cmd'.cmdsync = 0
     /\ CommandKept /\ cmd'.respsync = cmd.respsync /\ UNCHANGED inbox
  \/ at[t].pc = "sync" /\ at'[t] = NoCall /\ Others(t) /\ UNCHANGED <<cmd, inbox>>
  \/ /\ Moves(t, "create", "send") /\ cmd'.cmdsync = cmd.cmdsync /\ cmd'.respsync = 0
     /\ cmd'.command.index = at[t].index /\ cmd'.command.respbuf = at[t].respbuf
     /\ UNCHANGED inbox
  \/ /\ Moves(t, "send", "wait") /\ UNCHANGED cmd
     /\ \/ UNCHANGED inbox
        \/ inbox' = Append(inbox, [id |-> at[t].id, index |-> at[t].index])
  \/ /\ Moves(t, "wait", "read") /\ cmd.respsync = 1 /\ cmd'.respsync = 0
     /\ CommandKept /\ cmd'.cmdsync = cmd.cmdsync /\ UNCHANGED inbox
  \/ Moves(t, "wait", "clear") /\ (prompt => ~ Coming(at[t].id)) /\ UNCHANGED <<cmd, inbox>>
  \/ /\ at[t].pc = "read" /\ at'[t].pc = "clear" /\ at'[t].ok
     /\ at'[t].id = at[t].id /\ at'[t].index = at[t].index /\ at'[t].respbuf = at[t].respbuf
     /\ at'[t].frame = cmd.command.respdata /\ Others(t) /\ UNCHANGED <<cmd, inbox>>
  \/ /\ Moves(t, "clear", "post") /\ cmd'.command = NoCommand
     /\ cmd'.cmdsync = cmd.cmdsync /\ cmd'.respsync = cmd.respsync /\ UNCHANGED inbox
  \/ /\ at[t].pc = "post" /\ at'[t] = NoCall /\ Others(t) /\ cmd'.cmdsync = 1
     /\ CommandKept /\ cmd'.respsync = cmd.respsync /\ UNCHANGED inbox

\* A step of at_command is one of TaskSteps: it changes the task's own call, the
\* present command and its two semaphores, and leaves the frames alone.
LEMMA TaskEffects ==
  ASSUME AtTypeOK, NEW t \in Client, at_command(t)
  PROVE  TaskSteps(t) /\ UNCHANGED <<prompt, buf, rcvbuf, line>>
<1> USE DEF AtTypeOK
<1>1. at[t] \in AtCalls /\ cmd \in AtCommands
  OBVIOUS
<1>2. ASSUME NEW q, Goes(t, q), NEW p, at[t].pc = p
      PROVE  Moves(t, p, q)
  BY <1>1, <1>2 DEF Goes, Moves, Keeps, Others, AtCalls
<1>3. ASSUME NEW index \in Word, NEW respbuf \in {t, "none"}, Calls(t, index, respbuf)
      PROVE  TaskSteps(t)
  <2>1. commands' \in Nat
    BY <1>3 DEF Calls
  <2>2. /\ at'[t] = [NoCall EXCEPT !.pc = "sync", !.id = commands', !.index = index, !.respbuf = respbuf]
        /\ Others(t) /\ at[t].pc = "none" /\ UNCHANGED <<cmd, inbox>>
    BY <1>3 DEF Calls, Others
  <2>3. at'[t].pc = "sync" /\ ~ at'[t].ok /\ at'[t].index = index /\ at'[t].respbuf = respbuf
    <3>1. at'[t] = Began(commands', index, respbuf)
      BY <2>2 DEF Began
    <3> QED
      BY <2>1, <3>1, NewCall
  <2> QED
    BY <2>2, <2>3 DEF TaskSteps
<1>4. ASSUME CallsWithoutIndex(t)
      PROVE  TaskSteps(t)
  BY <1>4 DEF CallsWithoutIndex, TaskSteps
<1>5. ASSUME PendsCommand(t)
      PROVE  TaskSteps(t)
  <2>1. CASE cmd.cmdsync = 1 /\ cmd' = [cmd EXCEPT !.cmdsync = 0] /\ Goes(t, "create")
    <3>1. cmd'.cmdsync = 0 /\ CommandKept /\ cmd'.respsync = cmd.respsync
      BY <2>1 DEF AtCommands, CommandKept
    <3>2. Moves(t, "sync", "create") /\ UNCHANGED inbox
      BY <1>2, <1>5, <2>1 DEF PendsCommand
    <3> QED
      BY <2>1, <3>1, <3>2 DEF TaskSteps
  <2>2. CASE at' = [at EXCEPT ![t] = NoCall] /\ UNCHANGED cmd
    <3>1. at[t].pc = "sync" /\ at'[t] = NoCall /\ Others(t) /\ UNCHANGED <<cmd, inbox>>
      BY <1>5, <2>2 DEF PendsCommand, Others
    <3> QED
      BY <3>1 DEF TaskSteps
  <2> QED
    BY <1>5, <2>1, <2>2 DEF PendsCommand
<1>6. ASSUME cmd_create(t)
      PROVE  TaskSteps(t)
  <2>1. /\ Present(t).index = at[t].index /\ Present(t).respbuf = at[t].respbuf
    BY AtConstants DEF Present, NoCommand
  <2>2. /\ cmd'.command = Present(t) /\ cmd'.respsync = 0 /\ cmd'.cmdsync = cmd.cmdsync
    BY <1>6 DEF cmd_create, Created, AtCommands
  <2>3. Moves(t, "create", "send") /\ UNCHANGED inbox
    BY <1>2, <1>6 DEF cmd_create
  <2> QED
    BY <2>1, <2>2, <2>3 DEF TaskSteps
<1>7. ASSUME cmd_send(t)
      PROVE  TaskSteps(t)
  <2>1. Moves(t, "send", "wait")
    BY <1>2, <1>7 DEF cmd_send
  <2> QED
    BY <1>7, <2>1 DEF TaskSteps, cmd_send
<1>8. ASSUME PendsAnswer(t)
      PROVE  TaskSteps(t)
  <2>1. Moves(t, "wait", "read")
    BY <1>2, <1>8 DEF PendsAnswer
  <2>2. cmd.respsync = 1 /\ cmd'.respsync = 0 /\ CommandKept /\ cmd'.cmdsync = cmd.cmdsync
    BY <1>8 DEF PendsAnswer, AtCommands, CommandKept
  <2> QED
    BY <1>8, <2>1, <2>2 DEF TaskSteps, PendsAnswer
<1>9. ASSUME AnswerTimesOut(t)
      PROVE  TaskSteps(t)
  <2>1. Moves(t, "wait", "clear")
    BY <1>2, <1>9 DEF AnswerTimesOut
  <2> QED
    BY <1>9, <2>1 DEF TaskSteps, AnswerTimesOut
<1>10. ASSUME ReadsLength(t)
       PROVE  TaskSteps(t)
  <2>1. at' = [at EXCEPT ![t] = [at[t] EXCEPT !.pc = "clear", !.ok = TRUE, !.frame = cmd.command.respdata]]
    BY <1>10 DEF ReadsLength
  <2>2. /\ at'[t] = [at[t] EXCEPT !.pc = "clear", !.ok = TRUE, !.frame = cmd.command.respdata]
        /\ Others(t)
    BY <2>1 DEF Others
  <2>3. /\ at'[t].pc = "clear" /\ at'[t].ok /\ at'[t].id = at[t].id /\ at'[t].index = at[t].index
        /\ at'[t].respbuf = at[t].respbuf /\ at'[t].frame = cmd.command.respdata
    BY <1>1, <2>2 DEF AtCalls
  <2> QED
    BY <1>10, <2>2, <2>3 DEF TaskSteps, ReadsLength
<1>11. ASSUME cmd_clear(t)
       PROVE  TaskSteps(t)
  <2>1. Moves(t, "clear", "post")
    BY <1>2, <1>11 DEF cmd_clear
  <2>2. cmd'.command = NoCommand /\ cmd'.cmdsync = cmd.cmdsync /\ cmd'.respsync = cmd.respsync
    BY <1>11 DEF cmd_clear, AtCommands
  <2> QED
    BY <1>11, <2>1, <2>2 DEF TaskSteps, cmd_clear
<1>12. ASSUME Returns(t)
       PROVE  TaskSteps(t)
  <2>1. cmd'.cmdsync = 1 /\ CommandKept /\ cmd'.respsync = cmd.respsync
    BY <1>12 DEF Returns, AtCommands, CommandKept
  <2> QED
    BY <1>12, <2>1 DEF Returns, TaskSteps, Others
<1>13. UNCHANGED <<prompt, buf, rcvbuf, line>>
  BY Zenon DEF at_command, Calls, CallsWithoutIndex, PendsCommand, cmd_create, cmd_send, PendsAnswer, AnswerTimesOut,
         ReadsLength, cmd_clear, Returns
<1>14. TaskSteps(t)
  BY <1>3, <1>4, <1>5, <1>6, <1>7, <1>8, <1>9, <1>10, <1>11, <1>12 DEF at_command
<1> QED
  BY <1>13, <1>14

\* What the other steps do to what the invariant is about.
LEMMA OtherEffects ==
  ASSUME AtTypeOK, resp_rcv \/ cmd_match \/ ModuleAnswers \/ ModuleTalks \/ UNCHANGED atVars
  PROVE  /\ UNCHANGED <<prompt, at>> /\ cmd'.cmdsync = cmd.cmdsync
         /\ cmd'.command.index = cmd.command.index /\ cmd'.command.respbuf = cmd.command.respbuf
         /\ \/ UNCHANGED <<cmd, buf>>
            \/ /\ cmd_match /\ cmd.command.index \in rcvbuf.words /\ cmd.command.index \in Word
               /\ cmd' = Answered(cmd, rcvbuf)
               /\ buf' = [t \in Client |-> IF t = cmd.command.respbuf THEN rcvbuf ELSE buf[t]]
<1>1. CASE cmd_match /\ cmd.command.index \in rcvbuf.words
  <2>1. /\ cmd' = [cmd EXCEPT !.command.respdata = rcvbuf, !.respsync = 1]
        /\ buf' = [t \in Client |-> IF t = cmd.command.respbuf THEN rcvbuf ELSE buf[t]]
        /\ UNCHANGED <<prompt, at>>
    BY <1>1 DEF cmd_match
  <2>2. cmd' = Answered(cmd, rcvbuf)
    BY <2>1, CommandFields DEF AtTypeOK
  <2>3. cmd.command.index \in Word
    BY <1>1 DEF AtTypeOK, Frames
  <2>4. /\ Answered(cmd, rcvbuf).cmdsync = cmd.cmdsync
        /\ Answered(cmd, rcvbuf).command.index = cmd.command.index
        /\ Answered(cmd, rcvbuf).command.respbuf = cmd.command.respbuf
    BY DEF Answered
  <2> QED
    BY <1>1, <2>1, <2>2, <2>3, <2>4
<1>2. CASE resp_rcv \/ (cmd_match /\ cmd.command.index \notin rcvbuf.words) \/ ModuleAnswers \/ ModuleTalks
           \/ UNCHANGED atVars
  <2>1. UNCHANGED <<prompt, at, cmd, buf>>
    BY <1>2 DEF resp_rcv, cmd_match, ModuleAnswers, ModuleTalks, atVars
  <2> QED
    BY <2>1
<1> QED
  BY <1>1, <1>2

\* cmdsync lets one task at a time between creating and posting.
LEMMA OneAtATimeNext == AtTypeOK /\ OneAtATime /\ [AtNext]_atVars => OneAtATime'
<1> SUFFICES ASSUME AtTypeOK, OneAtATime, [AtNext]_atVars
             PROVE  OneAtATime'
  OBVIOUS
<1>1. ASSUME NEW t \in Client, TaskSteps(t)
      PROVE  OneAtATime'
  <2>0. Others(t)
    BY <1>1 DEF TaskSteps, Moves, Others
  <2>1. (Holds(t)' /\ ~ Holds(t) => cmd.cmdsync = 1 /\ cmd'.cmdsync = 0) /\ Others(t)
    BY <1>1, <2>0, AtConstants DEF TaskSteps, Moves, Holds
  <2>2. (cmd'.cmdsync = cmd.cmdsync \/ (cmd'.cmdsync = 0 /\ cmd.cmdsync = 1) \/ (Holds(t) /\ ~ Holds(t)'))
    BY <1>1, AtConstants DEF TaskSteps, Moves, Holds
  <2>3. \A u \in Client : u # t => (Holds(u)' <=> Holds(u))
    BY <2>1 DEF Others, Holds
  <2> QED
    BY <2>1, <2>2, <2>3 DEF OneAtATime
<1>2. CASE resp_rcv \/ cmd_match \/ ModuleAnswers \/ ModuleTalks \/ UNCHANGED atVars
  BY <1>2, OtherEffects DEF OneAtATime, Holds
<1> QED
  BY <1>1, <1>2, TaskEffects DEF AtNext

\* The present command is that of the task between creating and clearing.
LEMMA PresentNext == AtTypeOK /\ OneAtATime /\ PresentIsKnown /\ [AtNext]_atVars => PresentIsKnown'
<1> SUFFICES ASSUME AtTypeOK, OneAtATime, PresentIsKnown, [AtNext]_atVars
             PROVE  PresentIsKnown'
  OBVIOUS
<1>1. ASSUME NEW t \in Client, TaskSteps(t)
      PROVE  PresentIsKnown'
  <2>1. Others(t) /\ \A u \in Client : u # t => (Presents(u)' <=> Presents(u))
    BY <1>1 DEF TaskSteps, Moves, Others, Presents
  <2>2. /\ at'[t].respbuf \in {t, "none"}
        /\ at'[t].pc # "none" => at'[t].index \in Word
    BY <1>1, AtConstants DEF TaskSteps, Moves, Keeps, PresentIsKnown
  <2>3. \A u \in Client : Presents(u) => Holds(u)
    BY DEF Presents, Holds
  <2>4. CASE CommandKept /\ (Presents(t)' <=> Presents(t))
             /\ (Presents(t)' => at'[t].index = at[t].index /\ at'[t].respbuf = at[t].respbuf)
    BY <2>1, <2>2, <2>4 DEF PresentIsKnown, Others, CommandKept
  <2>5. CASE /\ Holds(t) /\ Presents(t)' /\ ~ Presents(t)
             /\ cmd'.command.index = at[t].index /\ cmd'.command.respbuf = at[t].respbuf
             /\ at'[t].index = at[t].index /\ at'[t].respbuf = at[t].respbuf
    <3>1. \A u \in Client : u # t => ~ Presents(u)
      BY <2>3, <2>5 DEF OneAtATime
    <3> QED
      BY <2>1, <2>2, <2>5, <3>1 DEF PresentIsKnown, Others
  <2>6. CASE Holds(t) /\ ~ Presents(t)' /\ cmd'.command = NoCommand
    <3>1. \A u \in Client : u # t => ~ Presents(u)
      BY <2>3, <2>6 DEF OneAtATime
    <3> QED
      BY <2>1, <2>2, <2>6, <3>1 DEF PresentIsKnown, Others
  <2>7. \/ CommandKept /\ (Presents(t)' <=> Presents(t))
           /\ (Presents(t)' => at'[t].index = at[t].index /\ at'[t].respbuf = at[t].respbuf)
        \/ /\ Holds(t) /\ Presents(t)' /\ ~ Presents(t)
           /\ cmd'.command.index = at[t].index /\ cmd'.command.respbuf = at[t].respbuf
           /\ at'[t].index = at[t].index /\ at'[t].respbuf = at[t].respbuf
        \/ Holds(t) /\ ~ Presents(t)' /\ cmd'.command = NoCommand
    BY <1>1, AtConstants DEF TaskSteps, Moves, Keeps, Presents, Holds, CommandKept
  <2> QED
    BY <2>4, <2>5, <2>6, <2>7
<1>2. CASE resp_rcv \/ cmd_match \/ ModuleAnswers \/ ModuleTalks \/ UNCHANGED atVars
  <2>1. UNCHANGED at /\ cmd'.command.index = cmd.command.index /\ cmd'.command.respbuf = cmd.command.respbuf
    BY <1>2, OtherEffects
  <2>2. (\A t \in Client : ~ Presents(t)) => cmd' = cmd
    BY <1>2, OtherEffects, AtConstants, AtAssumption DEF PresentIsKnown
  <2> QED
    BY <2>1, <2>2 DEF PresentIsKnown, Presents
<1> QED
  BY <1>1, <1>2, TaskEffects DEF AtNext

\* What AnswersFit says of one task.
Fits(t) ==
  /\ HasAnswer(t) => at[t].index \in cmd.command.respdata.words
  /\ HasAnswer(t) /\ prompt => cmd.command.respdata.of = at[t].id
  /\ at[t].ok => /\ at[t].pc \in {"clear", "post"}
                 /\ at[t].index \in at[t].frame.words
                 /\ prompt => at[t].frame.of = at[t].id
  /\ HasAnswer(t) \/ at[t].ok => (at[t].respbuf = t => at[t].index \in buf[t].words)

\* A step of a task keeps every task's answer its own.
LEMMA AnswersFitTask ==
  ASSUME AtTypeOK, OneAtATime, AnswersFit, NEW t \in Client, TaskSteps(t), UNCHANGED <<prompt, buf>>
  PROVE  AnswersFit'
<1>1. \A u \in Client : Fits(u)
  BY DEF AnswersFit, Fits
<1>2. Others(t)
  BY DEF TaskSteps, Moves, Others
<1>3. ASSUME NEW u \in Client, u # t
      PROVE  Fits(u)'
  <2>1. at'[u] = at[u]
    BY <1>2, <1>3 DEF Others
  <2>2. CommandKept \/ Holds(t)
    BY DEF TaskSteps, CommandKept, Holds, Moves
  <2>3. cmd'.respsync = 1 => cmd.respsync = 1
    BY DEF TaskSteps
  <2>4. HasAnswer(u)' => HasAnswer(u)
    BY <2>1, <2>3 DEF HasAnswer
  <2>5. HasAnswer(u) => CommandKept
    BY <1>3, <2>2 DEF OneAtATime, HasAnswer, Holds
  <2> QED
    BY <1>1, <2>1, <2>4, <2>5 DEF Fits, CommandKept
<1>4. Fits(t)'
  <2>1. CASE \/ at'[t].pc \in {"none", "sync"} /\ ~ at'[t].ok
             \/ Moves(t, "sync", "create") \/ Moves(t, "wait", "clear")
             \/ Moves(t, "create", "send") /\ cmd'.respsync = 0
    BY <1>1, <2>1 DEF Moves, Keeps, Fits, HasAnswer
  <2>2. CASE UNCHANGED <<at, cmd>>
    BY <1>1, <2>2 DEF Fits, HasAnswer
  <2>3. CASE Moves(t, "send", "wait") /\ UNCHANGED cmd
    BY <1>1, <2>3 DEF Moves, Keeps, Fits, HasAnswer
  <2>4. CASE Moves(t, "wait", "read") /\ cmd.respsync = 1 /\ CommandKept
    BY <1>1, <2>4 DEF Moves, Keeps, Fits, HasAnswer, CommandKept
  <2>5. CASE Moves(t, "clear", "post")
    BY <1>1, <2>5 DEF Moves, Keeps, Fits, HasAnswer
  <2>6. CASE /\ at[t].pc = "read" /\ at'[t].pc = "clear" /\ at'[t].ok
             /\ at'[t].id = at[t].id /\ at'[t].index = at[t].index /\ at'[t].respbuf = at[t].respbuf
             /\ at'[t].frame = cmd.command.respdata
    BY <1>1, <2>6 DEF Fits, HasAnswer
  <2> QED
    BY <2>1, <2>2, <2>3, <2>4, <2>5, <2>6, AtConstants DEF TaskSteps
<1> QED
  BY <1>3, <1>4 DEF AnswersFit, Fits

\* So does every step: the receive task writes only what matches the command.
LEMMA AnswersFitNext == AtInv /\ [AtNext]_atVars => AnswersFit'
<1> SUFFICES ASSUME AtInv, [AtNext]_atVars
             PROVE  AnswersFit'
  OBVIOUS
<1> USE DEF AtInv
<1>1. ASSUME NEW t \in Client, at_command(t)
      PROVE  AnswersFit'
  BY <1>1, TaskEffects, AnswersFitTask
<1>2. CASE resp_rcv \/ cmd_match \/ ModuleAnswers \/ ModuleTalks \/ UNCHANGED atVars
  <2>1. UNCHANGED <<prompt, at>>
    BY <1>2, OtherEffects
  <2>2. CASE UNCHANGED <<cmd, buf>>
    BY <2>1, <2>2 DEF AnswersFit, HasAnswer
  <2>3. CASE /\ cmd_match /\ cmd.command.index \in rcvbuf.words /\ cmd.command.index \in Word
             /\ cmd' = Answered(cmd, rcvbuf)
             /\ buf' = [t \in Client |-> IF t = cmd.command.respbuf THEN rcvbuf ELSE buf[t]]
    <3>1. cmd'.command.respdata = rcvbuf
      BY <2>3 DEF Answered
    <3>2. ASSUME NEW u \in Client, HasAnswer(u)'
          PROVE  /\ Presents(u) /\ at[u].index = cmd.command.index
                 /\ prompt => rcvbuf.of = at[u].id
      <4>1. Presents(u) /\ Holds(u)
        BY <2>1, <3>2 DEF HasAnswer, Presents, Holds
      <4>2. rcvbuf # NoFrame
        BY <2>3 DEF cmd_match
      <4>3. prompt => \E t \in Client : at[t].pc = "wait" /\ rcvbuf.of = at[t].id
        BY <4>2 DEF OneAnswer
      <4> QED
        BY <4>1, <4>3 DEF PresentIsKnown, OneAtATime, Holds
    <3>3. ASSUME NEW u \in Client, at[u].ok
          PROVE  Presents(u) /\ at[u].index = cmd.command.index
      <4>1. at[u].pc \in {"clear", "post"}
        BY <3>3 DEF AnswersFit
      <4>2. at[u].pc # "post"
        <5>1. SUFFICES ASSUME at[u].pc = "post"
                       PROVE  FALSE
          OBVIOUS
        <5>2. \A v \in Client : ~ Presents(v)
          BY <5>1 DEF OneAtATime, Holds, Presents
        <5> QED
          BY <2>3, <5>2, AtConstants, AtAssumption DEF PresentIsKnown
      <4> QED
        BY <4>1, <4>2 DEF Presents, PresentIsKnown
    <3>4. ASSUME NEW u \in Client, Presents(u), at[u].respbuf = u
          PROVE  buf'[u] = rcvbuf
      BY <2>3, <3>4 DEF PresentIsKnown
    <3>5. ASSUME NEW u \in Client
          PROVE  Fits(u)'
      <4>1. HasAnswer(u)' => at[u].index \in rcvbuf.words /\ (prompt => rcvbuf.of = at[u].id)
        BY <2>3, <3>2
      <4>2. HasAnswer(u)' \/ at[u].ok => (at[u].respbuf = u => at[u].index \in buf'[u].words)
        BY <2>3, <3>2, <3>3, <3>4
      <4>3. Fits(u)
        BY DEF AnswersFit, Fits
      <4> QED
        BY <2>1, <3>1, <4>1, <4>2, <4>3 DEF Fits
    <3> QED
      BY <3>5 DEF AnswersFit, Fits
  <2> QED
    BY <1>2, <2>2, <2>3, OtherEffects
<1> QED
  BY <1>1, <1>2 DEF AtNext

\* Nothing is on its way, or what is belongs to a task that waits.
Quiet == inbox = <<>> /\ line = <<>> /\ rcvbuf = NoFrame

Awaited(t) ==
  /\ at[t].pc = "wait" /\ cmd.respsync = 0
  /\ \/ Len(inbox) = 1 /\ inbox[1].id = at[t].id /\ line = <<>> /\ rcvbuf = NoFrame
     \/ inbox = <<>> /\ Len(line) = 1 /\ line[1].of = at[t].id /\ rcvbuf = NoFrame
     \/ inbox = <<>> /\ line = <<>> /\ rcvbuf.of = at[t].id

\* With a prompt module, a step of a task leaves at most one answer on its way.
LEMMA OneAnswerTask ==
  ASSUME AtInv, prompt, NEW t \in Client, TaskSteps(t), UNCHANGED <<prompt, rcvbuf, line>>
  PROVE  OneAnswer'
<1> USE DEF AtInv
<1>1. /\ \A u \in Client : at[u].pc = "send" => cmd.respsync = 0
      /\ Quiet \/ \E u \in Client : Awaited(u)
  BY DEF OneAnswer, Quiet, Awaited
<1>2. Others(t) /\ (cmd'.respsync = cmd.respsync \/ cmd'.respsync = 0)
  BY DEF TaskSteps, Moves, Others
<1>3. \A u \in Client : at'[u].pc = "send" => cmd'.respsync = 0
  <2>1. at'[t].pc = "send" => at[t].pc = "send" \/ cmd'.respsync = 0
    BY AtConstants DEF TaskSteps, Moves
  <2> QED
    BY <1>1, <1>2, <2>1 DEF Others
<1>4. ASSUME Quiet, UNCHANGED inbox
      PROVE  Quiet'
  BY <1>4 DEF Quiet
<1>5. ASSUME Holds(t), NEW u \in Client, Awaited(u)
      PROVE  u = t
  BY <1>5 DEF OneAtATime, Holds, Awaited
<1>6. Quiet' \/ \E u \in Client : Awaited(u)'
  <2>2. CASE at[t].pc \in {"none", "sync"} /\ UNCHANGED inbox /\ cmd'.respsync = cmd.respsync
    <3>1. ASSUME NEW u \in Client, Awaited(u)
          PROVE  Awaited(u)'
      <4>1. u # t
        BY <2>2, <3>1 DEF Awaited
      <4>2. at'[u] = at[u]
        BY <1>2, <4>1 DEF Others
      <4> QED
        BY <2>2, <3>1, <4>2 DEF Awaited
    <3> QED
      BY <1>1, <1>4, <2>2, <3>1
  <2>3. CASE at[t].pc \in {"create", "read", "clear", "post"} /\ UNCHANGED inbox
    <3>1. \A u \in Client : ~ Awaited(u)
      BY <1>5, <2>3 DEF Holds, Awaited
    <3> QED
      BY <1>1, <1>4, <2>3, <3>1
  <2>4. CASE Moves(t, "wait", "read") /\ cmd.respsync = 1 /\ UNCHANGED inbox
    BY <1>1, <1>4, <2>4 DEF Awaited
  <2>5. CASE Moves(t, "wait", "clear") /\ ~ Coming(at[t].id) /\ UNCHANGED inbox
    <3>1. ~ Awaited(t)
      BY <2>5 DEF Awaited, Coming, AtTypeOK
    <3>2. Quiet
      BY <1>1, <1>5, <2>5, <3>1 DEF Holds, Moves
    <3> QED
      BY <1>4, <2>5, <3>2
  <2>6. CASE Moves(t, "send", "wait") /\ UNCHANGED cmd /\ UNCHANGED inbox
    <3>1. Quiet
      BY <1>1, <1>5, <2>6 DEF Holds, Moves, Awaited
    <3> QED
      BY <1>4, <2>6, <3>1
  <2>7. CASE /\ Moves(t, "send", "wait") /\ UNCHANGED cmd
             /\ inbox' = Append(inbox, [id |-> at[t].id, index |-> at[t].index])
    <3> DEFINE a == [id |-> at[t].id, index |-> at[t].index]
    <3>1. Quiet /\ cmd.respsync = 0
      BY <1>1, <1>5, <2>7 DEF Holds, Moves, Awaited
    <3>2. a \in [id : Nat, index : Word \cup {"none"}] /\ a.id = at[t].id
      BY DEF AtTypeOK, AtCalls
    <3> HIDE DEF a
    <3>3. Len(Append(<<>>, a)) = 1 /\ Append(<<>>, a)[1] = a
      BY <3>2
    <3>4. inbox' = Append(<<>>, a)
      BY <2>7, <3>1 DEF Quiet, a
    <3>5. at'[t].pc = "wait" /\ at'[t].id = at[t].id
      BY <2>7 DEF Moves, Keeps
    <3>6. Awaited(t)'
      BY <2>7, <3>1, <3>2, <3>3, <3>4, <3>5 DEF Awaited, Quiet
    <3> QED
      BY <3>6
  <2> QED
    BY <2>2, <2>3, <2>4, <2>5, <2>6, <2>7 DEF TaskSteps, Moves
<1> QED
  BY <1>3, <1>6 DEF OneAnswer, Quiet, Awaited

\* So does every step, since the module answers a command once.
LEMMA OneAnswerNext == AtInv /\ [AtNext]_atVars => OneAnswer'
<1> SUFFICES ASSUME AtInv, [AtNext]_atVars, prompt'
             PROVE  OneAnswer'
  BY DEF OneAnswer
<1> USE DEF AtInv
<1>1. ASSUME NEW t \in Client, at_command(t)
      PROVE  OneAnswer'
  <2>1. TaskSteps(t) /\ UNCHANGED <<prompt, buf, rcvbuf, line>>
    BY <1>1, TaskEffects
  <2> QED
    BY <2>1, OneAnswerTask
<1>2. CASE resp_rcv \/ cmd_match \/ ModuleAnswers \/ ModuleTalks \/ UNCHANGED atVars
  <2>1. UNCHANGED <<prompt, at>>
    BY <1>2, OtherEffects
  <2>2. /\ \A u \in Client : at[u].pc = "send" => cmd.respsync = 0
        /\ Quiet \/ \E u \in Client : Awaited(u)
    BY <2>1 DEF OneAnswer, Quiet, Awaited
  <2>3. CASE resp_rcv
    <3>1. line # <<>> /\ rcvbuf' = Head(line) /\ line' = Tail(line) /\ UNCHANGED <<cmd, inbox>>
      BY <2>3 DEF resp_rcv
    <3>2. PICK u \in Client : Awaited(u)
      BY <2>2, <3>1 DEF Quiet
    <3>3. inbox = <<>> /\ Len(line) = 1 /\ line[1].of = at[u].id
      BY <2>3, <3>1, <3>2 DEF Awaited, resp_rcv
    <3>4. Head(line) = line[1] /\ Tail(line) = <<>>
      <4>1. line \in Seq(Frames)
        BY DEF AtTypeOK
      <4>2. Tail(line) \in Seq(Frames) /\ Len(Tail(line)) = 0
        BY <3>1, <3>3, <4>1, HeadTailProperties
      <4> QED
        BY <3>1, <4>1, <4>2, HeadTailProperties, EmptySeq
    <3>5. Awaited(u)'
      BY <2>1, <3>1, <3>2, <3>3, <3>4 DEF Awaited
    <3> QED
      BY <2>1, <2>2, <3>1, <3>5 DEF OneAnswer, Awaited
  <2>4. CASE cmd_match
    <3>1. rcvbuf # NoFrame /\ rcvbuf' = NoFrame /\ UNCHANGED <<inbox, line>>
      BY <2>4 DEF cmd_match
    <3>2. PICK u \in Client : Awaited(u)
      BY <2>2, <3>1 DEF Quiet
    <3>3. Quiet'
      BY <3>1, <3>2 DEF Awaited, Quiet
    <3>4. \A v \in Client : at[v].pc # "send"
      BY <3>2 DEF OneAtATime, Holds, Awaited
    <3> QED
      BY <2>1, <3>3, <3>4 DEF OneAnswer, Quiet
  <2>5. CASE ModuleAnswers
    <3>1. /\ inbox # <<>> /\ inbox' = Tail(inbox) /\ UNCHANGED <<cmd, rcvbuf>>
      BY <2>5 DEF ModuleAnswers
    <3>2. PICK u \in Client : Awaited(u)
      BY <2>2, <3>1 DEF Quiet
    <3>3. Len(inbox) = 1 /\ inbox[1].id = at[u].id /\ line = <<>> /\ rcvbuf = NoFrame
      BY <3>1, <3>2 DEF Awaited
    <3>4. Head(inbox) = inbox[1] /\ Tail(inbox) = <<>>
      <4> DEFINE S == [id : Nat, index : Word \cup {"none"}]
      <4>1. inbox \in Seq(S)
        BY DEF AtTypeOK
      <4> HIDE DEF S
      <4>2. Tail(inbox) \in Seq(S) /\ Len(Tail(inbox)) = 0
        BY <3>1, <3>3, <4>1, HeadTailProperties
      <4> QED
        BY <3>1, <4>1, <4>2, HeadTailProperties, EmptySeq
    <3>5. PICK word \in Word : line' = Append(line, [of |-> Head(inbox).id, words |-> {word}])
      <4>1. prompt
        BY <2>5 DEF ModuleAnswers
      <4>2. \E word \in Word : Sends([of |-> Head(inbox).id, words |-> {word}])
        BY <2>5, <4>1, Zenon DEF ModuleAnswers
      <4> QED
        BY <4>2, Zenon DEF Sends
    <3> DEFINE f == [of |-> Head(inbox).id, words |-> {word}]
    <3>6. f.of = at[u].id
      BY <3>3, <3>4
    <3> HIDE DEF f
    <3>7. line' = Append(<<>>, f)
      BY <3>3, <3>5 DEF f
    <3>8. Len(line') = 1 /\ line'[1] = f
      BY <3>7
    <3>9. Awaited(u)'
      BY <2>1, <3>1, <3>2, <3>3, <3>4, <3>6, <3>8 DEF Awaited
    <3> QED
      BY <2>1, <2>2, <3>1, <3>9 DEF OneAnswer, Awaited
  <2>6. CASE ModuleTalks
    BY <2>1, <2>6 DEF ModuleTalks
  <2>7. CASE UNCHANGED atVars
    BY <2>1, <2>7 DEF OneAnswer, atVars
  <2> QED
    BY <1>2, <2>3, <2>4, <2>5, <2>6, <2>7
<1> QED
  BY <1>1, <1>2 DEF AtNext

\* The invariant of the AT framework is inductive.
LEMMA AtInvNext == AtInv /\ [AtNext]_atVars => AtInv'
BY AtTypeNext, OneAtATimeNext, PresentNext, AnswersFitNext, OneAnswerNext DEF AtInv

\* What is returned was found in a frame for the command.
AnswersAreRight ==
  \A t \in Client : at[t].ok =>
    /\ at[t].index \in at[t].frame.words
    /\ at[t].respbuf = t => at[t].index \in buf[t].words
    /\ prompt => at[t].frame.of = at[t].id

\* A buffer is not written to outside the call it is for.
BuffersAreLeftAlone ==
  \A t \in Client : at[t].pc \in {"none", "sync", "create", "post"} => buf'[t] = buf[t]

\* No step writes to the response buffer of a task whose command is not present.
LEMMA BuffersStep == AtInv /\ [AtNext]_atVars => [BuffersAreLeftAlone]_atVars
<1> SUFFICES ASSUME AtInv, [AtNext]_atVars, NEW t \in Client,
                    at[t].pc \in {"none", "sync", "create", "post"}
             PROVE  buf'[t] = buf[t]
  BY DEF BuffersAreLeftAlone
<1> USE DEF AtInv
<1>1. ASSUME NEW u \in Client, at_command(u)
      PROVE  buf'[t] = buf[t]
  BY <1>1, TaskEffects
<1>2. CASE resp_rcv \/ cmd_match \/ ModuleAnswers \/ ModuleTalks \/ UNCHANGED atVars
  <2>1. CASE UNCHANGED buf
    BY <2>1
  <2>2. CASE /\ cmd.command.index \in Word
             /\ buf' = [v \in Client |-> IF v = cmd.command.respbuf THEN rcvbuf ELSE buf[v]]
    <3>1. PICK u \in Client : Presents(u)
      BY <2>2, AtConstants, AtAssumption DEF PresentIsKnown
    <3>2. cmd.command.respbuf \in {u, "none"}
      BY <3>1 DEF PresentIsKnown
    <3>3. u # t /\ t # "none"
      BY <3>1, AtAssumption DEF Presents
    <3> QED
      BY <2>2, <3>2, <3>3
  <2> QED
    BY <1>2, <2>1, <2>2, OtherEffects
<1> QED
  BY <1>1, <1>2 DEF AtNext

\* A step of iot_link is a step of the AT client, or leaves it alone.
LEMMA AtPart == [Next]_vars => [AtNext]_atVars
BY DEF Next, vars

\* Every at_command gets an answer to its own command, found in a frame that
\* was compared with it while it was the present command, or none; and a response
\* buffer is written to only while the command it is for is the present one.
\* at.c, for any tasks, words and numbers of commands and frames.
THEOREM AnswersAreTheirs == Spec => CommandsGetTheirAnswers
<1>1. Init => AtInv
  BY AtInitInv DEF Init
<1>2. AtInv /\ [Next]_vars => AtInv' /\ [BuffersAreLeftAlone]_atVars
  BY AtPart, AtInvNext, BuffersStep
<1>3. AtInv => AnswersAreRight
  BY DEF AtInv, AnswersFit, AnswersAreRight
<1>4. Spec => []AnswersAreRight /\ [][BuffersAreLeftAlone]_atVars
  BY <1>1, <1>2, <1>3, PTL DEF Spec
<1> QED
  BY <1>4 DEF CommandsGetTheirAnswers, AnswersAreRight, BuffersAreLeftAlone

-----------------------------------------------------------------------------
(***************************************************************************)
(* The firmware update, as a part of iot_link.                             *)
(***************************************************************************)
LEMMA PcpPart == [Next]_vars => [PcpNext]_pcpVars
BY DEF Next, vars

\* The blocks a record counts are in flash, each at its place, whatever is
\* lost, late, repeated, cut off by a restart or not written, as long as one
\* version is offered; and a version reported as installed is in flash as a
\* whole, if no record is damaged and no write fails (pcp_save_newblock and
\* pcp_handle_timeout, pcp.c).
THEOREM BlocksAreWritten == Spec => []CountedIsWritten
<1>1. Init => PcpInv
  BY PcpInvInit DEF Init
<1>2. PcpInv /\ [Next]_vars => PcpInv'
  BY PcpPart, PcpInvNext
<1>3. PcpInv => CountedIsWritten
  BY PcpInvImplies
<1> QED
  BY <1>1, <1>2, <1>3, PTL DEF Spec

\* The record in flash is never more than one block behind the one the task
\* has, and then only while the task is saving it, for any number of versions
\* and restarts (pcp_save_flag after every change, pcp.c).
THEOREM OneBlockAtMost == Spec => []RestartCostsOneBlock
<1>1. Init => PcpInv
  BY PcpInvInit DEF Init
<1>2. PcpInv /\ [Next]_vars => PcpInv'
  BY PcpPart, PcpInvNext
<1>3. PcpInv => RestartCostsOneBlock
  BY PcpInvImplies
<1> QED
  BY <1>1, <1>2, <1>3, PTL DEF Spec

-----------------------------------------------------------------------------
(***************************************************************************)
(* The queue, whose calls are counted: a message in the ring is one that   *)
(* the semaphore of the readers counts, that a pop has pended for, or that *)
(* a push has not posted yet; a free cell likewise.                        *)
(***************************************************************************)
QueueCalls == [at : {"none", "push", "pushed", "pop", "popped"}, data : Data \cup {"none"}]

Rings == [msg_buf : [Cells -> Data \cup {"none"}], cur_write : Cells, cur_read : Cells,
          msg_num : 0 .. msg_buflen]

\* The cell that is k cells behind a position, and what a ring holds.
CellAt(pos, k) == (pos + k) % msg_buflen

Held(Q) == [k \in 1 .. Q.msg_num |-> Q.msg_buf[(Q.cur_read + k - 1) % msg_buflen]]

RingSound(Q) ==
  /\ Q \in Rings
  /\ Q.cur_write = CellAt(Q.cur_read, Q.msg_num)
  /\ \A k \in 0 .. Q.msg_num - 1 : Q.msg_buf[CellAt(Q.cur_read, k)] \in Data

\* The callers that are at a place in a call.
CallersAt(c, place) == {t \in Caller : c[t].at = place}

CallPlaces == {"push", "pushed", "pop", "popped"}

CallsOK ==
  /\ call \in [Caller -> QueueCalls]
  /\ \A t \in Caller : call[t].at = "push" => call[t].data \in Data
  /\ \A place \in CallPlaces : IsFiniteSet(CallersAt(call, place))

CellsAreCounted ==
  /\ sync_read \in Nat /\ sync_write \in Nat
  /\ queue.msg_num = sync_read + Cardinality(CallersAt(call, "pop")) + Cardinality(CallersAt(call, "pushed"))
  /\ sync_write + Cardinality(CallersAt(call, "push")) + Cardinality(CallersAt(call, "popped"))
       + queue.msg_num = msg_buflen

QueueInv == RingSound(queue) /\ CallsOK /\ CellsAreCounted

\* One turn round the ring at most.
LEMMA CellWraps ==
  ASSUME NEW a \in 0 .. 2 * msg_buflen - 1
  PROVE  a % msg_buflen = IF a < msg_buflen THEN a ELSE a - msg_buflen
<1>1. msg_buflen \in Nat \ {0}
  BY IotQueueAssumption
<1>2. CASE a < msg_buflen
  BY <1>1, <1>2, Z3
<1>3. CASE ~ (a < msg_buflen)
  BY <1>1, <1>3, Z3
<1> QED
  BY <1>2, <1>3

\* Cells of the ring: they stay in it, follow one another, and differ.
LEMMA CellsOfTheRing ==
  ASSUME NEW pos \in Cells
  PROVE  /\ \A k \in 0 .. msg_buflen : CellAt(pos, k) \in Cells
         /\ CellAt(pos, 0) = pos
         /\ \A k \in 0 .. msg_buflen - 1 : /\ CellAt(CellAt(pos, k), 1) = CellAt(pos, k + 1)
                                           /\ CellAt(CellAt(pos, 1), k) = CellAt(pos, k + 1)
         /\ \A j, k \in 0 .. msg_buflen - 1 : j # k => CellAt(pos, j) # CellAt(pos, k)
<1> DEFINE Wrapped(a) == IF a < msg_buflen THEN a ELSE a - msg_buflen
<1>1. msg_buflen \in Nat \ {0} /\ pos \in 0 .. msg_buflen - 1
  BY IotQueueAssumption DEF Cells
<1>2. ASSUME NEW p \in Cells, NEW k \in 0 .. msg_buflen
      PROVE  CellAt(p, k) = Wrapped(p + k) /\ CellAt(p, k) \in Cells
  <2>1. p + k \in 0 .. 2 * msg_buflen - 1
    BY <1>1 DEF Cells
  <2>2. CellAt(p, k) = Wrapped(p + k)
    BY <2>1, CellWraps DEF CellAt
  <2> QED
    BY <1>1, <2>1, <2>2 DEF Cells
<1>3. 1 \in 0 .. msg_buflen /\ 0 \in 0 .. msg_buflen
  BY <1>1
<1>4. CellAt(pos, 0) = pos
  BY <1>1, <1>2, <1>3
<1>5. ASSUME NEW k \in 0 .. msg_buflen - 1
      PROVE  CellAt(CellAt(pos, k), 1) = CellAt(pos, k + 1)
  <2>1. k \in 0 .. msg_buflen /\ k + 1 \in 0 .. msg_buflen
    BY <1>1
  <2>2. CellAt(pos, k) = Wrapped(pos + k) /\ CellAt(pos, k) \in Cells
    BY <1>2, <2>1
  <2>3. CellAt(CellAt(pos, k), 1) = Wrapped(CellAt(pos, k) + 1)
    BY <1>2, <1>3, <2>2
  <2>4. CellAt(pos, k + 1) = Wrapped(pos + (k + 1))
    BY <1>2, <2>1
  <2> QED
    BY <1>1, <2>2, <2>3, <2>4
<1>6. ASSUME NEW k \in 0 .. msg_buflen - 1
      PROVE  CellAt(CellAt(pos, 1), k) = CellAt(pos, k + 1)
  <2>1. k \in 0 .. msg_buflen /\ k + 1 \in 0 .. msg_buflen
    BY <1>1
  <2>2. CellAt(pos, 1) = Wrapped(pos + 1) /\ CellAt(pos, 1) \in Cells
    BY <1>2, <1>3
  <2>3. CellAt(CellAt(pos, 1), k) = Wrapped(CellAt(pos, 1) + k)
    BY <1>2, <2>1, <2>2
  <2>4. CellAt(pos, k + 1) = Wrapped(pos + (k + 1))
    BY <1>2, <2>1
  <2> QED
    BY <1>1, <2>2, <2>3, <2>4
<1>7. ASSUME NEW j \in 0 .. msg_buflen - 1, NEW k \in 0 .. msg_buflen - 1, j # k
      PROVE  CellAt(pos, j) # CellAt(pos, k)
  <2>1. j \in 0 .. msg_buflen /\ k \in 0 .. msg_buflen
    BY <1>1
  <2>2. CellAt(pos, j) = Wrapped(pos + j) /\ CellAt(pos, k) = Wrapped(pos + k)
    BY <1>2, <2>1
  <2> QED
    BY <1>1, <1>7, <2>2
<1> QED
  BY <1>2, <1>4, <1>5, <1>6, <1>7

\* What a ring holds is a sequence of data.
LEMMA HeldIsSeq ==
  ASSUME NEW Q, RingSound(Q)
  PROVE  Held(Q) \in Seq(Data) /\ Len(Held(Q)) = Q.msg_num
<1>1. Q.msg_num \in Nat /\ Q.cur_read \in Nat
  BY IotQueueAssumption DEF RingSound, Rings, Cells
<1>2. ASSUME NEW k \in 1 .. Q.msg_num
      PROVE  Held(Q)[k] \in Data
  <2>1. k - 1 \in 0 .. Q.msg_num - 1 /\ Q.cur_read + k - 1 = Q.cur_read + (k - 1)
    BY <1>1
  <2>2. Q.msg_buf[CellAt(Q.cur_read, k - 1)] \in Data
    BY <2>1 DEF RingSound
  <2> QED
    BY <2>1, <2>2 DEF Held, CellAt
<1>3. Held(Q) \in [1 .. Q.msg_num -> Data]
  BY <1>2 DEF Held
<1> QED
  BY <1>1, <1>3

\* raw_queue_pushdata appends to a ring with a free cell.
LEMMA PushedAppends ==
  ASSUME RingSound(queue), queue.msg_num < msg_buflen, NEW data \in Data
  PROVE  LET R == Pushed(data)
         IN  /\ RingSound(R)
             /\ R.msg_num = queue.msg_num + 1
             /\ Held(R) = Append(Held(queue), data)
<1> DEFINE R == Pushed(data)
           pos == queue.cur_read
           n == queue.msg_num
<1>1. /\ msg_buflen \in Nat \ {0} /\ n \in 0 .. msg_buflen - 1 /\ n \in Nat
      /\ pos \in Cells /\ pos \in Nat /\ queue.cur_write = CellAt(pos, n)
      /\ queue.msg_buf \in [Cells -> Data \cup {"none"}]
      /\ queue = [msg_buf |-> queue.msg_buf, cur_write |-> queue.cur_write,
                  cur_read |-> queue.cur_read, msg_num |-> queue.msg_num]
  BY IotQueueAssumption DEF RingSound, Rings, Cells
<1>2. /\ CellAt(pos, n) \in Cells /\ CellAt(pos, n + 1) \in Cells
      /\ CellAt(CellAt(pos, n), 1) = CellAt(pos, n + 1)
      /\ \A k \in 0 .. n - 1 : CellAt(pos, k) \in Cells /\ CellAt(pos, k) # CellAt(pos, n)
  <2>1. n \in 0 .. msg_buflen /\ n + 1 \in 0 .. msg_buflen
    BY <1>1
  <2>2. \A k \in 0 .. n - 1 : k \in 0 .. msg_buflen - 1 /\ k \in 0 .. msg_buflen /\ k # n
    BY <1>1
  <2> QED
    BY <1>1, <2>1, <2>2, CellsOfTheRing
<1>3. /\ R.msg_buf = [queue.msg_buf EXCEPT ![CellAt(pos, n)] = data]
      /\ R.cur_write = CellAt(pos, n + 1)
      /\ R.cur_read = pos
      /\ R.msg_num = n + 1
      /\ R \in Rings
  <2>1. (queue.cur_write + 1) % msg_buflen = CellAt(pos, n + 1)
    BY <1>1, <1>2 DEF CellAt
  <2>2. queue \in Rings
    BY DEF RingSound
  <2>3. /\ R.msg_buf = [queue.msg_buf EXCEPT ![CellAt(pos, n)] = data]
        /\ R.cur_write = CellAt(pos, n + 1) /\ R.cur_read = pos /\ R.msg_num = n + 1
    BY <1>1, <2>1, <2>2 DEF Pushed, Rings
  <2>4. ASSUME NEW cells \in [Cells -> Data \cup {"none"}], NEW write \in Cells,
               NEW num \in 0 .. msg_buflen
        PROVE  [queue EXCEPT !.msg_buf = cells, !.cur_write = write, !.msg_num = num] \in Rings
    BY <2>2 DEF Rings
  <2>5. /\ [queue.msg_buf EXCEPT ![queue.cur_write] = data] \in [Cells -> Data \cup {"none"}]
        /\ (queue.cur_write + 1) % msg_buflen \in Cells /\ queue.msg_num + 1 \in 0 .. msg_buflen
    BY <1>1, <1>2, <2>1
  <2>6. R \in Rings
    BY <2>4, <2>5 DEF Pushed
  <2> QED
    BY <2>3, <2>6
<1> HIDE DEF R
<1>4. \A k \in 0 .. n - 1 : R.msg_buf[CellAt(pos, k)] = queue.msg_buf[CellAt(pos, k)]
  BY <1>1, <1>2, <1>3
<1>5. R.msg_buf[CellAt(pos, n)] = data
  BY <1>1, <1>2, <1>3
<1>6. RingSound(R)
  <2>1. R \in Rings
    BY <1>3
  <2>2. ASSUME NEW k \in 0 .. n
        PROVE  R.msg_buf[CellAt(pos, k)] \in Data
    <3>1. CASE k = n
      BY <1>5, <3>1
    <3>2. CASE k # n
      <4>1. k \in 0 .. n - 1
        BY <1>1, <3>2
      <4> QED
        BY <1>4, <4>1 DEF RingSound
    <3> QED
      BY <3>1, <3>2
  <2>3. R.msg_num - 1 = n
    BY <1>1, <1>3
  <2> QED
    BY <1>3, <2>1, <2>2, <2>3 DEF RingSound
<1>7. Held(R) = Append(Held(queue), data)
  <2>1. Held(queue) \in Seq(Data) /\ Len(Held(queue)) = n
    BY HeldIsSeq
  <2>2. Held(R) \in Seq(Data) /\ Len(Held(R)) = n + 1
    BY <1>3, <1>6, HeldIsSeq
  <2>3. ASSUME NEW k \in 1 .. n
        PROVE  Held(R)[k] = Held(queue)[k]
    <3>1. k - 1 \in 0 .. n - 1 /\ k \in 1 .. n + 1 /\ pos + k - 1 = pos + (k - 1)
      BY <1>1
    <3>2. R.msg_buf[CellAt(pos, k - 1)] = queue.msg_buf[CellAt(pos, k - 1)]
      BY <1>4, <3>1
    <3> QED
      BY <1>3, <3>1, <3>2 DEF Held, CellAt
  <2>4. Held(R)[n + 1] = data
    <3>1. pos + (n + 1) - 1 = pos + n /\ n + 1 \in 1 .. n + 1
      BY <1>1
    <3> QED
      BY <1>3, <1>5, <3>1 DEF Held, CellAt
  <2>5. Append(Held(queue), data) \in Seq(Data) /\ Len(Append(Held(queue), data)) = n + 1
    BY <2>1
  <2>6. \A k \in 1 .. n + 1 : Held(R)[k] = Append(Held(queue), data)[k]
    BY <1>1, <2>1, <2>3, <2>4
  <2> QED
    BY <2>2, <2>5, <2>6
<1> QED
  BY <1>3, <1>6, <1>7 DEF R

\* What raw_queue_pop leaves of the ring.
Popped == [queue EXCEPT !.cur_read = (@ + 1) % msg_buflen, !.msg_num = @ - 1]

\* It returns the head, and removes it.
LEMMA PoppedRemoves ==
  ASSUME RingSound(queue), queue.msg_num > 0
  PROVE  /\ RingSound(Popped)
         /\ Popped.msg_num = queue.msg_num - 1
         /\ Held(queue) # <<>>
         /\ queue.msg_buf[queue.cur_read] = Head(Held(queue))
         /\ queue.msg_buf[queue.cur_read] \in Data
         /\ Held(Popped) = Tail(Held(queue))
<1> DEFINE R == Popped
           pos == queue.cur_read
           n == queue.msg_num
<1>1. /\ msg_buflen \in Nat \ {0} /\ n \in 1 .. msg_buflen /\ n \in Nat
      /\ pos \in Cells /\ pos \in Nat /\ queue.cur_write = CellAt(pos, n)
      /\ queue.cur_write \in Cells
      /\ queue.msg_buf \in [Cells -> Data \cup {"none"}]
      /\ queue = [msg_buf |-> queue.msg_buf, cur_write |-> queue.cur_write,
                  cur_read |-> queue.cur_read, msg_num |-> queue.msg_num]
  BY IotQueueAssumption DEF RingSound, Rings, Cells
<1>2. /\ CellAt(pos, 1) \in Cells /\ CellAt(pos, 0) = pos
      /\ \A k \in 0 .. n - 1 : CellAt(CellAt(pos, 1), k) = CellAt(pos, k + 1)
  <2>1. 1 \in 0 .. msg_buflen
    BY <1>1
  <2>2. \A k \in 0 .. n - 1 : k \in 0 .. msg_buflen - 1
    BY <1>1
  <2> QED
    BY <1>1, <2>1, <2>2, CellsOfTheRing
<1>3. /\ R.msg_buf = queue.msg_buf /\ R.cur_write = CellAt(pos, n)
      /\ R.cur_read = CellAt(pos, 1) /\ R.msg_num = n - 1
      /\ R \in Rings
  <2>1. queue \in Rings
    BY DEF RingSound
  <2>2. /\ R.msg_buf = queue.msg_buf /\ R.cur_write = queue.cur_write
        /\ R.cur_read = (pos + 1) % msg_buflen /\ R.msg_num = n - 1
    BY <1>1, <2>1 DEF Popped, Rings
  <2>3. ASSUME NEW read \in Cells, NEW num \in 0 .. msg_buflen
        PROVE  [queue EXCEPT !.cur_read = read, !.msg_num = num] \in Rings
    BY <2>1 DEF Rings
  <2>4. (pos + 1) % msg_buflen \in Cells /\ n - 1 \in 0 .. msg_buflen
    BY <1>1, <1>2 DEF CellAt
  <2>5. R \in Rings
    BY <2>3, <2>4 DEF Popped
  <2> QED
    BY <1>1, <2>2, <2>5 DEF CellAt
<1> HIDE DEF R
<1>4. \A k \in 0 .. n - 1 : R.msg_buf[CellAt(CellAt(pos, 1), k)] = queue.msg_buf[CellAt(pos, k + 1)]
  BY <1>2, <1>3
<1>5. RingSound(R)
  <2>1. R \in Rings
    BY <1>3
  <2>2. ASSUME NEW k \in 0 .. n - 2
        PROVE  R.msg_buf[CellAt(CellAt(pos, 1), k)] \in Data
    <3>1. k \in 0 .. n - 1 /\ k + 1 \in 0 .. n - 1
      BY <1>1
    <3>2. queue.msg_buf[CellAt(pos, k + 1)] \in Data
      BY <3>1 DEF RingSound
    <3> QED
      BY <1>4, <3>1, <3>2
  <2>3. CellAt(CellAt(pos, 1), n - 1) = CellAt(pos, n)
    <3>1. n - 1 \in 0 .. n - 1 /\ (n - 1) + 1 = n
      BY <1>1
    <3> QED
      BY <1>2, <3>1
  <2>4. R.msg_num - 1 = n - 2
    BY <1>1, <1>3
  <2> QED
    BY <1>3, <2>1, <2>2, <2>3, <2>4 DEF RingSound
<1>6. Held(queue) \in Seq(Data) /\ Len(Held(queue)) = n /\ Held(queue) # <<>>
  BY <1>1, HeldIsSeq
<1>7. queue.msg_buf[pos] = Head(Held(queue)) /\ queue.msg_buf[pos] \in Data
  <2>1. 1 \in 1 .. n /\ pos + 1 - 1 = pos + 0 /\ 0 \in 0 .. n - 1
    BY <1>1
  <2>2. Held(queue)[1] = queue.msg_buf[pos]
    BY <1>2, <2>1 DEF Held, CellAt
  <2>3. Head(Held(queue)) = Held(queue)[1]
    BY <1>6
  <2> QED
    BY <1>2, <2>1, <2>2, <2>3 DEF RingSound
<1>8. Held(R) = Tail(Held(queue))
  <2>1. Held(R) \in Seq(Data) /\ Len(Held(R)) = n - 1
    BY <1>3, <1>5, HeldIsSeq
  <2>2. ASSUME NEW k \in 1 .. n - 1
        PROVE  Held(R)[k] = Held(queue)[k + 1]
    <3>1. /\ k - 1 \in 0 .. n - 1 /\ k + 1 \in 1 .. n /\ (k - 1) + 1 = k
          /\ CellAt(pos, 1) \in Nat
          /\ CellAt(pos, 1) + k - 1 = CellAt(pos, 1) + (k - 1) /\ pos + (k + 1) - 1 = pos + k
      BY <1>1, <1>2 DEF Cells
    <3>2. R.msg_buf[CellAt(CellAt(pos, 1), k - 1)] = queue.msg_buf[CellAt(pos, k)]
      BY <1>4, <3>1
    <3>3. Held(R)[k] = R.msg_buf[(CellAt(pos, 1) + k - 1) % msg_buflen]
      BY <1>3 DEF Held
    <3>4. Held(queue)[k + 1] = queue.msg_buf[CellAt(pos, k)]
      BY <3>1 DEF Held, CellAt
    <3>5. (CellAt(pos, 1) + k - 1) % msg_buflen = CellAt(CellAt(pos, 1), k - 1)
      BY <3>1 DEF CellAt
    <3> QED
      BY <3>2, <3>3, <3>4, <3>5
  <2>3. Tail(Held(queue)) \in Seq(Data) /\ Len(Tail(Held(queue))) = n - 1
    BY <1>1, <1>6
  <2>4. \A k \in 1 .. n - 1 : Tail(Held(queue))[k] = Held(queue)[k + 1]
    BY <1>1, <1>6
  <2> QED
    BY <2>1, <2>2, <2>3, <2>4
<1> QED
  BY <1>3, <1>5, <1>6, <1>7, <1>8 DEF R

\* A caller that goes from one place to another is no longer counted at the
\* first and is counted at the second.
LEMMA CallMoves ==
  ASSUME CallsOK, NEW t \in Caller, NEW r \in QueueCalls,
         r.at = "push" => r.data \in Data, call[t].at # r.at,
         call' = [call EXCEPT ![t] = r]
  PROVE  /\ CallsOK'
         /\ \A place \in CallPlaces :
              Cardinality(CallersAt(call', place)) =
                IF place = r.at THEN Cardinality(CallersAt(call, place)) + 1
                ELSE IF place = call[t].at THEN Cardinality(CallersAt(call, place)) - 1
                ELSE Cardinality(CallersAt(call, place))
<1>1. call' \in [Caller -> QueueCalls] /\ call'[t] = r
      /\ \A u \in Caller : u # t => call'[u] = call[u]
  BY DEF CallsOK
<1>2. \A u \in Caller : call'[u].at = "push" => call'[u].data \in Data
  BY <1>1 DEF CallsOK
<1>3. ASSUME NEW place \in CallPlaces
      PROVE  /\ IsFiniteSet(CallersAt(call', place))
             /\ Cardinality(CallersAt(call', place)) =
                  IF place = r.at THEN Cardinality(CallersAt(call, place)) + 1
                  ELSE IF place = call[t].at THEN Cardinality(CallersAt(call, place)) - 1
                  ELSE Cardinality(CallersAt(call, place))
  <2>1. IsFiniteSet(CallersAt(call, place))
    BY DEF CallsOK
  <2>2. CASE place = r.at
    <3>1. CallersAt(call', place) = CallersAt(call, place) \cup {t} /\ t \notin CallersAt(call, place)
      BY <1>1, <2>2 DEF CallersAt
    <3>2. /\ IsFiniteSet(CallersAt(call, place) \cup {t})
          /\ Cardinality(CallersAt(call, place) \cup {t}) = Cardinality(CallersAt(call, place)) + 1
      BY <2>1, <3>1, FS_AddElement
    <3> QED
      BY <2>2, <3>1, <3>2
  <2>3. CASE place = call[t].at
    <3>1. CallersAt(call', place) = CallersAt(call, place) \ {t} /\ t \in CallersAt(call, place)
      BY <1>1, <2>3 DEF CallersAt
    <3>2. /\ IsFiniteSet(CallersAt(call, place) \ {t})
          /\ Cardinality(CallersAt(call, place) \ {t}) = Cardinality(CallersAt(call, place)) - 1
      BY <2>1, <3>1, FS_RemoveElement
    <3>3. place # r.at
      BY <2>3
    <3> QED
      BY <2>3, <3>1, <3>2, <3>3
  <2>4. CASE place # r.at /\ place # call[t].at
    <3>1. CallersAt(call', place) = CallersAt(call, place)
      BY <1>1, <2>4 DEF CallersAt
    <3> QED
      BY <2>1, <2>4, <3>1
  <2> QED
    BY <2>2, <2>3, <2>4
<1> QED
  BY <1>1, <1>2, <1>3 DEF CallsOK

\* A call whose pend succeeded finds its free cell, or its message.
LEMMA PendsAreHonoured ==
  ASSUME QueueInv, NEW t \in Caller
  PROVE  /\ call[t].at = "push" => queue.msg_num < msg_buflen
         /\ call[t].at = "pop" => queue.msg_num > 0
<1>1. \A place \in CallPlaces : /\ IsFiniteSet(CallersAt(call, place))
                            /\ Cardinality(CallersAt(call, place)) \in Nat
  BY FS_CardinalityType DEF QueueInv, CallsOK
<1>2. ASSUME NEW place \in CallPlaces, call[t].at = place
      PROVE  Cardinality(CallersAt(call, place)) > 0
  <2>1. t \in CallersAt(call, place)
    BY <1>2 DEF CallersAt
  <2> QED
    BY <1>1, <2>1, FS_EmptySet
<1>3. queue.msg_num \in Nat /\ msg_buflen \in Nat
  BY IotQueueAssumption DEF QueueInv, RingSound, Rings
<1> QED
  BY <1>1, <1>2, <1>3 DEF QueueInv, CellsAreCounted, CallPlaces

\* The empty queue is sound and all its cells are free.
LEMMA QueueInvInit == QueueInit => QueueInv
<1> SUFFICES ASSUME QueueInit
             PROVE  QueueInv
  OBVIOUS
<1>1. 0 \in Cells /\ 0 \in 0 .. msg_buflen /\ msg_buflen \in Nat
  BY IotQueueAssumption DEF Cells
<1>2. RingSound(queue)
  <2>1. queue \in Rings
    BY <1>1 DEF QueueInit, queue_create, Rings
  <2>2. queue.msg_num = 0 /\ queue.cur_read = 0 /\ queue.cur_write = 0
    BY DEF QueueInit, queue_create
  <2>3. CellAt(0, 0) = 0
    BY <1>1, CellsOfTheRing
  <2> QED
    BY <2>1, <2>2, <2>3 DEF RingSound
<1>3. \A place \in CallPlaces : CallersAt(call, place) = {}
  BY DEF QueueInit, CallersAt, CallPlaces, Idle
<1>4. CallsOK
  <2>1. call \in [Caller -> QueueCalls]
    BY DEF QueueInit, QueueCalls, Idle
  <2> QED
    BY <1>3, <2>1, FS_EmptySet DEF CallsOK, QueueInit, Idle
<1>5. CellsAreCounted
  <2>1. \A place \in CallPlaces : Cardinality(CallersAt(call, place)) = 0
    BY <1>3, FS_EmptySet
  <2> QED
    BY <1>1, <2>1 DEF CellsAreCounted, QueueInit, queue_create, CallPlaces
<1> QED
  BY <1>2, <1>4, <1>5 DEF QueueInv

\* What each step does to the ring, the semaphores and the calls.
LEMMA QueueInvNext == QueueInv /\ [QueueNext]_queueVars => QueueInv'
<1> SUFFICES ASSUME QueueInv, [QueueNext]_queueVars
             PROVE  QueueInv'
  OBVIOUS
<1> DEFINE count(place) == Cardinality(CallersAt(call, place))
<1>1. /\ RingSound(queue) /\ CallsOK /\ CellsAreCounted
      /\ queue.msg_num \in Nat /\ msg_buflen \in Nat
      /\ \A place \in CallPlaces : count(place) \in Nat
  BY IotQueueAssumption, FS_CardinalityType DEF QueueInv, RingSound, Rings, CallsOK
<1>2. /\ Idle \in QueueCalls /\ Idle.at = "none"
      /\ \A data \in Data : /\ [at |-> "push", data |-> data] \in QueueCalls
                            /\ [at |-> "popped", data |-> data] \in QueueCalls
      /\ [at |-> "pushed", data |-> "none"] \in QueueCalls
  BY DEF QueueCalls, Idle
<1>3. CASE UNCHANGED queueVars
  BY <1>1, <1>3 DEF queueVars, QueueInv, CallsOK, CellsAreCounted
<1> SUFFICES ASSUME NEW t \in Caller,
                    \/ \E data \in Data : PushPends(t, data)
                    \/ raw_queue_pushdata(t) \/ PushPosts(t)
                    \/ PopPends(t) \/ raw_queue_pop(t) \/ PopPosts(t)
             PROVE  QueueInv'
  BY <1>3 DEF QueueNext
<1>4. call[t] \in QueueCalls /\ call[t].data \in Data \cup {"none"}
  BY <1>1 DEF CallsOK, QueueCalls
<1>5. ASSUME NEW data \in Data, PushPends(t, data)
      PROVE  QueueInv'
  <2> DEFINE r == [at |-> "push", data |-> data]
  <2>1. /\ call' = [call EXCEPT ![t] = r] /\ call[t].at = "none" /\ r.at = "push" /\ r.data \in Data
        /\ sync_write > 0 /\ sync_write' = sync_write - 1 /\ queue' = queue /\ sync_read' = sync_read
    BY <1>5 DEF PushPends
  <2>2. r \in QueueCalls
    BY <1>2
  <2> HIDE DEF r
  <2>3. /\ CallsOK'
        /\ count("push")' = count("push") + 1 /\ count("pushed")' = count("pushed")
        /\ count("pop")' = count("pop") /\ count("popped")' = count("popped")
    BY <1>1, <2>1, <2>2, CallMoves DEF CallPlaces
  <2> QED
    BY <1>1, <2>1, <2>3 DEF QueueInv, CellsAreCounted, CallPlaces
<1>6. ASSUME raw_queue_pushdata(t)
      PROVE  QueueInv'
  <2> DEFINE r == [at |-> "pushed", data |-> "none"]
  <2>1. call[t].at = "push" /\ queue.msg_num < msg_buflen /\ call[t].data \in Data
    BY <1>1, <1>6, PendsAreHonoured DEF raw_queue_pushdata, CallsOK
  <2>2. /\ call' = [call EXCEPT ![t] = r] /\ r.at = "pushed"
        /\ queue' = Pushed(call[t].data) /\ sync_read' = sync_read /\ sync_write' = sync_write
    BY <1>6, <2>1 DEF raw_queue_pushdata
  <2>3. r \in QueueCalls
    BY <1>2
  <2> HIDE DEF r
  <2>4. /\ CallsOK'
        /\ count("push")' = count("push") - 1 /\ count("pushed")' = count("pushed") + 1
        /\ count("pop")' = count("pop") /\ count("popped")' = count("popped")
    BY <1>1, <2>1, <2>2, <2>3, CallMoves DEF CallPlaces
  <2>5. RingSound(queue') /\ queue'.msg_num = queue.msg_num + 1
    BY <1>1, <2>1, <2>2, PushedAppends
  <2> QED
    BY <1>1, <2>2, <2>4, <2>5 DEF QueueInv, CellsAreCounted, CallPlaces
<1>7. ASSUME PushPosts(t)
      PROVE  QueueInv'
  <2>1. /\ call' = [call EXCEPT ![t] = Idle] /\ call[t].at = "pushed"
        /\ sync_read' = sync_read + 1 /\ queue' = queue /\ sync_write' = sync_write
    BY <1>7 DEF PushPosts
  <2>2. /\ CallsOK'
        /\ count("push")' = count("push") /\ count("pushed")' = count("pushed") - 1
        /\ count("pop")' = count("pop") /\ count("popped")' = count("popped")
    BY <1>1, <1>2, <2>1, CallMoves DEF CallPlaces
  <2> QED
    BY <1>1, <2>1, <2>2 DEF QueueInv, CellsAreCounted, CallPlaces
<1>8. ASSUME PopPends(t)
      PROVE  QueueInv'
  <2> DEFINE r == [call[t] EXCEPT !.at = "pop"]
  <2>1. /\ call[t].at = "none" /\ sync_read > 0
        /\ sync_read' = sync_read - 1 /\ queue' = queue /\ sync_write' = sync_write
    BY <1>8 DEF PopPends
  <2>2. call' = [call EXCEPT ![t] = r]
    BY <1>1, <1>8 DEF PopPends, CallsOK
  <2>3. r \in QueueCalls /\ r.at = "pop"
    BY <1>4 DEF QueueCalls
  <2> HIDE DEF r
  <2>4. /\ CallsOK'
        /\ count("push")' = count("push") /\ count("pushed")' = count("pushed")
        /\ count("pop")' = count("pop") + 1 /\ count("popped")' = count("popped")
    BY <1>1, <2>1, <2>2, <2>3, CallMoves DEF CallPlaces
  <2> QED
    BY <1>1, <2>1, <2>4 DEF QueueInv, CellsAreCounted, CallPlaces
<1>9. ASSUME raw_queue_pop(t)
      PROVE  QueueInv'
  <2> DEFINE r == [at |-> "popped", data |-> queue.msg_buf[queue.cur_read]]
  <2>1. call[t].at = "pop" /\ queue.msg_num > 0
    BY <1>9, PendsAreHonoured DEF raw_queue_pop
  <2>2. /\ call' = [call EXCEPT ![t] = r] /\ r.at = "popped"
        /\ queue' = Popped /\ sync_read' = sync_read /\ sync_write' = sync_write
    BY <1>9, <2>1 DEF raw_queue_pop, Popped
  <2>3. /\ queue.msg_buf[queue.cur_read] \in Data
        /\ RingSound(Popped) /\ Popped.msg_num = queue.msg_num - 1
    BY <1>1, <2>1, PoppedRemoves
  <2>4. r \in QueueCalls
    BY <1>2, <2>3
  <2> HIDE DEF r
  <2>5. /\ CallsOK'
        /\ count("push")' = count("push") /\ count("pushed")' = count("pushed")
        /\ count("pop")' = count("pop") - 1 /\ count("popped")' = count("popped") + 1
    BY <1>1, <2>1, <2>2, <2>4, CallMoves DEF CallPlaces
  <2> QED
    BY <1>1, <2>2, <2>3, <2>5 DEF QueueInv, CellsAreCounted, CallPlaces
<1>10. ASSUME PopPosts(t)
       PROVE  QueueInv'
  <2>1. /\ call' = [call EXCEPT ![t] = Idle] /\ call[t].at = "popped"
        /\ sync_write' = sync_write + 1 /\ queue' = queue /\ sync_read' = sync_read
    BY <1>10 DEF PopPosts
  <2>2. /\ CallsOK'
        /\ count("push")' = count("push") /\ count("pushed")' = count("pushed")
        /\ count("pop")' = count("pop") /\ count("popped")' = count("popped") - 1
    BY <1>1, <1>2, <2>1, CallMoves DEF CallPlaces
  <2> QED
    BY <1>1, <2>1, <2>2 DEF QueueInv, CellsAreCounted, CallPlaces
<1> QED
  BY <1>5, <1>6, <1>7, <1>8, <1>9, <1>10

\* A step of a call changes what the queue holds as the queue it implements
\* allows, and with the message that the call has or returns.
CallsAreRight ==
  \A t \in Caller :
    /\ raw_queue_pop(t) => call'[t] = [at |-> "popped", data |-> Head(Contents)]
    /\ raw_queue_pushdata(t) => Contents' = Append(Contents, call[t].data)

\* The step of a push that writes puts its data at the end of the queue.
LEMMA PushEnters ==
  ASSUME QueueInv, NEW t \in Caller, raw_queue_pushdata(t)
  PROVE  /\ call[t].data \in Data /\ Len(Contents) < msg_buflen
         /\ Contents' = Append(Contents, call[t].data)
<1>1. call[t].data \in Data /\ queue.msg_num < msg_buflen
  BY PendsAreHonoured DEF raw_queue_pushdata, QueueInv, CallsOK
<1>2. queue' = Pushed(call[t].data)
  BY <1>1 DEF raw_queue_pushdata
<1>3. Held(queue') = Append(Held(queue), call[t].data)
  BY <1>1, <1>2, PushedAppends DEF QueueInv
<1>4. Contents = Held(queue) /\ Contents' = Held(queue')
  BY DEF Contents, Held
<1>5. Len(Held(queue)) = queue.msg_num
  BY HeldIsSeq DEF QueueInv
<1> QED
  BY <1>1, <1>3, <1>4, <1>5

\* The step of a pop that reads takes the first of the queue.
LEMMA PopReturns ==
  ASSUME QueueInv, NEW t \in Caller, raw_queue_pop(t)
  PROVE  /\ Contents # <<>> /\ Contents' = Tail(Contents)
         /\ call'[t] = [at |-> "popped", data |-> Head(Contents)]
<1>1. queue.msg_num > 0
  BY PendsAreHonoured DEF raw_queue_pop
<1>2. /\ queue' = Popped
      /\ call' = [call EXCEPT ![t] = [at |-> "popped", data |-> queue.msg_buf[queue.cur_read]]]
  BY <1>1 DEF raw_queue_pop, Popped
<1>3. Contents = Held(queue) /\ Contents' = Held(queue')
  BY DEF Contents, Held
<1>4. /\ Held(queue) # <<>> /\ Held(Popped) = Tail(Held(queue))
      /\ queue.msg_buf[queue.cur_read] = Head(Held(queue))
  BY <1>1, PoppedRemoves DEF QueueInv
<1>5. call'[t] = [at |-> "popped", data |-> queue.msg_buf[queue.cur_read]]
  BY <1>2 DEF QueueInv, CallsOK
<1> QED
  BY <1>2, <1>3, <1>4, <1>5

\* Every step of the callers is a step of the abstract queue, or changes nothing of it.
LEMMA QueueSteps == QueueInv /\ [QueueNext]_queueVars => [Fifo!Next]_Contents /\ CallsAreRight
<1> SUFFICES ASSUME QueueInv, [QueueNext]_queueVars
             PROVE  [Fifo!Next]_Contents /\ CallsAreRight
  OBVIOUS
<1>1. CallsAreRight
  BY PushEnters, PopReturns DEF CallsAreRight
<1>2. ASSUME UNCHANGED queue
      PROVE  UNCHANGED Contents
  BY <1>2 DEF Contents
<1>3. ASSUME NEW t \in Caller, raw_queue_pushdata(t)
      PROVE  Fifo!Next
  BY <1>3, PushEnters DEF Fifo!Next, Fifo!Put
<1>4. ASSUME NEW t \in Caller, raw_queue_pop(t)
      PROVE  Fifo!Next
  BY <1>4, PopReturns DEF Fifo!Next, Fifo!Get
<1> QED
  BY <1>1, <1>2, <1>3, <1>4 DEF QueueNext, queueVars, PushPends, PushPosts, PopPends, PopPosts

\* A step of iot_link is a step of the queue, or leaves it alone.
LEMMA QueuePart == [Next]_vars => [QueueNext]_queueVars
BY DEF Next, vars

\* The ring and its two semaphores are a first-in first-out queue of
\* msg_buflen messages for any number of tasks, and a call whose pend
\* succeeded finds its room or its message (queue.c).
THEOREM QueueKeepsItsPromise == Spec => QueueIsFirstInFirstOut
<1>1. Init => QueueInv
  BY QueueInvInit DEF Init
<1>2. Init => Fifo!Init
  BY DEF Init, QueueInit, queue_create, Contents, Fifo!Init
<1>3. QueueInv /\ [Next]_vars => QueueInv' /\ [Fifo!Next]_Contents /\ [CallsAreRight]_queueVars
  BY QueuePart, QueueInvNext, QueueSteps
<1>4. Spec => Fifo!Spec /\ [][CallsAreRight]_queueVars
  BY <1>1, <1>2, <1>3, PTL DEF Spec, Fifo!Spec
<1> QED
  BY <1>4 DEF QueueIsFirstInFirstOut, CallsAreRight
==============================================================================
