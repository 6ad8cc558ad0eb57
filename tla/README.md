# Verification of the sensing terminal, its kernel and its sink

TLA+ models, TLC runs and TLAPS proofs for the programs of this repository: the
**sink** (`src/sink`), a Linux process that connects sensing terminals with each
other; the firmware of a **terminal**
(`src/LiteOS_Demos_WiFi/targets/GD32VF103V_EVAL`), which reaches the sink
through an ESP8266 WiFi module on a serial port; the **LiteOS kernel** it runs
on; and three parts of the **iot_link** middleware: firmware update, device
queue and AT client.

Contents: [1 The system](#1-the-system), [2 The modules](#2-the-modules),
[3 What the runs show](#3-what-the-runs-show),
[4 What is proved](#4-what-is-proved),
[5 Divergences found](#5-divergences-found),
[6 What is not modelled](#6-what-is-not-modelled), [7 Plan](#7-plan).

To check everything: `tlc -config MCSink_routing.cfg MCSink` and so on for the
rows of section 3, `tlapm SinkProofs.tla` and so on for section 4.

## 1 The system

Paths below are relative to `src/`; `T/` stands for
`LiteOS_Demos_WiFi/targets/GD32VF103V_EVAL/`, `L/` for
`LiteOS_Demos_WiFi/iot_link/` and `K/` for `L/os/os_imp/liteos/base/`.

### 1.1 The sink

| | |
|---|---|
| State | `sock_list`, the descriptors it serves (64 slots); `global_route_table`, address to socket (8 slots, 7 used); `global_resource_strcut`, terminal ID to sensor, executor, address and last reading (10 slots, 9 used); the buffers and the loop position of `main` |
| Operations | one pass of the loop in `main` (`sink/sink.c:146-253`): `select`, at most one `accept`, then for each listed readable socket a `recv`, `pdu_process`, and at most one `send` |
| Interaction | TCP with terminals, which connect, send PDUs, close or vanish at any moment; descriptors that the kernel hands out again |
| Hard | descriptors are reused while tables remember them; the result of `select` is used after sockets were closed and accepted; tables that are full; one PDU has effects on three tables; a failed `send` ends the process for everyone |
| Correct when | the list holds exactly open connections; look-ups never follow a null pointer; a route is the socket its address was last heard on; answers go back where they belong; commands have a reason; every connection and every socket gets its turn; the process does not end on its own |

`pdu_process` (`sink/route.c:120-247`) learns the route of the source and then
chooses a case: periodic PDU (answered), PDU of a terminal to itself (echoed),
reading for the sink (registered; when all three kinds of sensor have reported,
fused into a command for the executor), PDU for another terminal (forwarded).

### 1.2 The terminal

| Part | State | Operations | Correct when |
|---|---|---|---|
| Receiver of the WiFi port (`T/Src/usart.c`, `T/Src/wificommand.c`) | status word `UART3_RX_STA` (bit 15: complete), buffer, timer switch and counter | `UART3IRQ` per character, `Timer_uart3_Callback` every 100 ticks, the task's look and clear | a frame has no holes and nothing of an earlier one, does not change under the task, and every frame begun is completed |
| Send queue (`T/Src/liteos_all_tasks.c`) | ring buffer of ten packets: two indices and a count | clear, put, take | indices, count and contents agree |
| WiFi task (`T/Src/liteos_all_tasks.c`, `T/Src/wifitask.c`) | `DEVICE_STATE`, the counters of the periodic report, the position in the command dialogue | initialise the module, connect, and then each second: receive, or send, or put the next report | a packet that leaves the queue was delivered; the queue empties; a lost connection is noticed |

Interaction: the interrupt, the software timer (a kernel task of priority 0)
and the WiFi task (priority 1) share the receiver and the counters without any
lock. The module answers commands through the receiver; its answers, the sink's
data and the notice `CLOSED` all come as frames in one buffer, and the task
discards whatever frame is not the one it waits for.

Hard: interleavings of three contexts on one status word, answers that come
late or not at all, retries of commands that were carried out, and frames lost
because another one is complete.

### 1.3 The kernel

| Part | State | Operations | Correct when |
|---|---|---|---|
| Tasks and scheduler (`K/core/los_task.c`, `los_priqueue.c`, `los_timeslice.c`) | status flags, priority and time slice of each task, the ready lists, the running task and the switch asked for | create, suspend, resume, delay, yield, priority, lock, delete; `LOS_Schedule` and the switch; the tick | the flags tell which list a task is in, and the most urgent ready task runs |
| Mutex, semaphore, event, queue, read-write lock (`K/ipc`) | owner and nesting, counts, bits, cells and positions, holders; a list of waiting tasks each | pend, post, read, write, lock, unlock with or without a time-out, from tasks and interrupts; create and delete | what is posted is used once, owners exclude others, nobody sleeps on what is there, priorities are given back |
| Waits (`K/core/los_task.c`) and software timers (`K/core/los_swtmr.c`) | a wheel of lists with differences; one list with differences, bits for alignment, the queue of callbacks | start, stop, delete, the scan at each tick, `Swt_Task` | each ends at its tick, whatever is linked before it or taken out |

Interaction: every object parks and wakes tasks through the ready lists; an
interrupt may post; the tick ends waits and expires timers, whose callbacks a
task runs. The terminal's receiver timer is one of these timers.

Hard: a time-out meets the post that ends the same wait; a task that was handed
something runs only later; priority is inherited per task and given back per
mutex; interrupts fall between the decision to switch and the switch; the tick
handler itself is left in the middle on this target.

### 1.4 The middleware

| Part | State | Operations | Correct when |
|---|---|---|---|
| Firmware update (`L/ota/pcp/pcp.c`, `ota_flag.c`) | the record of the download in memory and in flash, the image in flash, the deadline | `pcp_main`: a message of the platform, a time-out, a restart | the blocks that are counted are in flash, a restart costs one block, an offered version gets installed |
| Device queue (`L/queue/queue.c`) | ring of pointers, two semaphores, a mutex | push and pop with a time-out | first in first out for any callers |
| AT client (`L/at/at.c`) | the present command, two semaphores, a mutex | `at_command`, the receive task | an answer belongs to its command and goes to its task's buffer only while the task waits |

Messages of the update come through the device queue. The terminal uses neither
the AT client nor the update; both are what the repository offers other targets.

### 1.5 Everything else

The rest of the kernel (memory managers, the switch of registers), of iot_link
(ESP8266 socket, SAL, drivers, soft timers, cloud access, file systems, shell,
loader) and third-party code. `PROJECT.json` lists each with its status.

## 2 The modules

    Sink  ── EXTENDS ── SockList, RouteTable, ResourceTable ── Fusion
      │        └─ refines ── RouteMemory
      ├─ MCSink          small instances
      └─ SinkProofs      (with MinLemmas)

    Uart3 ── refines ── FrameReceiver
      └─ Uart3Proofs

    WifiTask ── EXTENDS ── SendQueue
      └─ WifiProofs

    Kernel ── EXTENDS ── KernelMutex, KernelSem, KernelEvent, KernelQueue, KernelRWLock
      │                    │  each over KernelTasks    └─ refines ── MessageQueue
      ├─ MCKernel
      └─ KernelProofs    (with MinLemmas) ── KernelObjectProofs

    KernelTimers ── EXTENDS ── TaskTimers, SoftwareTimers ── DeltaList
      │                          └─ refine ── Deadlines
      ├─ MCKernelTimers
      └─ KernelTimersProofs (with MinLemmas)

    IotLink ── EXTENDS ── Pcp, IotQueue, AtClient
      │                          └─ refines ── PacketQueue
      └─ IotLinkProofs

### 2.1 Sink

`SockList`, `RouteTable`, `ResourceTable` and `Fusion` hold pure operators, one
per C function and under its name: each takes a table and returns the new one.
A table is a record of its counter and its array; indices start at 1; a loop
that stops at the first fitting slot is `Min` of the fitting slots.
`char_to_int` returns the number *and* the string it leaves behind, because the
C function converts in place. Floats are exact fractions, so the frequency that
is sent may differ by one from the code's.

`Sink` has one action per thing that can happen between two looks at the
network. `pc` is the position in the loop:

| Action | Code | |
|---|---|---|
| `Select` | 146-157 | chooses what is readable; a pass that finds nothing is a stutter |
| `Accept`, `AcceptFails` | 159-169 | lowest free descriptor, `insert_list`; without a descriptor, `continue` |
| `Scan` | 171-175, 235-253 | not an action: the end of each other action, which goes on to the next slot whose descriptor is set |
| `RecvData`, `RecvEnds` | 177-206 | one or more PDUs that have arrived; or close and `delete_list` |
| `ProcessInvalid`, `ProcessPeriodic`, `ProcessEcho`, `ProcessReadingOnly`, `ProcessFusion`, `ProcessForward`, `ProcessNoCase` | route.c 120-247 | one per outcome of `pdu_process`, each with the learning of the route |
| `Send`, `SendFails` | 217-234 | |

The environment: `Connect`, `TerminalSend`, and `TerminalLeaves`, which closes
the connection (`"fin"`, readable as its end) or vanishes without a word
(`"gone"`, noticed only when something is sent to it). A send to a peer that
has left still succeeds until its reset is known.

The tables are empty at the start. For `global_route_table` this relies on the
memory: `sink.c:64` allocates it and sets neither its counter nor its pointers.

`ProcessNoCase` is the end of a non-void function without `return`
(`route.c:247`): what `main` then compares is undefined, so the model takes any
of the outcomes.

Two variables are history: `lastSend` and `heardOn`. They are read by
properties and by no guard.

`RouteMemory` is what the table promises: it remembers up to *Capacity*
addresses, follows those it knows and ignores the others when full. `Sink`
refines it with `known <- RoutesKnown(routes)`.

### 2.2 Uart3

The receive interrupt is one action: nothing interrupts it. It may fall between
any two instructions of the timer's callback, so `UART3_RX_STA |= 1<<15` and
`uart3_timer_count++` are two actions each, a read into `reg` and a write. The
callback runs in the task of software timers, above the WiFi task, so the
task's actions wait for `cb = "idle"`. The task's own instructions that touch
the status word are plain writes or the single test of a complete frame.
`stored` is history: the characters stored since the task last cleared. The
buffer has one position more than the array, where the terminator of a full
frame goes.

`FrameReceiver` is the promise to the task: characters are appended until the
frame is done, a done frame does not grow, and finishing may cut its end.

### 2.3 WifiTask

A frame is the set of the words the task searches for in it. The commands of
`WIFIInit` and `CreatTCP` are a sequence, `Script`; `Ack` is the word each one
waits for, `Repeated` are those in a `while` loop. The module is the
environment: it handles what it was sent in order, answers into the receiver,
takes whatever follows an accepted announcement for the announced data, and
refuses data that were not announced. `faults`, chosen at the start from
`FaultSets`, says what else may happen:

- `"late"`: the module needs longer than a wait, so answers meet the next command, and the silence that ends a frame may fall into the middle of an answer;
- `"drop"`: the connection with the sink is lost;
- `"talk"`: the sink sends data, whose frames occupy the receiver.

Between two delays the task runs for much less than a timer period, so at most
one `Tick` falls into such a stretch (`ticked`). The periodic packet is always
the text "Hello"; the model gives successive packets different names, so that
they can be told apart. `SendQueue` is the ring buffer. `delivered` is history:
the packet passed on to the sink since the last one was put.

### 2.4 Kernel

`KernelTasks` holds the task control blocks, the ready lists and the scheduler;
its operators (`osTaskWait`, `osTaskWake`, ...) are under the names of the C
functions and take and return the record of the scheduler's state, so that a
call of the kernel is one action that applies them in the code's order. A call
that waits is two actions: the part before `LOS_Schedule`, and the part after
it, when the task runs again and looks at what ended its wait. Calls are atomic
because they hold `LOS_IntLock`; the switch that `LOS_Schedule` decides on is an
action of its own, and interrupts and the tick may come before it.

An application (`MCApplication`) is a set of families of calls with priorities,
time-outs and objects; `app` is chosen once. Each family is explored together
with those it interferes with (a mutex with delay, suspension, priority changes
and deletion; a queue with interrupts and time-outs; and so on). A wait ends at
any tick here; at which one is `TaskTimers`' question.

`KernelQueue` models reservation and delivery apart, as `osQueueOperate` does: a
waiter is handed its cell and copies it when it runs. `MessageQueue` is the
promise: bounded, put at either end, delivered once and from the front.

### 2.5 KernelTimers

`DeltaList` is the list with differences which both kinds of timers use.
`TaskTimers` is the wheel with its turns, `SoftwareTimers` the list of timers
with the alignment of periodic ones. Both refine `Deadlines`: what is armed for
n ticks is due at the n-th tick. An application uses one or the other (`uses`),
and the tick scans both. `Parks` says whether waking `Swt_Task` leaves the tick
handler in the middle: not in the passing run; in `timers_lost` it does, as on
this target, and `parked` is the stack of timers where handlers were left. Calls
for a parked timer are left out, because the walk for it would run off the end
of the list, and only unaligned timers are parked.

### 2.6 IotLink

`Pcp` models `pcp_main` with one action per message and one per save to flash
and per sending, so a restart falls between any two of them. `record` is in
memory, `flag` and `bin` are in flash. Taking a message from the queue and the
change in memory are one action; the two messages that follow a new version are
sent in one; the deadline passes only when nothing is on its way, unless an
answer is late, or the device has slept: the five seconds that an upgrade takes
(`pcp.c:447`) are longer than the two of the deadline. Messages on their way are a set: in no order. A block carries
the version it is part of, which the code cannot see. The platform, from what
`pcp.c` expects of it, offers a version until it is answered, and answers
requests and reports. `faults` is chosen from `FaultSets`, and at most
`MaxFaults` happen: messages late, lost and repeated; restarts, also between
the two saves that end a download; a record damaged by a restart; writes that
fail; a newer version during an update.

`IotQueue` is the queue step by step (pend, change under the mutex, post), with
calls of other tasks between the steps.

`AtClient` is `at_command` with what is done under `cmdlock` as one step:
pending, creating, sending, waiting, reading the length, clearing, posting; and
the receive task with reading and matching apart. The module is prompt, or
answers late, not at all, or sends data in which a word is found that somebody
waits for. The frames carry the command they answer, which the client cannot
see.

## 3 What the runs show

| Run | Configuration | States | Shows |
|---|---|---|---|
| `sink_routing` | `MCSink_routing` | 1 637 600 | three terminals for two usable routes connect three times and send three PDUs, and descriptors come back: list and routes stay consistent, and the sink ends only for the causes stated. PDUs include a reading for another address and one of an LED executor |
| `sink_fusion` | `MCSink_fusion` | 370 528 | readings of all kinds, also under a terminal ID that another address has registered: tables stay well-formed, registration is permanent and commands are justified |
| `sink_service` | `MCSink_service` | 176 777 | three connections for two slots, terminals that vanish, a full route table, descriptors to spare: every connection is accepted, every listed socket is served and stays listed until it is closed, answers and echoes go back to where the PDU came from, and the table implements `RouteMemory` |
| `uart3_frames` | `Uart3_pass` | 3 592 | every interleaving of interrupt, callback and task for six characters |
| `wifi_faults` | `WifiTask_faults` | 663 881 | all faults: the ring is consistent and holds at most one packet; without `"late"`, removed packets were delivered, an announcement is followed by its packet, and no packet is passed on twice; without any, the terminal reports for ever and its queue empties |
| `kernel_ipc` | `MCKernel_ipc` | 323 287 | three tasks and interrupts make any calls of fourteen applications: flags and lists agree, the most urgent task runs, holders exclude others, priority comes back, posts are used once, queues lose nothing and implement `MessageQueue`, nobody sleeps on what is there |
| `kernel_timers` | `MCKernelTimers_pass` | 47 660 | the wheel and the list of timers implement `Deadlines`; aligned timers stay in phase; a callback is dropped only when `Swt_Task` fell behind |
| `iot_link` | `IotLink_pass` | 662 808 | the update under faults; the queue for three callers; commands of two tasks to a module that is prompt or not |
| `sink_misrouted`, `wifi_unnoticed`, `timers_lost`, `iot_link_restart` | `MCSink_misrouted`, `WifiTask_unnoticed`, `MCKernelTimers_lost`, `IotLink_between` | | violated: section 5 |

`PROJECT.json` names for every property of a passing run a mutant: a plausible
mistake in one function under which TLC finds the property violated.

**Bounds.** `MaxConnections`, `MaxPdus`, `MaxChars` and `MaxPending` bound the
environment; each is large enough that the property's mutants fail and the
interesting case occurs. A descriptor comes back to another terminal with two
connections and to a third with three. The tables are made small so that they
fill: the list has 2 slots instead of 64, the route table 2 to 4 (1 to 3
usable) instead of 8, the resource table 3 or 4 instead of 10; the code treats
all slots alike. `sink_routing` has three addresses for two usable routes, so
that a route without an entry is found missing with a spare one and with a full
table, and an executor is registered without a route; with a fourth address and
a third route there are more states than a run can visit. The receiver has 3 characters instead of 200 and 2 callbacks of
silence instead of 5: a frame can be empty, partial, full and overrun. The
task's waits are 2 or 3 looks instead of 100 to 1000, because only the first and
the last look differ, and its gaps are 1 and 2 ticks instead of 20 and 100; the
code needs only that the first is smaller. What the proofs of section 4 cover
does not depend on these sizes. `SYMMETRY` over the two addresses is used in
`MCSink_misrouted`, which checks no liveness, over a PDU set that treats them
alike.

The kernel runs have three tasks of two or three priorities (someone runs,
someone waits, someone comes between), two mutexes that nest and one object of
each other kind; counts of 1, a queue of 2 cells, one lock of the scheduler and
one nesting show the empty, the partial and the full case. Messages are
symmetric. The wheel has 2 lists and waits up to 5 ticks, so a wait takes up to
two full turns; differences wrap at 16; two timers, with intervals 1 to 4 and a
divisor of 2, can be aligned as equal, multiple and divisor. Alignment is
checked for two timers only; section 4 says for which plans it holds of any
number. `IotLink` has images of 2 blocks (a first and a last one),
queues of 2, 2 versions, 3 faults (a retry may fail too), and 2 commands with
one frame on the line and one at hand.

**Deadlock** is checked for `WifiTask`. The other programs may stop: the sink
may exit or have nothing to read once the bounded environment is done, and so
may the receiver; tasks of the kernel may all wait for one another, if the
application makes them (`NobodySleepsOnWhatIsThere` is what the kernel owes
them); and an update that is complete leaves nothing to do.

**Fairness.** `Sink`: weak fairness of its one process, which runs whenever it
can; nothing is assumed of terminals. `Uart3`: weak fairness of the callback,
since the software timer is periodic; nothing is assumed of the characters or
of the task. `WifiTask`: weak fairness of the task (its delays end and it has
the second-highest priority), of `Tick` and of the completion of frames (the
timer again), and of the module, which handles what it is sent; none of the
faults is fair. `Pcp`: weak fairness of the task, of its deadline, of the
platform's repetition of an offer, and of what is on its way, which arrives
unless it is lost; restarts and losses are bounded, since no update completes on
a device that always restarts. The kernel, the device queue and the AT client
have safety properties only, and no fairness.

## 4 What is proved

All theorems hold for every value of the constants that satisfies the
assumptions named in the modules (positive sizes; descriptors distinct from 0
and from the listening socket; readings of at least three octets; the send gap
below the update gap and that below the counters' limit; packets that are no
commands; finitely many tasks, created above the idle task's priority, none of
them the null pointer, and pend lists for every kernel object; a null pointer is
no message; intervals of timers, and the turns of the wheel that the longest
wait takes, fit their fields; at least one plan for a timer). TLC evaluates these
assumptions in every run.

| Theorem | States | Argument |
|---|---|---|
| `SinkProofs!TypeCorrect` | `Spec => []TypeOK` | inductive invariant `IInv`: `TypeOK`, `TablesOK` and `ServingOK`. `ServingOK` is what makes it inductive: between `recv` and the end of `pdu_process` the served socket belongs to a connection and a PDU is at hand, although `conns` changes meanwhile |
| `SinkProofs!TablesCorrect` | `Spec => []TablesOK` | the same invariant. The first `current_entry_num` pointers, and no others, are set; an address and a terminal ID have one entry each. `InsertKeepsTable` and its siblings prove it per C function, and need that insertion is preceded by a failed search, which `LearnRoute` and `RegisterReading` provide |
| `SinkProofs!SocketListCorrect`, `ServedCorrect` | `SocketListOK`, `ServedUntilClosed` | `NetInv`: `IInv`, `SocketListOK` and `SocketsOK`, which says of the system's descriptors that an accepted connection has one and no two open ones share it. So `add_list` never adds a descriptor twice, and `delete_list` leaves no other slot with it |
| `SinkProofs!RoutesCorrect`, `RoutesRemember` | `RouteFollowsLastHeard`, `Spec => RoutesAreMemory` | `RouteInv`: `NetInv`, `RouteFollowsLastHeard` and `HeardOK` (an address was heard on a connection that had been accepted, and such a one keeps its descriptor). A route is set or changed by `LearnRoute` alone, to the descriptor that is served |
| `SinkProofs!RegistrationStays` | `RegistrationIsPermanent` | every operation of the resource table `Extends` it: entries keep all but their reading. Fusion and printing, which convert in place, do so too |
| `SinkProofs!CommandsCorrect` | `[]CommandsAreJustified` | `CommandInv`: not only the last command sent but what lies in `sendbuf` is `Justified`. The buffer outlives the PDU, and a case that ends without a return sends it again; that this is harmless needs that the table only extends |
| `SinkProofs!AnswersCorrect` | `[]AnswersReachTheirSource` | `SourceInv`: a connection carries the PDUs of one terminal (`InboxOK`), the PDU at hand came from the socket served (`AtHandOK`), `send_sock` is 0 outside the sending (`NoSockChosen`), and what is about to be sent to its own source goes to that source's connection (`AnswerPending`) |
| `SinkProofs!ExitCorrect` | `[]ExitHasACause` | `ExitInv`: a registered address was heard (`RegisteredHeard`), so with a table not full it has a route (`RoutesLead`), and `SendHasCause` says of every pending send that its descriptor is that of a connection, or that it is 0 for one of the two causes (`ZeroCause`). A connection keeps its descriptor (`HoldersStay`), and a send fails only when all that held it have left (`FailedSendHasCause`) |
| `Uart3Proofs!TypeCorrect`, `FramesAreWhatWasStored`, `PartialFramesAreTimed`, `FramesAreStableWhileRead` | the three invariants and the action property of `uart3_frames` | `CountsWhileOpen` (until a frame is complete every stored character is counted), `CallbackInv` (what a callback may rely on between its two halves: the word it has read is at most the present one, and equal to it while the task reads), `LookInv` (what the task reads is complete) |
| `Uart3Proofs!ReceiverImplemented` | `Spec => ImplementsReceiver` | step by step on the same invariant: a character is `Store`, a full buffer and the second half of the callback's marking are `Finish`, the latter maybe with the end of the frame lost; `CallbackInv` makes it a stutter while the task reads |
| `WifiProofs!NeverTwoPackets` | `Spec => []AtMostOnePacket` | the counters run together: while a packet waits `SendCounter >= PeriodUpdateCounter` (`CounterLead`), the task tests the first before the second, and at most one tick falls in between (`UpdateInv`). So the queue of ten never holds two, whatever the module does, and the full queue that `wifi_send_function` tests for does not occur |
| `WifiProofs!RingCorrect` | `Spec => []RingOK` | lemmas on `Behind` and `After`, then per action |
| `WifiProofs!TypeCorrect` | `Spec => []TypeOK` | with the queue's invariant, since what is written to the module as data is the head of the queue, which must be a packet |
| `WifiProofs!NoPacketIsLost`, `AnnouncementsHold` | `Spec => RemovedIsDelivered`, `Spec => AnnouncedIsSent` | `AnswersInTime`, for a module that is not late: only what the task waits for is on its way (`OnItsWay`), the module expects data only where they are about to be written or just were (`Announced`), and `OK` answers data only when they were passed on (`OKMeansDelivered`). The result of `AT+CIPSEND` can be ignored because unannounced data are refused and repeated |
| `WifiProofs!RetriesAreHarmless` | `Spec => PacketsAreSentOnce` | `OnceInv`, on top of `AnswersInTime`: while a packet waits in the queue and its data are not yet written, or are written and the module accepts data, it was not passed on (`NotYet`). Data that were passed on were accepted, and an acceptance is used up; the announcement is made before the loop of retries and not in it |
| `IotLinkProofs!AnswersAreTheirs` | `Spec => CommandsGetTheirAnswers` | `AtInv`: one task at a time is between `cmdsync` and its post (`OneAtATime`), and the present command is its own or none (`PresentIsKnown`); so what the receive task matches and copies is for that task (`AnswersFit`), and with a prompt module all that is on its way is the answer it waits for (`OneAnswer`) |
| `IotLinkProofs!BlocksAreWritten`, `OneBlockAtMost` | `[]CountedIsWritten`, `[]RestartCostsOneBlock` | `PcpInv`: the record in flash follows the one in memory by at most the step that is being saved (`FlagFollows`), messages and records are of the version that is offered (`VersionOK`), and counted blocks are in flash, of both records (`ImageOK`) |
| `IotLinkProofs!QueueKeepsItsPromise` | `Spec => QueueIsFirstInFirstOut` | `QueueInv` counts: the free cells, the items and the callers between their two semaphores add up to the size, as cardinalities of sets of callers; with it the ring lemma per push and pop, each of which falls between two other steps of its caller |
| `KernelProofs!FlagsAndLists`, `Scheduling` | `Spec /\ MailsUnlocked => []FlagsTellTheLists`, `... => []MostUrgentRuns` | `TasksInv`. `Links(k)` says per task and list what the flags say, so that it can be proved of each function of the source by itself (`DequeueLinks`, `WaitLinks`, `ResumedLinks`, ...) and of the fold `WakeAll` through what it has done after each place of the list (`LoopSpec`). `Control` is what the calls rely on: a task that waits, or whose `TIMEOUT` is set, is in a call; the running task is READY unless it is before its `LOS_Schedule`; and it never gives up the core with scheduling locked. Each call then leaves by one of a few ways (`CallReturns`, `CallWaits`, `CallHandsOver`, `CallWakes`, and the same for interrupts) |
| `KernelObjectProofs!ObjectsHold` | `Spec /\ MailsUnlocked => [](TasksStay => ObjectsInv)` | the inductive invariant of all objects, described below |
| `KernelObjectProofs!Exclusion` | `Spec /\ MailsUnlocked /\ TasksStay => []HoldersExclude` | `MutexInv` and `RWInv`: the count in the control block is the number of locks its owner's calls have returned, or the owner is on its way to return the first |
| `KernelObjectProofs!NoSleeperIsForgotten` | `Spec /\ MailsUnlocked /\ TasksStay => []NobodySleepsOnWhatIsThere` | the last conjunct of each kind of object, which holds again after every post because the post looks at the list first |
| `KernelObjectProofs!PostsAreUsedOnce` | `Spec /\ MailsUnlocked => []EveryPostIsUsedOnce` | `SemInv`, with the posts on their way as a cardinality |
| `KernelObjectProofs!CellsAndBlocksStay` | `Spec /\ MailsUnlocked /\ TasksStay => []QueuesLoseNothing` | `CellsInv` and `BlocksInv`: cells and blocks free, in use and on their way add up to the queue's length and the number of blocks |
| `KernelObjectProofs!InheritanceEnds` | `Spec /\ MailsUnlocked /\ TasksStay => []PriorityIsGivenBack` | `PrioInv`: the mutex a task locked first keeps the task's own priority, also while the mutex is on its way to it; unlocked last, it gives that priority back |
| `KernelObjectProofs!QueueImplemented` | `Spec /\ MailsUnlocked /\ TasksStay => QueueIsAMessageQueue` | `RingInv` on top of `CellsInv`: the tail is the head plus the messages that can be read or that a task was woken for, modulo the length. A step operates on one queue at most and leaves the ring of all others (`OneTurns`), and what it does there is `Put`, `Take` or `Discard` of the list that the ring spells out. Head and tail move only when a cell is copied, whichever of the tasks that were handed one comes to run first, so that the order is that of the copies |
| `KernelTimersProofs!DeadlinesHold` | `Spec => DeadlinesAreExact`, unless `Parks` | `TimersInv`, described below; each call and the tick then map to the steps of `Deadlines` |
| `KernelTimersProofs!RemainingIsWithin` | `Spec => []RemainingIsWithinInterval`, unless `Parks` | `TimerFits`, a part of `TimersInv`. This is the property that `timers_lost` violates, so the divergence is due to the handler that is left in the middle and to nothing else |
| `KernelTimersProofs!DropsAreRepeats` | `Spec => OnlyRepeatedCallbacksAreDropped`, unless `Parks` | a full queue without the timer that expired has more places than there are other timers, so one is in it twice (a count of cardinalities) |
| `KernelTimersProofs!AlignedExpireTogether` | `Spec => []AlignedTimersExpireTogether`, unless `Parks`, for plans that are a `Chain` | `AllInPhase`: what two related timers have left differs by a multiple of the smaller interval. A timer that starts is put in phase with one other; that it is then in phase with all follows from `Chain` |

`MailsUnlocked` excludes applications that ask for mail *and* lock scheduling.
`osQueueMailAlloc` (`K/ipc/los_queue.c:580`) is the one call that waits without
looking at `g_usLosTaskLock`: with the lock held the caller goes on to run
while it is in the list, takes its own wait for ended, and clears `TIMEOUT`, so
its flags no longer tell that the tick links it. With such an application TLC
finds `FlagsTellTheLists` violated in six steps; the proof needs the hypothesis
at this call and nowhere else.

**The objects of the kernel.** What a pending call was given it learns only when
it runs again, from its flags. The invariant therefore has a name for the tasks
in between: `Waiting(l)` are those linked in list `l`, and `Grants(l)` those that
wait for what `l` is for, are no longer in it, and have not timed out. What an
object promises is a sum over its control block, what calls have returned, and
its grants; the properties themselves are not inductive, because they do not say
who is in which list for what. `Parked` says that (a task in a list waits for
what the list is for, a task that runs its own code waits for nothing), and
`ObjectsInv` is its conjunction with one invariant per kind of object.

Every step is first described by what it does to the lists, once for all
objects: a list is `Still` (nobody joins it, and who leaves has timed out), a
task `Joined` it, or some were `Handed` what they waited for. `After(X)` says
that all lists outside `X` are still, so that a step about one object keeps the
invariants of all others (`OtherSems` and so on). Calls on tasks, the tick and
the switch leave all lists still (`TasksQuiet`).

`TasksStay` (`"delete"` is not among the application's calls) is needed there:
`LOS_TaskDelete` does not look at what its task owns, was granted, or is to give
back (`K/core/los_task.c:1126`), so that a mutex keeps an owner that is gone and
a granted cell or post is lost with its task; the application has to prevent
that. `EveryPostIsUsedOnce` and the sums of cells have the premise themselves;
for the rest it is a hypothesis of the theorem, and the applications in
`MCKernel` that delete tasks use no objects.

**The kernel's timers.** A list is `Sound` when its items are distinct and its
differences and their sums are numbers the fields hold, and `At(list, item, n)`
says that `item` is `n` ticks from the head of the list. All operations are described by what they
do to `At`: linking puts one item at its place and moves no other (`InsertPuts`),
unlinking takes one away (`UnlinkedTakes`), a tick counts all down by one
(`CountsDown`), what is behind the expired ones stays (`RestOf`), and repeating
timers are put back one after another (`RearmPuts`). On the wheel, a wait is as
long as the distance of its list plus its turns, at a place given by the cursor
(`PlaceOfWait`, `WheelTurns`). `TimersInv` joins the wheel's part, `WheelInv`,
with `SwtInv`: a timer is linked exactly while it ticks, at no more than its
interval (`TimerFits`), and its alignment bits are those of its state.

These theorems are about `Spec`, in which the tick handler runs to its end
(`~Parks`). Under `ParkingSpec` waits of timers are not exact: section 5.

`Chain` says: of two plans for timers that may be aligned, with intervals that
are multiples of `LOS_COMMON_DIVISOR`, one interval divides the other. It is a
real limit and not one of the proof. Of several timers that it could be aligned
with `osSwTmrStart` (`K/core/los_swtmr.c:242-290`) takes one, so when timers of 4
and 6 ticks run, one of 12 is linked behind that of 6 and expires without that
of 4. TLC finds this with three timers and a divisor of 2.

**What stays with TLC.** Every invariant and action property and every
refinement of a passing run is a theorem for all values of the constants, under
the hypotheses in the table. Liveness is not (`EverySocketIsServed`,
`FramesComplete`, `SinkIsUpdated`, `UpdateCompletes`): there is no rule here for
fairness and `ENABLED`.

The induction theorems of the library cannot be used with these provers, because
they take an operator as a parameter. Where a loop of the source is a recursive
function (`Upto`, `Rearmed`), `UpTo` of `MinLemmas`, which is about a set of
numbers and follows from the least counterexample, proves that the function
satisfies its equation (`Sums`, `RearmLoop`), and then what it computes. For
`char_to_int` this was not done: its shape (`ShiftedIsString`) is a theorem, its
value is not.

*A caution about the prover.* The SMT encoding of version 1.4.5 contains
`DOMAIN s = 1..n <=> Len(s) = n` for every `s`, which is false for functions
that are not sequences, and from it a leaf that mixes `Len` with such a
function can be closed wrongly. All proof modules were also checked with
the equivalence replaced by the implication from left to right, and every
obligation is still proved.

## 5 Divergences found

Each is a run whose property quotes what the code says of itself.

- **`sink_misrouted`** (`sink/sink.c:186`). Closing a socket leaves its routes. The next terminal gets the descriptor and with it PDUs for the other address. `delete_route_entry` exists and is never called; it would also leave a null pointer among the first `current_entry_num` ones, which the look-ups dereference, and so break `TablesOK`.
- **`wifi_unnoticed`** (`T/Src/wificommand.c:61`). A `CLOSED` that comes while a command is about to be written, or during its wait, is discarded. The data are then repeated for ever, each time refused, and `DEVICE_STATE` stays 1.

- **`timers_lost`** (`K/core/los_swtmr.c:468`). The timer interrupt of this target does not count `g_vuwIntCount` (`los_hw_tick.c:53`), so the first callback of a tick switches to `Swt_Task` with the second expired timer still at difference 0. If the callback lasts to the next tick, `osSwtmrScan` decrements 0 to 2^32-1, and that timer and all behind it are lost.
- **`iot_link_restart`** (`L/ota/pcp/pcp.c:368`). The last block and the state DOWNLOADED are saved in two writes. After a restart between them the device requests block `blk_num`, which does not exist, for ever.

Met while modelling, and described here only:

- When `accept` fails the loop of the sink continues without the scan (`sink/sink.c:163`). The connection stays in the queue, so the next pass fails the same way: a sink out of descriptors never again reads a socket it serves. `EverySocketIsServed` is therefore checked with descriptors to spare.
- A character that arrives between the read and the write of `UART3_RX_STA |= 1<<15` is stored and then no longer counted (`T/Src/usart.c:410`).
- A mutex gives priority back per mutex while inheritance is per task: with nested mutexes, or several waiters, a task can lose a priority that a waiter of another mutex gave it (`K/ipc/los_mux.c:318`), although `los_mux.h:236` says that an owner gets the priority of who waits.
- A timer that starts is aligned with one other only, so of three aligned timers of 4, 6 and 12 ticks the last may expire without the first (`K/core/los_swtmr.c:242-290`); section 4 proves that all expire together if of any two such intervals one divides the other.
- A writer of a read-write lock that gives up does not wake the readers queued behind it (`K/ipc/los_rwlock.c:224`); for read-write locks `NobodySleepsOnWhatIsThere` is therefore checked with writers that never give up.
- A refused EXCUTEUPDATE is reported as an upgrade that was done (`L/ota/pcp/pcp.c:451`); a late block of an older version becomes part of a newer image (355); a late acknowledgement of a state ends a download (385); after a failing write at the last block nothing that exists is requested until a restart (196); no checksum of a message is verified (421).
- `at.h` says that `at_command` returns 0 for success. It returns the length of the answer, and `shell_at` (`L/at/at.c:461`) reports every answered command as failed.
- The ring buffer of the ESP8266 socket (`L/network/tcpip/esp8266_socket/esp8266_socket_imp.c:155,284`) is written by the receive task and read by the application without a lock, and both change `datalen` by reading and writing it (`L/link_misc/link_ring_buffer.c`): a change can be lost.
- An executor whose route did not fit in the table is commanded on descriptor 0 (`sink/route.c:218`); the send fails and the sink ends. `ExitHasACause` lists this cause.
- `global_route_table` is allocated and not initialised (`sink/sink.c:64`), unlike the pointers of the resource table (76-79). The model starts from an empty table, which is what memory that was zero gives; `TablesOK` is about what is made of it.
- `char_to_int` converts in place and runs when a reading is printed and at each fusion, so `data_fusion` is given other values than the terminal sent (`sink/pdu.c:244`). `x1 <= data < x2` (`sink/fusion.c:24`) compares a truth value.
- A partial frame that is discarded leaves its timer running, so an empty frame is completed later, which keeps the characters of the next answer out; and a frame may be completed in the middle of an answer (`T/Src/usart.c:408-415`).
- An `OK` that comes after its time-out is taken for the answer of the next command, also of the data (`T/Src/wificommand.c:96`): with a slow module a packet may leave the queue undelivered. `RemovedIsDelivered` is therefore checked without `"late"`.
- The terminator of a frame of 200 characters is written behind the array (`T/Src/wificommand.c:47`).
- `DEVICE_STATE` is set and the receiver cleared two seconds after the connection was made; a `CLOSED` in between is lost too (`T/Src/liteos_all_tasks.c:96-111`).

## 6 What is not modelled

In the sink: the configuration file, failure of `malloc` and leaks, the octets
of PDUs (an address with an octet of zero ends `strlen` early), the non-blocking
`recv` that fails with `EAGAIN` after `select`, an overrun of
`resource_payload` by a reading with another PDU behind it, and functions
nothing calls. In the terminal: drivers and start-up, the choice of the SSID,
`TCPtransmitDOWN` (no packet of that mode is put into the queue),
`data_frame_analyse_function` (its result is unused), the route list (nothing
fills it), the smoke sensor, the debug port, and the sensor code that is commented out.

In the kernel: the search for free control blocks and the reuse of their ids,
calls with ids of deleted objects, argument checks, tickless operation, CPUP,
the static builds, `LOS_EventDestroy`, the memory managers (arithmetic over raw
memory) and the saving of registers. The read-write lock is modelled although
this target does not build it. In iot_link: queues without semaphores and their
deletion; octets, lengths and checksums of update messages and the installation
of the storage; the table of functions for data out of band. File systems,
shell, loader and cloud access are I/O, parsing, or adapters over protocol
stacks that are third-party code; they are a large part of the repository's
lines and are not what its own logic is. `PROJECT.json` gives the reason for
each component.

A model of both programs together would need a terminal that routes PDUs; the
present firmware sends one constant report and discards what it receives, so
their interaction is what `Sink`'s environment already does.

## 7 Plan

1. `Stimer` (`L/stimer/stimer.c`): the list of soft timers against calls from other tasks; refines `Deadlines` with lateness.
2. `Router` and `SmokeSensor` on the terminal: pure operators checked against reference definitions over all small inputs (address conversions, the substring match, the frame recogniser).
3. Proofs: which of the objects' properties survive the deletion of tasks that use no object at that moment; what holds of the software timers under `ParkingSpec` when callbacks are shorter than a tick; the value of `char_to_int`.

Runs stay one per question: where a new module asks the same question as an
old one, one run of a small composition answers both.
