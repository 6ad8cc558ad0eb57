----------------------------- MODULE KernelQueue -----------------------------
(***************************************************************************)
(* The message queues of the LiteOS kernel (ipc/los_queue.c): a ring of    *)
(* cells, a count of readable and one of writable cells, and a list of     *)
(* waiting readers and writers; and the mail blocks allocated beside a     *)
(* queue.  A task that is woken owns a cell that is in neither count, and  *)
(* touches the ring only when it runs.                                     *)
(***************************************************************************)
EXTENDS KernelTasks

CONSTANTS
  Queue,        \* the queues' handles
  Msg,          \* messages
  usQueueLen,   \* cells of a queue
  Blocks        \* mail blocks beside a queue

QueueList(q, side) == <<"queue", q, side>>
Side == {"read", "write"}

VARIABLES
  queue,   \* queue[q]: the control block of q
  out,     \* out[q]: the message last read from q
  pool,    \* pool[q]: free mail blocks
  mails    \* mails[q][t]: mail blocks of q the calls of t have returned and t has not freed; history

queueVars == <<queue, out, pool, mails>>

Fresh == [used |-> TRUE, cells |-> [i \in 0..usQueueLen - 1 |-> None], head |-> 0, tail |-> 0,
          able |-> [read |-> 0, write |-> usQueueLen]]

QueueInit ==
  /\ queue = [q \in Queue |-> Fresh]
  /\ out = [q \in Queue |-> None]
  /\ pool = [q \in Queue |-> Blocks]
  /\ mails = [q \in Queue |-> [t \in Task |-> 0]]

\* The operations: read, write at the tail and, in an application that
\* calls LOS_QueueWriteHead, write at the head.
Op == {[kind |-> "read", msg |-> None]} \cup [kind : {"tail", "head"}, msg : Msg]
OpOf(a) == {op \in Op : op.kind = "head" => "urgent" \in a.calls}
SideOf(op) == IF op.kind = "read" THEN "read" ELSE "write"
Other(side) == IF side = "read" THEN "write" ELSE "read"
Pending(q, op) == For(QueueList(q, SideOf(op)), op)

ASSUME QueueAssumption ==
  /\ usQueueLen \in Nat \ {0} /\ Blocks \in Nat /\ None \notin Msg
  /\ \A q \in Queue :
       /\ \A side \in Side \cup {"mail"} : QueueList(q, side) \in PendList
       /\ \A op \in Op : Pending(q, op) # None

Up(i) == IF i + 1 = usQueueLen THEN 0 ELSE i + 1
Down(i) == IF i = 0 THEN usQueueLen - 1 ELSE i - 1

\* Mutant: a write at the head moves the head after it.
osQueueBufferOperate_after(c, op) ==
  CASE op.kind = "read" -> [c EXCEPT !.cells[c.head] = None, !.head = Up(@)]
    [] op.kind = "tail" -> [c EXCEPT !.cells[c.tail] = op.msg, !.tail = Up(@)]
    [] op.kind = "head" -> [c EXCEPT !.cells[c.head] = op.msg, !.head = Down(@)]

osQueueBufferOperate(c, op) ==
  CASE op.kind = "read" -> [c EXCEPT !.cells[c.head] = None, !.head = Up(@)]
    [] op.kind = "tail" -> [c EXCEPT !.cells[c.tail] = op.msg, !.tail = Up(@)]
    [] op.kind = "head" -> [c EXCEPT !.cells[Down(c.head)] = op.msg, !.head = Down(@)]

\* Mutant: the cell is counted although it is passed on.
Operate_counting(q, op, c, waiters) ==
  /\ queue' = [queue EXCEPT ![q] =
                  [osQueueBufferOperate(c, op) EXCEPT !.able[Other(SideOf(op))] = @ + 1]]
  /\ out' = IF op.kind = "read" THEN [out EXCEPT ![q] = c.cells[c.head]] ELSE out
  /\ UNCHANGED <<pool, mails>>

\* The second half of osQueueOperate: the cell is
\* the caller's; it is passed on to the first waiter of the other side, or
\* counted.
Operate(q, op, c, waiters) ==
  LET done == osQueueBufferOperate(c, op)
      other == Other(SideOf(op))
  IN  /\ queue' = [queue EXCEPT ![q] =
                     IF waiters = <<>> THEN [done EXCEPT !.able[other] = @ + 1] ELSE done]
      /\ out' = IF op.kind = "read" THEN [out EXCEPT ![q] = c.cells[c.head]] ELSE out
      /\ UNCHANGED <<pool, mails>>

WaitersFor(q, op) == k.pend[QueueList(q, Other(SideOf(op)))]
PassedOn(s, waiters) == osTaskWake(s, Head(waiters), "PEND_QUEUE")

Finish(q, op, c, s) ==
  LET waiters == WaitersFor(q, op) IN
  /\ Operate(q, op, c, waiters)
  /\ IF waiters = <<>> THEN ThenReturn(s) ELSE ThenSchedule(PassedOn(s, waiters), None)

CellTaken(q, op) == [queue[q] EXCEPT !.able[SideOf(op)] = @ - 1]

osQueueOperate(q, op, timeout) ==
  /\ Calls("queue")
  /\ queue[q].used
  /\ \/ /\ queue[q].able[SideOf(op)] > 0
        /\ Finish(q, op, CellTaken(q, op), k)
     \/ /\ queue[q].able[SideOf(op)] = 0
        /\ timeout # "none"
        /\ k.lock = 0
        /\ ThenSchedule(osTaskWait(k, QueueList(q, SideOf(op)), "PEND_QUEUE", timeout = "ticks"),
                        Pending(q, op))
        /\ UNCHANGED queueVars

\* osQueueOperate behind its LOS_Schedule.
QueueOperateReturns(q, op) ==
  /\ Checks(Pending(q, op))
  /\ IF TimedOut(k.run)
     THEN ThenReturn(Cleared(k)) /\ UNCHANGED queueVars
     ELSE Finish(q, op, queue[q], k)

\* An interrupt handler reads or writes; it may not wait.
InterruptOperates(q, op) ==
  /\ InterruptCalls("queue")
  /\ queue[q].used
  /\ queue[q].able[SideOf(op)] > 0
  /\ LET waiters == WaitersFor(q, op) IN
     /\ Operate(q, op, CellTaken(q, op), waiters)
     /\ IF waiters = <<>> THEN UNCHANGED <<k, at, wait>> ELSE ThenResume(PassedOn(k, waiters))

LOS_QueueCreate(q) ==
  /\ Calls("life")
  /\ ~queue[q].used
  /\ queue' = [queue EXCEPT ![q] = Fresh]
  /\ ThenReturn(k)
  /\ UNCHANGED <<out, pool, mails>>

\* Refused while a task waits, or a task that was woken has its cell.
LOS_QueueDelete(q) ==
  /\ Calls("life")
  /\ queue[q].used
  /\ \A side \in Side \cup {"mail"} : k.pend[QueueList(q, side)] = <<>>
  /\ queue[q].able.read + queue[q].able.write = usQueueLen
  /\ queue' = [queue EXCEPT ![q] = [Fresh EXCEPT !.used = FALSE]]
  /\ ThenReturn(k)
  /\ UNCHANGED <<out, pool, mails>>

-----------------------------------------------------------------------------

MailList(q) == QueueList(q, "mail")
Mailed(q, n) == mails' = [mails EXCEPT ![q][k.run] = @ + n]

\* Unlike the other waits, this one does not look at the scheduling lock.
osQueueMailAlloc(q, timeout) ==
  /\ Calls("mail")
  /\ queue[q].used
  /\ \/ /\ pool[q] > 0
        /\ pool' = [pool EXCEPT ![q] = @ - 1]
        /\ Mailed(q, 1)
        /\ ThenReturn(k)
     \/ /\ pool[q] = 0
        /\ timeout # "none"
        /\ ThenSchedule(osTaskWait(k, MailList(q), "PEND_QUEUE", timeout = "ticks"),
                        For(MailList(q), None))
        /\ UNCHANGED <<pool, mails>>
  /\ UNCHANGED <<queue, out>>

\* osQueueMailAlloc behind its LOS_Schedule.
MailAllocReturns(q) ==
  /\ Checks(For(MailList(q), None))
  /\ IF TimedOut(k.run) THEN UNCHANGED mails ELSE Mailed(q, 1)
  /\ ThenReturn(Cleared(k))
  /\ UNCHANGED <<queue, out, pool>>

\* The freed block is allocated for the first waiter at once.
osQueueMailFree(q) ==
  LET waiters == k.pend[MailList(q)] IN
  /\ Calls("mail")
  /\ queue[q].used
  /\ mails[q][k.run] > 0
  /\ Mailed(q, -1)
  /\ IF waiters = <<>>
     THEN /\ pool' = [pool EXCEPT ![q] = @ + 1]
          /\ ThenReturn(k)
     ELSE /\ pool' = pool
          /\ ThenSchedule(osTaskWake(k, Head(waiters), "PEND_QUEUE"), None)
  /\ UNCHANGED <<queue, out>>

QueueNext ==
  /\ \E q \in Queue \cap app.handles :
       \/ \E op \in OpOf(app) :
            \/ \E timeout \in app.timeouts : osQueueOperate(q, op, timeout)
            \/ QueueOperateReturns(q, op)
            \/ InterruptOperates(q, op)
       \/ LOS_QueueCreate(q) \/ LOS_QueueDelete(q)
       \/ \E timeout \in app.timeouts : osQueueMailAlloc(q, timeout)
       \/ MailAllocReturns(q)
       \/ osQueueMailFree(q)
  /\ UNCHANGED app

-----------------------------------------------------------------------------

\* The tasks that were woken for a cell and have not used it yet.
Woken(q, side) ==
  Cardinality({t \in Task : \E op \in Op : SideOf(op) = side /\ Granted(t, Pending(q, op))})

CellsAreAccountedFor ==
  "delete" \notin app.calls =>
    \A q \in Queue : queue[q].used =>
      usQueueLen = queue[q].able.read + queue[q].able.write + Woken(q, "read") + Woken(q, "write")

InUse(q) == UNION {{t} \X (1..mails[q][t]) : t \in Task}

BlocksAreAccountedFor ==
  \A q \in Queue :
    Blocks = pool[q] + Cardinality(InUse(q))
               + Cardinality({t \in Task : Granted(t, For(MailList(q), None))})

\* A cell is never lost and never given twice: it is readable, writable, or
\* owned by exactly one task that was woken for it, whatever timeouts meet
\* the hand-over and in whatever order the woken tasks run.  The same holds
\* of mail blocks: free, with a task, or on the way to one.  (A task deleted
\* on its way takes its cell with it.)
QueuesLoseNothing == CellsAreAccountedFor /\ BlocksAreAccountedFor

\* A reader waits only while nothing is readable, a writer only while
\* nothing is writable.
QueueWaitersAreUnable ==
  \A q \in Queue, side \in Side :
    k.pend[QueueList(q, side)] # <<>> => queue[q].used /\ queue[q].able[side] = 0

Contents(q) ==
  [i \in 1..queue[q].able.read + Woken(q, "read") |->
     queue[q].cells[(queue[q].head + i - 1) % usQueueLen]]

Promise(q) == INSTANCE MessageQueue WITH Length <- usQueueLen, messages <- Contents(q), out <- out[q]

\* Whatever the order in which waiting readers and writers come to run, a
\* queue delivers each message once, in the order of the ring, and never
\* holds more than its length.
\* (TLC does not take the conjunction of the specifications.)
QueueIsAMessageQueue ==
  /\ \A q \in Queue : Promise(q)!Init
  /\ [][\A q \in Queue : [Promise(q)!Next]_<<Contents(q), out[q]>>]_<<taskVars, queueVars>>
=============================================================================
