------------------------------ MODULE IotQueue ------------------------------
(***************************************************************************)
(* The queue of iot_link (queue.c, sync_mode 1): a ring of pointers whose  *)
(* free and used cells are counted by two semaphores, and a mutex around   *)
(* the ring.  A call is three steps: it pends, changes the ring with the   *)
(* mutex held, and posts; calls of other tasks fall between the steps.     *)
(***************************************************************************)
EXTENDS Naturals, Sequences

CONSTANTS
  Caller,       \* the tasks that push and pop
  Data,         \* what is queued
  msg_buflen    \* 8 for pcp_rcv_queue

ASSUME IotQueueAssumption == msg_buflen \in Nat \ {0} /\ "none" \notin Data

VARIABLES
  queue,        \* queue_t: msg_buf, cur_write, cur_read, msg_num
  sync_read, sync_write,   \* the counts of the semaphores
  call          \* where the queue call of each task is, and the data in its hands

queueVars == <<queue, sync_read, sync_write, call>>

Cells == 0 .. msg_buflen - 1

Idle == [at |-> "none", data |-> "none"]

queue_create ==
  [msg_buf |-> [k \in Cells |-> "none"], cur_write |-> 0, cur_read |-> 0, msg_num |-> 0]

QueueInit == /\ queue = queue_create
             /\ sync_read = 0 /\ sync_write = msg_buflen
             /\ call = [t \in Caller |-> Idle]

-----------------------------------------------------------------------------
\* queue_push.  A pend that times out changes nothing.

PushPends(t, data) ==
  /\ call[t].at = "none"
  /\ sync_write > 0
  /\ sync_write' = sync_write - 1
  /\ call' = [call EXCEPT ![t] = [at |-> "push", data |-> data]]
  /\ UNCHANGED <<queue, sync_read>>

\* Mutant: the position written to does not move before the semaphore is posted.
Pushed_unmoved(data) ==
  [queue EXCEPT !.msg_buf[queue.cur_write] = data, !.msg_num = @ + 1]

Pushed(data) ==
  [queue EXCEPT !.msg_buf[queue.cur_write] = data,
                !.cur_write = (@ + 1) % msg_buflen,
                !.msg_num = @ + 1]

raw_queue_pushdata(t) ==
  /\ call[t].at = "push"
  /\ IF queue.msg_num < msg_buflen
     THEN queue' = Pushed(call[t].data) /\ call' = [call EXCEPT ![t] = [at |-> "pushed", data |-> "none"]]
     ELSE call' = [call EXCEPT ![t] = Idle] /\ UNCHANGED queue
  /\ UNCHANGED <<sync_read, sync_write>>

PushPosts(t) ==
  /\ call[t].at = "pushed"
  /\ sync_read' = sync_read + 1
  /\ call' = [call EXCEPT ![t] = Idle]
  /\ UNCHANGED <<queue, sync_write>>

-----------------------------------------------------------------------------
\* queue_pop

PopPends(t) ==
  /\ call[t].at = "none"
  /\ sync_read > 0
  /\ sync_read' = sync_read - 1
  /\ call' = [call EXCEPT ![t].at = "pop"]
  /\ UNCHANGED <<queue, sync_write>>

raw_queue_pop(t) ==
  /\ call[t].at = "pop"
  /\ IF queue.msg_num > 0
     THEN /\ call' = [call EXCEPT ![t] = [at |-> "popped", data |-> queue.msg_buf[queue.cur_read]]]
          /\ queue' = [queue EXCEPT !.cur_read = (@ + 1) % msg_buflen, !.msg_num = @ - 1]
     ELSE call' = [call EXCEPT ![t] = Idle] /\ UNCHANGED queue
  /\ UNCHANGED <<sync_read, sync_write>>

PopPosts(t) ==
  /\ call[t].at = "popped"
  /\ sync_write' = sync_write + 1
  /\ call' = [call EXCEPT ![t] = Idle]
  /\ UNCHANGED <<queue, sync_read>>

-----------------------------------------------------------------------------
QueueNext == \E t \in Caller :
  \/ \E data \in Data : PushPends(t, data)
  \/ raw_queue_pushdata(t) \/ PushPosts(t)
  \/ PopPends(t) \/ raw_queue_pop(t) \/ PopPosts(t)

\* The messages in the queue, the next one to be read first.
Contents == [k \in 1 .. queue.msg_num |-> queue.msg_buf[(queue.cur_read + k - 1) % msg_buflen]]

Fifo == INSTANCE PacketQueue WITH Packet <- Data, Capacity <- msg_buflen, q <- Contents

\* queue.h:50: a common queue, first in first out: whatever the order in which
\* calls of several tasks pend, enter and post, no message is lost, overwritten
\* or read twice, and a call whose pend succeeded finds its room or its message.
QueueIsFirstInFirstOut ==
  /\ Fifo!Spec
  /\ [][\A t \in Caller :
          /\ raw_queue_pop(t) => call'[t] = [at |-> "popped", data |-> Head(Contents)]
          /\ raw_queue_pushdata(t) => Contents' = Append(Contents, call[t].data)]_queueVars
=============================================================================
