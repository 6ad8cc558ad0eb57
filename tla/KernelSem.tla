------------------------------ MODULE KernelSem ------------------------------
(***************************************************************************)
(* The semaphores of the LiteOS kernel (ipc/los_sem.c): a post goes to the *)
(* first waiter or, without one, to the count; deletion ends every wait.   *)
(***************************************************************************)
EXTENDS KernelTasks

CONSTANTS
  Sem,       \* the semaphores' handles
  MaxCount   \* usMaxSemCount: 1 for a binary semaphore

SemList(s) == <<"sem", s>>
ASSUME SemAssumption == MaxCount \in Nat /\ \A s \in Sem : SemList(s) \in PendList

VARIABLES
  sem,     \* sem[s]: the control block of s
  balance  \* balance[s]: initial count and posts accepted, less pends that returned LOS_OK; history

semVars == <<sem, balance>>

SemInit ==
  \E n \in 0..IF "sem" \in app.calls THEN MaxCount ELSE 0 :
    /\ sem = [s \in Sem |-> [used |-> TRUE, count |-> n]]
    /\ balance = [s \in Sem |-> n]

\* The tasks that were woken by a post and have not returned.
OnTheirWay(s) == Cardinality({t \in Task : Granted(t, For(SemList(s), None))})

\* The handle may still be that of tasks on their way from its last use.
LOS_SemCreate(s, n) ==
  /\ Calls("life")
  /\ ~sem[s].used
  /\ sem' = [sem EXCEPT ![s] = [used |-> TRUE, count |-> n]]
  /\ balance' = [balance EXCEPT ![s] = n + OnTheirWay(s)]
  /\ ThenReturn(k)

\* Every waiter is woken and finds its flag TIMEOUT set.
LOS_SemDelete(s) ==
  LET waiters == k.pend[SemList(s)]
      woken == WakeAll(k, waiters, Task, "PEND")
  IN  /\ Calls("life")
      /\ sem[s].used
      /\ sem' = [sem EXCEPT ![s].used = FALSE]
      /\ ThenSchedule([woken EXCEPT !.status =
                         [t \in AnyTask |-> IF OnList(waiters, t) THEN @[t] \cup {"TIMEOUT"}
                                                                  ELSE @[t]]], None)
      /\ UNCHANGED balance

SemTake(s) ==
  /\ sem[s].count > 0
  /\ sem' = [sem EXCEPT ![s].count = @ - 1]
  /\ balance' = [balance EXCEPT ![s] = @ - 1]
  /\ ThenReturn(k)

SemWait(s, timeout) ==
  /\ sem[s].count = 0
  /\ timeout # "none"
  /\ k.lock = 0
  /\ ThenSchedule(osTaskWait(k, SemList(s), "PEND", timeout = "ticks"),
                  For(SemList(s), None))
  /\ UNCHANGED semVars

LOS_SemPend(s, timeout) ==
  /\ Calls("sem")
  /\ sem[s].used
  /\ SemTake(s) \/ SemWait(s, timeout)

\* Mutant: the timeout is not looked at.
SemPendReturns_untimed(s) ==
  /\ Checks(For(SemList(s), None))
  /\ balance' = [balance EXCEPT ![s] = @ - 1]
  /\ ThenReturn(Cleared(k))
  /\ UNCHANGED sem

\* LOS_SemPend behind its LOS_Schedule.
SemPendReturns(s) ==
  /\ Checks(For(SemList(s), None))
  /\ balance' = IF TimedOut(k.run) THEN balance ELSE [balance EXCEPT ![s] = @ - 1]
  /\ ThenReturn(Cleared(k))
  /\ UNCHANGED sem

\* What a post does; it is refused at the maximum count.
CanPost(s) == sem[s].used /\ sem[s].count # MaxCount
Posted(s) == balance' = [balance EXCEPT ![s] = @ + 1]
PostToCount(s) == /\ k.pend[SemList(s)] = <<>>
                  /\ sem' = [sem EXCEPT ![s].count = @ + 1]
HandedOver(s) == osTaskWake(k, Head(k.pend[SemList(s)]), "PEND")

LOS_SemPost(s) ==
  /\ Calls("sem")
  /\ CanPost(s)
  /\ Posted(s)
  /\ \/ PostToCount(s) /\ ThenReturn(k)
     \/ /\ k.pend[SemList(s)] # <<>>
        /\ ThenSchedule(HandedOver(s), None)
        /\ UNCHANGED sem

\* LOS_SemPost by an interrupt handler.
InterruptPosts(s) ==
  /\ InterruptCalls("sem")
  /\ CanPost(s)
  /\ Posted(s)
  /\ \/ PostToCount(s) /\ UNCHANGED <<k, at, wait>>
     \/ /\ k.pend[SemList(s)] # <<>>
        /\ ThenResume(HandedOver(s))
        /\ UNCHANGED sem

SemNext ==
  /\ \E s \in Sem \cap app.handles :
       \/ \E n \in 0..MaxCount : LOS_SemCreate(s, n)
       \/ LOS_SemDelete(s)
       \/ \E timeout \in app.timeouts : LOS_SemPend(s, timeout)
       \/ SemPendReturns(s)
       \/ LOS_SemPost(s) \/ InterruptPosts(s)
  /\ UNCHANGED app

-----------------------------------------------------------------------------

\* No post is lost and none is used twice: what was posted and not yet taken
\* is in the count or on its way to a task that was woken by a post and has
\* not returned.  A timeout that meets a post in the same tick is the case
\* to get wrong.  (A task deleted on its way takes its post with it.)
EveryPostIsUsedOnce ==
  "delete" \notin app.calls =>
    \A s \in Sem : sem[s].used =>
      balance[s] = sem[s].count + OnTheirWay(s)

\* A task waits for a semaphore only while it exists and its count is zero.
SemWaitersFindNone ==
  \A s \in Sem : k.pend[SemList(s)] # <<>> => sem[s].used /\ sem[s].count = 0
=============================================================================
