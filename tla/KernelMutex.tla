----------------------------- MODULE KernelMutex -----------------------------
(***************************************************************************)
(* The mutexes of the LiteOS kernel (ipc/los_mux.c): recursive, handed     *)
(* over to the first waiter, with priority inheritance.                    *)
(***************************************************************************)
EXTENDS KernelTasks

CONSTANTS
  Mutex,    \* the mutexes' handles
  MaxNest   \* MaxNest[m]: bound on the nested locks of m

MuxList(m) == <<"mux", m>>
ASSUME MutexAssumption == \A m \in Mutex : MuxList(m) \in PendList /\ MaxNest[m] \in Nat

VARIABLES
  mux,    \* mux[m]: the control block of m
  holds   \* holds[t]: the mutexes the calls of t have locked, oldest first; history

mutexVars == <<mux, holds>>

Free == [used |-> TRUE, count |-> 0, owner |-> None, prio |-> 0]

MutexInit ==
  /\ mux = [m \in Mutex |-> Free]
  /\ holds = [t \in Task |-> <<>>]

OwnedBy(t, n) == [used |-> TRUE, count |-> n, owner |-> t, prio |-> k.prio[t]]
Got(t, m) == holds' = [holds EXCEPT ![t] = Append(@, m)]

LOS_MuxCreate(m) ==
  /\ Calls("life")
  /\ ~mux[m].used
  /\ mux' = [mux EXCEPT ![m] = Free]
  /\ ThenReturn(k)
  /\ UNCHANGED holds

LOS_MuxDelete(m) ==
  /\ Calls("life")
  /\ mux[m].used
  /\ k.pend[MuxList(m)] = <<>>
  /\ mux[m].count = 0
  /\ mux' = [mux EXCEPT ![m].used = FALSE]
  /\ ThenReturn(k)
  /\ UNCHANGED holds

PendFree(m) ==
  /\ mux[m].count = 0
  /\ mux' = [mux EXCEPT ![m] = OwnedBy(k.run, 1)]
  /\ Got(k.run, m)
  /\ ThenReturn(k)

\* Mutant: a nested lock saves the priority again, which may be inherited.
PendAgain_saving(m) ==
  /\ mux[m].count \in 1..MaxNest[m] - 1
  /\ mux[m].owner = k.run
  /\ mux' = [mux EXCEPT ![m] = OwnedBy(k.run, mux[m].count + 1)]
  /\ Got(k.run, m)
  /\ ThenReturn(k)

PendAgain(m) ==
  /\ mux[m].count \in 1..MaxNest[m] - 1
  /\ mux[m].owner = k.run
  /\ mux' = [mux EXCEPT ![m].count = @ + 1]
  /\ Got(k.run, m)
  /\ ThenReturn(k)

\* The owner inherits the priority of a more urgent task that waits.
PendWait(m, timeout) ==
  LET owner == mux[m].owner
      raised == IF k.prio[owner] > k.prio[k.run]
                THEN osTaskPriModify(k, owner, k.prio[k.run]) ELSE k
  IN  /\ mux[m].count > 0
      /\ owner # k.run
      /\ timeout # "none"
      /\ k.lock = 0
      /\ ThenSchedule(osTaskWait(raised, MuxList(m), "PEND", timeout = "ticks"), For(MuxList(m), None))
      /\ UNCHANGED mutexVars

LOS_MuxPend(m, timeout) ==
  /\ Calls("mutex")
  /\ mux[m].used
  /\ PendFree(m) \/ PendAgain(m) \/ PendWait(m, timeout)

\* Mutant: the timeout is not looked at.
MuxPendReturns_untimed(m) ==
  /\ Checks(For(MuxList(m), None))
  /\ Got(k.run, m)
  /\ ThenReturn(Cleared(k))
  /\ UNCHANGED mux

\* LOS_MuxPend behind its LOS_Schedule.
MuxPendReturns(m) ==
  /\ Checks(For(MuxList(m), None))
  /\ IF TimedOut(k.run) THEN UNCHANGED holds ELSE Got(k.run, m)
  /\ ThenReturn(Cleared(k))
  /\ UNCHANGED mux

\* An application that does not say "anyorder" unlocks in the reverse order.
MayUnlock(t, m) == \/ "anyorder" \in app.calls
                   \/ holds[t] # <<>> /\ Last(holds[t]) = m

\* t forgets the newest of its locks of m.
Forget(list, m) ==
  LET i == SelectLastInSeq(list, LAMBDA n : n = m) IN RemoveAt(list, i)

\* The mutex goes to the task that waits longest, which is woken.  Without
\* one there is no LOS_Schedule, although the poster's priority may just
\* have fallen.
LOS_MuxPost(m) ==
  LET t == k.run
      lowered == IF k.prio[t] # mux[m].prio THEN osTaskPriModify(k, t, mux[m].prio) ELSE k
      waiters == lowered.pend[MuxList(m)]
  IN  /\ Calls("mutex")
      /\ mux[m].used
      /\ mux[m].count > 0
      /\ mux[m].owner = t
      /\ MayUnlock(t, m)
      /\ holds' = [holds EXCEPT ![t] = Forget(@, m)]
      /\ IF mux[m].count > 1
         THEN /\ mux' = [mux EXCEPT ![m].count = @ - 1]
              /\ ThenReturn(k)
         ELSE IF waiters = <<>>
         THEN /\ mux' = [mux EXCEPT ![m].count = 0]
              /\ ThenReturn([lowered EXCEPT !.late = @ \/ lowered.prio # k.prio])
         ELSE /\ mux' = [mux EXCEPT ![m] = OwnedBy(Head(waiters), 1)]
              /\ ThenSchedule(osTaskWake(lowered, Head(waiters), "PEND"), None)

MutexNext ==
  /\ \E m \in Mutex \cap app.handles :
       \/ LOS_MuxCreate(m) \/ LOS_MuxDelete(m)
       \/ \E timeout \in app.timeouts : LOS_MuxPend(m, timeout)
       \/ MuxPendReturns(m)
       \/ LOS_MuxPost(m)
  /\ UNCHANGED app

-----------------------------------------------------------------------------

Locks(t, m) == Cardinality({i \in DOMAIN holds[t] : holds[t][i] = m})

\* A mutex is locked by its owner alone, as often as the owner's calls say:
\* a task whose LOS_MuxPend has returned LOS_OK is the owner until it has
\* unlocked, whatever timeouts, hand-overs, suspensions and ticks come in
\* between.  A new owner that has not run yet is the exception: it is to
\* find the mutex granted when its call goes on.
OnlyTheOwnerHolds ==
  \A m \in Mutex :
    /\ \A t \in Task : Locks(t, m) > 0 => mux[m].owner = t /\ mux[m].count = Locks(t, m)
    /\ mux[m].count > 0 =>
         \/ Locks(mux[m].owner, m) > 0
         \/ mux[m].count = 1 /\ Granted(mux[m].owner, For(MuxList(m), None))

\* A task waits for a mutex only while another task owns it.
MutexWaitersHaveAnOwner ==
  \A m \in Mutex : k.pend[MuxList(m)] # <<>> =>
    /\ mux[m].count > 0
    /\ ~OnList(k.pend[MuxList(m)], mux[m].owner)

\* In an application that unlocks in the reverse order and sets no
\* priorities itself, a task without a mutex has the priority it was created
\* with: what it inherited is given back, however the waiters that raised it
\* came and went.  (That it keeps what it inherited as long as the cause lasts
\* does not hold: LOS_MuxPost for an inner mutex takes it back.)
PriorityIsGivenBack ==
  {"anyorder", "priset"} \cap app.calls = {} =>
    \A t \in Task : \/ k.prio[t] = app.prio[t]
                    \/ \E m \in Mutex : mux[m].count > 0 /\ mux[m].owner = t
=============================================================================
