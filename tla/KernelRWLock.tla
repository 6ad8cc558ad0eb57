----------------------------- MODULE KernelRWLock -----------------------------
(***************************************************************************)
(* The read-write locks of the LiteOS kernel (ipc/los_rwlock.c): a reader  *)
(* gives way to a writer that waits, a writer hands over to the next       *)
(* writer and only the last of them to all readers.                        *)
(***************************************************************************)
EXTENDS KernelTasks

CONSTANTS
  RWLock,     \* the locks' handles
  MaxShares   \* bound on the locks a task may have on one of them

ReadList(l) == <<"rwlock", l, "read">>
WriteList(l) == <<"rwlock", l, "write">>
ASSUME RWLockAssumption == \A l \in RWLock : ReadList(l) \in PendList /\ WriteList(l) \in PendList

VARIABLES
  rw,     \* rw[l]: the control block of l
  share   \* share[t][l]: the read and write locks the calls of t have on l; history

rwVars == <<rw, share>>

Unlocked == [used |-> TRUE, readers |-> 0, writes |-> 0, owner |-> None]

RWLockInit ==
  /\ rw = [l \in RWLock |-> Unlocked]
  /\ share = [t \in Task |-> [l \in RWLock |-> [read |-> 0, write |-> 0]]]

Shared(kind, l, n) == share' = [share EXCEPT ![k.run][l][kind] = @ + n]
MayLock(kind, l) == share[k.run][l][kind] < MaxShares

LOS_RWLockCreate(l) ==
  /\ Calls("life")
  /\ ~rw[l].used
  /\ rw' = [rw EXCEPT ![l] = Unlocked]
  /\ ThenReturn(k)
  /\ UNCHANGED share

LOS_RWLockDelete(l) ==
  /\ Calls("life")
  /\ rw[l].used
  /\ k.pend[ReadList(l)] = <<>> /\ k.pend[WriteList(l)] = <<>>
  /\ rw[l].readers = 0 /\ rw[l].writes = 0
  /\ rw' = [rw EXCEPT ![l].used = FALSE]
  /\ ThenReturn(k)
  /\ UNCHANGED share

\* The caller waits in a list of the lock.
RWWait(list, timeout) ==
  /\ timeout # "none"
  /\ k.lock = 0
  /\ ThenSchedule(osTaskWait(k, list, "PEND", timeout = "ticks"), For(list, None))
  /\ UNCHANGED rwVars

CanRead(l) == rw[l].writes = 0 /\ k.pend[WriteList(l)] = <<>>

LOS_RWReadLock(l, timeout) ==
  /\ Calls("rwlock")
  /\ rw[l].used
  /\ MayLock("read", l)
  /\ \/ /\ CanRead(l)
        /\ rw' = [rw EXCEPT ![l].readers = @ + 1]
        /\ Shared("read", l, 1)
        /\ ThenReturn(k)
     \/ ~CanRead(l) /\ RWWait(ReadList(l), timeout)

CanWrite(l) == (rw[l].readers = 0 /\ rw[l].owner = None) \/ rw[l].owner = k.run

\* Whether writers give up waiting is the application's choice.
LOS_RWWriteLock(l, timeout) ==
  /\ Calls("rwlock")
  /\ timeout = "ticks" => "giveup" \in app.calls
  /\ rw[l].used
  /\ MayLock("write", l)
  /\ \/ /\ CanWrite(l)
        /\ rw' = [rw EXCEPT ![l].writes = @ + 1, ![l].owner = k.run]
        /\ Shared("write", l, 1)
        /\ ThenReturn(k)
     \/ ~CanWrite(l) /\ RWWait(WriteList(l), timeout)

\* LOS_RWReadLock and LOS_RWWriteLock behind their LOS_Schedule.
RWLockReturns(kind, l) ==
  /\ Checks(For(<<"rwlock", l, kind>>, None))
  /\ IF TimedOut(k.run) THEN UNCHANGED share ELSE Shared(kind, l, 1)
  /\ ThenReturn(Cleared(k))
  /\ UNCHANGED rw

\* The lock goes to the writer that waits longest.
HandToWriter(l, block) ==
  LET next == Head(k.pend[WriteList(l)]) IN
  /\ rw' = [rw EXCEPT ![l] = [block EXCEPT !.writes = 1, !.owner = next]]
  /\ ThenSchedule(osTaskWake(k, next, "PEND"), None)

LOS_RWReadUnLock(l) ==
  LET left == [rw[l] EXCEPT !.readers = @ - 1] IN
  /\ Calls("rwlock")
  /\ share[k.run][l].read > 0
  /\ Shared("read", l, -1)
  /\ IF left.readers > 0 \/ k.pend[WriteList(l)] = <<>>
     THEN rw' = [rw EXCEPT ![l] = left] /\ ThenReturn(k)
     ELSE HandToWriter(l, left)

LOS_RWWriteUnLock(l) ==
  LET readers == k.pend[ReadList(l)] IN
  /\ Calls("rwlock")
  /\ rw[l].used
  /\ rw[l].writes > 0
  /\ rw[l].owner = k.run
  /\ Shared("write", l, -1)
  /\ IF rw[l].writes > 1
     THEN rw' = [rw EXCEPT ![l].writes = @ - 1] /\ ThenReturn(k)
     ELSE IF k.pend[WriteList(l)] # <<>>
     THEN HandToWriter(l, rw[l])
     ELSE /\ rw' = [rw EXCEPT ![l] = [Unlocked EXCEPT !.readers = @ + Len(readers)]]
          /\ IF readers = <<>>
             THEN ThenReturn(k)
             ELSE ThenSchedule(WakeAll(k, readers, Task, "PEND"), None)

RWLockNext ==
  /\ \E l \in RWLock \cap app.handles :
       \/ LOS_RWLockCreate(l) \/ LOS_RWLockDelete(l)
       \/ \E timeout \in app.timeouts : LOS_RWReadLock(l, timeout) \/ LOS_RWWriteLock(l, timeout)
       \/ \E kind \in {"read", "write"} : RWLockReturns(kind, l)
       \/ LOS_RWReadUnLock(l) \/ LOS_RWWriteUnLock(l)
  /\ UNCHANGED app

-----------------------------------------------------------------------------

\* While a task writes, no other task reads or writes: what the calls have
\* returned is compared, not what the control block says, so a waiter that
\* was granted the lock and runs later is covered.
WritersExclude ==
  \A l \in RWLock, t \in Task : share[t][l].write > 0 =>
    \A u \in Task \ {t} : share[u][l].write = 0 /\ share[u][l].read = 0

\* Where writers never give up, a task waits to read only while a writer has
\* the lock or waits for it: nobody sleeps before a lock that is open.  (A
\* writer that times out leaves the readers behind it waiting although the
\* lock is open: only an unlock by a writer wakes readers.)
NobodyWaitsForAnOpenLock ==
  \A l \in RWLock :
    /\ k.pend[ReadList(l)] # <<>> /\ "giveup" \notin app.calls =>
         rw[l].writes > 0 \/ k.pend[WriteList(l)] # <<>>
    /\ k.pend[WriteList(l)] # <<>> => rw[l].readers > 0 \/ rw[l].owner # None
=============================================================================
