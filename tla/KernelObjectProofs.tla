-------------------------- MODULE KernelObjectProofs --------------------------
(***************************************************************************)
(* Proofs about the objects of the kernel, for every number of tasks,      *)
(* objects, messages and bits.                                             *)
(***************************************************************************)
EXTENDS KernelProofs, FunctionTheorems

-----------------------------------------------------------------------------
(* Who waits, and who was given what it waited for                         *)

\* The arguments with which a task waits in a list, and what it waits for.
Argument(l) ==
  IF \E e \in Event : l = EventList(e) THEN Read
  ELSE IF \E q \in Queue, side \in Side : l = QueueList(q, side) THEN {op \in Op : SideOf(op) = l[3]}
  ELSE {None}
Args(l) == {For(l, a) : a \in Argument(l)}

Waiting(l) == {t \in Task : OnList(k.pend[l], t)}
Awake(t) == Blocking \cap k.status[t] = {} /\ ~TimedOut(t)
Grants(l) == {t \in Task : wait[t] \in Args(l) /\ Awake(t)}
Untimed(l) == \A t \in Waiting(l) : ~TimedOut(t)

\* A task that is in its own code or delayed waits for nothing, and one that is
\* in a list waits for what the list is for.
Parked ==
  /\ \A t \in Task : at[t] = "app" \/ "DELAY" \in k.status[t] => wait[t] = None
  /\ \A l \in PendList, t \in Task : t \in Waiting(l) => wait[t] \in Args(l)

-----------------------------------------------------------------------------
(* The invariants of the objects                                           *)

\* A free mutex is held, granted and waited for by nobody; a locked one has an
\* owner that does not wait for it, and its count says how often the owner's
\* calls have locked it, or that the owner was handed it and has not returned.
MutexOK(m) ==
  /\ mux[m].count = 0 =>
       Grants(MuxList(m)) = {} /\ Waiting(MuxList(m)) = {} /\ \A t \in Task : Locks(t, m) = 0
  /\ mux[m].count > 0 =>
       /\ mux[m].used
       /\ mux[m].owner \notin Waiting(MuxList(m))
       /\ \A t \in Task \ {mux[m].owner} : t \notin Grants(MuxList(m)) /\ Locks(t, m) = 0
       /\ IF mux[m].owner \in Grants(MuxList(m))
          THEN mux[m].count = 1 /\ Locks(mux[m].owner, m) = 0
          ELSE mux[m].count = Locks(mux[m].owner, m)

\* holds lists what each task's calls have locked, the latest last.
MutexInv == holds \in [Task -> Seq(Mutex)] /\ \A m \in Mutex : MutexOK(m)

\* As the kernel's control blocks have it.
Owns(t) == \E m \in Mutex : mux[m].count > 0 /\ mux[m].owner = t

\* What unlocking in reverse order relies on: a task that owns nothing has its
\* own priority, and the mutex it locked first, which is unlocked last, keeps it,
\* also while the mutex is on its way to the task.
Prioritised(t) ==
  /\ ~Owns(t) => k.prio[t] = app.prio[t]
  /\ holds[t] # <<>> => mux[holds[t][1]].prio = app.prio[t]
  /\ holds[t] = <<>> => \A m \in Mutex : t \in Grants(MuxList(m)) => mux[m].prio = app.prio[t]

\* For applications that unlock in reverse order and set no priorities.
PrioInv == {"anyorder", "priset"} \cap app.calls = {} => \A t \in Task : Prioritised(t)

\* What was posted is in the count or on its way, and nobody waits beside a count.
SemOK(s) ==
  /\ sem[s].used => balance[s] = sem[s].count + Cardinality(Grants(SemList(s)))
  /\ Waiting(SemList(s)) # {} => sem[s].used /\ sem[s].count = 0

\* balance counts the posts that were accepted and not yet used.
SemInv ==
  /\ sem \in [Sem -> [used : BOOLEAN, count : Nat]]
  /\ balance \in [Sem -> Int]
  /\ \A s \in Sem : SemOK(s)

\* No reader sleeps on bits that would satisfy it.
EventInv ==
  /\ bits \in [Event -> SUBSET Bit]
  /\ \A e \in Event : \A t \in Waiting(EventList(e)) : ~Satisfied(wait[t][2], bits[e])

\* The control block of a queue and its cells.
QueueBlock == [used : BOOLEAN, cells : [0..usQueueLen - 1 -> Msg \cup {None}],
               head : 0..usQueueLen - 1, tail : 0..usQueueLen - 1, able : [read : Nat, write : Nat]]

\* The tasks that were woken for a cell.
Ready(q, side) == Cardinality(Grants(QueueList(q, side)))

\* Cells are readable, writable or on their way to a task that was woken for one,
\* and a task waits only where there is none.
CellsOK(q) ==
  /\ usQueueLen = queue[q].able.read + queue[q].able.write + Ready(q, "read") + Ready(q, "write")
  /\ ~queue[q].used => queue[q].able.read + queue[q].able.write = usQueueLen
  /\ \A side \in Side : Waiting(QueueList(q, side)) # {} => queue[q].used /\ queue[q].able[side] = 0

\* All queues together.
CellsInv == queue \in [Queue -> QueueBlock] /\ \A q \in Queue : CellsOK(q)

\* Mail blocks are free, in use, or on their way.
BlocksOK(q) ==
  /\ IsFiniteSet(InUse(q))
  /\ Blocks = pool[q] + Cardinality(InUse(q)) + Ready(q, "mail")

\* All pools together; InUse holds what tasks have.
BlocksInv == /\ pool \in [Queue -> Nat]
             /\ mails \in [Queue -> [Task -> Nat]]
             /\ \A q \in Queue : BlocksOK(q)

\* The read locks the calls have returned.
ReadShares(l) == UNION {{t} \X (1..share[t][l].read) : t \in Task}

\* The readers are the returned read locks and those on their way.
ReadersOK(l) ==
  /\ IsFiniteSet(ReadShares(l))
  /\ rw[l].readers = Cardinality(ReadShares(l)) + Cardinality(Grants(ReadList(l)))

\* A lock that is written has one owner, no readers, and counts how often it was
\* locked, as for a mutex.
WriterOK(l) ==
  /\ rw[l].writes = 0 => /\ rw[l].owner = None
                         /\ Grants(WriteList(l)) = {}
                         /\ \A t \in Task : share[t][l].write = 0
  /\ rw[l].writes > 0 =>
       /\ rw[l].owner \in Task
       /\ rw[l].readers = 0
       /\ \A t \in Task \ {rw[l].owner} : t \notin Grants(WriteList(l)) /\ share[t][l].write = 0
       /\ IF rw[l].owner \in Grants(WriteList(l))
          THEN rw[l].writes = 1 /\ share[rw[l].owner][l].write = 0
          ELSE rw[l].writes = share[rw[l].owner][l].write

\* Nobody waits for an open lock.  A reader may also wait behind a writer, which
\* helps only if writers wait for ever: one that gives up wakes no reader.
LockWaitersOK(l) ==
  /\ ~rw[l].used => rw[l].readers = 0 /\ rw[l].writes = 0
  /\ Waiting(WriteList(l)) # {} => rw[l].readers > 0 \/ rw[l].writes > 0
  /\ "giveup" \notin app.calls =>
       /\ Untimed(WriteList(l))
       /\ Waiting(ReadList(l)) # {} => rw[l].writes > 0 \/ Waiting(WriteList(l)) # {}

\* The three together, for one lock,
RWOK(l) == ReadersOK(l) /\ WriterOK(l) /\ LockWaitersOK(l)

\* and for all.
RWInv ==
  /\ share \in [Task -> [RWLock -> [read : Nat, write : Nat]]]
  /\ rw \in [RWLock -> [used : BOOLEAN, readers : Nat, writes : Nat, owner : Task \cup {None}]]
  /\ \A l \in RWLock : RWOK(l)

\* The inductive invariant: what each kind of object keeps, and that who waits is
\* in the list of what he waits for, which all of them rely on.
ObjectsInv == /\ ~k.fault /\ Parked
              /\ MutexInv /\ PrioInv /\ SemInv /\ EventInv /\ CellsInv /\ BlocksInv /\ RWInv

-----------------------------------------------------------------------------
(* What a step does to those who wait                                      *)

\* What a task in each list waits for.
LEMMA ArgsOf ==
  /\ \A m \in Mutex : Args(MuxList(m)) = {For(MuxList(m), None)}
  /\ \A s \in Sem : Args(SemList(s)) = {For(SemList(s), None)}
  /\ \A e \in Event : Args(EventList(e)) = {For(EventList(e), r) : r \in Read}
  /\ \A q \in Queue : /\ Args(MailList(q)) = {For(MailList(q), None)}
                       /\ \A side \in Side : Args(QueueList(q, side)) =
                            {For(QueueList(q, side), op) : op \in {o \in Op : SideOf(o) = side}}
  /\ \A l \in RWLock : /\ Args(ReadList(l)) = {For(ReadList(l), None)}
                        /\ Args(WriteList(l)) = {For(WriteList(l), None)}
<1>1. ASSUME NEW m \in Mutex PROVE Args(MuxList(m)) = {For(MuxList(m), None)}
  BY DEF Args, Argument, MuxList, EventList, QueueList
<1>2. ASSUME NEW s \in Sem PROVE Args(SemList(s)) = {For(SemList(s), None)}
  BY DEF Args, Argument, SemList, EventList, QueueList
<1>3. ASSUME NEW e \in Event PROVE Args(EventList(e)) = {For(EventList(e), r) : r \in Read}
  BY DEF Args, Argument
<1>4. ASSUME NEW q \in Queue PROVE Args(MailList(q)) = {For(MailList(q), None)}
  BY DEF Args, Argument, MailList, EventList, QueueList, Side
<1>5. ASSUME NEW q \in Queue, NEW side \in Side
      PROVE  Args(QueueList(q, side)) = {For(QueueList(q, side), op) : op \in {o \in Op : SideOf(o) = side}}
  <2>1. QueueList(q, side)[3] = side /\ \A e \in Event : QueueList(q, side) # EventList(e)
    BY DEF QueueList, EventList
  <2>2. Argument(QueueList(q, side)) = {o \in Op : SideOf(o) = side}
    BY <2>1 DEF Argument
  <2> QED
    BY <2>2 DEF Args
<1>6. ASSUME NEW l \in RWLock PROVE /\ Args(ReadList(l)) = {For(ReadList(l), None)}
                                    /\ Args(WriteList(l)) = {For(WriteList(l), None)}
  BY DEF Args, Argument, ReadList, WriteList, EventList, QueueList
<1> QED
  BY <1>1, <1>2, <1>3, <1>4, <1>5, <1>6

\* A task waits for one list, and None is no list.
LEMMA OneList ==
  /\ \A l \in PendList : None \notin Args(l)
  /\ \A l, m \in PendList : \A w \in Args(l) : w \in Args(m) => l = m
<1>1. ASSUME NEW l \in PendList PROVE None \notin Args(l)
  <2>1. CASE \E e \in Event : l = EventList(e)
    BY <2>1, EventAssumption, ArgsOf
  <2>2. CASE \E q \in Queue, side \in Side : l = QueueList(q, side)
    <3>1. PICK q \in Queue, side \in Side : l = QueueList(q, side)
      BY <2>2
    <3>2. ASSUME NEW op \in Op, SideOf(op) = side PROVE For(l, op) # None
      BY <3>1, <3>2, QueueAssumption DEF Pending
    <3>3. Args(l) = {For(l, op) : op \in {o \in Op : SideOf(o) = side}}
      BY <3>1, ArgsOf
    <3> QED
      BY <3>2, <3>3
  <2>3. CASE ~(\E e \in Event : l = EventList(e)) /\ ~(\E q \in Queue, side \in Side : l = QueueList(q, side))
    BY <2>3, WaitAssumption DEF Args, Argument
  <2> QED
    BY <2>1, <2>2, <2>3
<1>2. ASSUME NEW l \in PendList, NEW m \in PendList, NEW w \in Args(l), w \in Args(m) PROVE l = m
  BY <1>2 DEF Args, For
<1> QED
  BY <1>1, <1>2

\* A list a step is not about: nobody joins it, and who leaves it has timed out.
Still(l) ==
  /\ Waiting(l)' \subseteq Waiting(l)
  /\ Grants(l)' = Grants(l)
  /\ \A t \in Waiting(l)' : wait'[t] = wait[t]
  /\ Untimed(l) => Waiting(l)' = Waiting(l) /\ Untimed(l)'

\* The tasks of D leave l with what they waited for; the calls of those in c are over.
Handed(l, D, c) ==
  /\ Waiting(l)' = Waiting(l) \ D
  /\ Grants(l)' = (Grants(l) \cup D) \ c
  /\ \A t \in Waiting(l)' : wait'[t] = wait[t]
  /\ Untimed(l) => Untimed(l)'

\* t joins l.
Joined(l, t, w, timed) ==
  /\ t \notin Waiting(l)
  /\ Waiting(l)' = Waiting(l) \cup {t}
  /\ Grants(l)' = Grants(l)
  /\ \A u \in Waiting(l) : wait'[u] = wait[u]
  /\ wait'[t] = w
  /\ Untimed(l) /\ ~timed => Untimed(l)'

\* A list nobody leaves and of which no caller is from stays as it is.
LEMMA NobodyLeaves ==
  ASSUME NEW l, NEW c, Handed(l, {}, c), \A t \in c : t \notin Grants(l)
  PROVE  Still(l)
<1>1. Grants(l)' = Grants(l) /\ Waiting(l)' = Waiting(l)
  BY DEF Handed
<1> QED
  BY <1>1 DEF Handed, Still

\* The flags of a task that waits, and of one that was woken.
LEMMA WaitersFlags ==
  ASSUME Links(k), NEW l \in PendList, NEW t \in Task, t \in Waiting(l)
  PROVE  /\ FlagOf(l) \in k.status[t] /\ FlagOf(l) \in Blocking
         /\ k.status[t] \cap Blocking = {FlagOf(l)}
         /\ "READY" \notin k.status[t]
         /\ ~Awake(t)
<1>1. FlagOf(l) \in k.status[t] /\ StatusOK(k.status[t])
  BY DEF Waiting, Links, PendOK, StatusesOK, AnyTask
<1>2. FlagOf(l) \in Blocking
  BY DEF FlagOf, Blocking
<1>3. k.status[t] \cap Blocking = {FlagOf(l)} /\ "READY" \notin k.status[t]
  BY <1>1, <1>2 DEF StatusOK, Blocking
<1> QED
  BY <1>1, <1>2, <1>3 DEF Awake

\* A step that wakes D, which waits in l, and ends the calls of c.
LEMMA MoveEffect ==
  ASSUME Links(k), Parked, NEW l \in PendList, NEW D, D \subseteq Waiting(l), NEW c, c \subseteq Task,
         \A t \in c : \A m \in PendList : t \notin Waiting(m),
         \A t \in c : "DELAY" \notin k'.status[t] /\ wait'[t] = None,
         \A t \in Task : t \notin c => at'[t] = at[t] /\ wait'[t] = wait[t],
         \A t \in Task : t \notin c /\ t \notin D => k'.status[t] = k.status[t],
         \A t \in D : k'.status[t] = Woke(k.status[t], {FlagOf(l), "TIMEOUT"}),
         \A m \in PendList, t \in Task : OnList(k'.pend[m], t) <=> OnList(k.pend[m], t) /\ t \notin D
  PROVE  Parked' /\ Handed(l, D, c) /\ \A m \in PendList : m # l => Handed(m, {}, c)
<1>1. \A m \in PendList : Waiting(m)' = Waiting(m) \ D
  BY DEF Waiting
<1>2. \A t \in D : t \in Task /\ t \in Waiting(l) /\ wait[t] \in Args(l) /\ t \notin c
  BY DEF Waiting, Parked
<1>3. \A m \in PendList : m # l => Waiting(m)' = Waiting(m)
  <2>1. ASSUME NEW m \in PendList, m # l, NEW t \in D PROVE t \notin Waiting(m)
    BY <1>2, <2>1 DEF Waiting, Links, PendOK
  <2> QED
    BY <1>1, <2>1
<1>4. \A t \in D : Awake(t)' /\ ~Awake(t) /\ "DELAY" \notin k'.status[t]
  <2>1. ASSUME NEW t \in D PROVE Awake(t)' /\ ~Awake(t) /\ "DELAY" \notin k'.status[t]
    <3>1. /\ k.status[t] \cap Blocking = {FlagOf(l)} /\ ~Awake(t)
          /\ k'.status[t] = Woke(k.status[t], {FlagOf(l), "TIMEOUT"})
      BY <1>2, WaitersFlags
    <3>2. k'.status[t] \cap Blocking = {} /\ "TIMEOUT" \notin k'.status[t]
      BY <3>1 DEF Woke, Blocking
    <3> QED
      BY <3>1, <3>2 DEF Awake, TimedOut, Blocking
  <2> QED
    BY <2>1
<1>5. \A t \in Task : t \notin c /\ t \notin D => (Awake(t)' <=> Awake(t))
  BY DEF Awake, TimedOut
<1>6. Parked'
  <2>1. ASSUME NEW t \in Task, at'[t] = "app" \/ "DELAY" \in k'.status[t]
        PROVE  wait'[t] = None
    <3>1. CASE t \in c
      BY <3>1
    <3>2. CASE t \in D
      BY <1>2, <1>4, <2>1, <3>2 DEF Parked
    <3>3. CASE t \notin c /\ t \notin D
      BY <2>1, <3>3 DEF Parked
    <3> QED
      BY <3>1, <3>2, <3>3
  <2>2. ASSUME NEW m \in PendList, NEW t \in Task, t \in Waiting(m)'
        PROVE  wait'[t] \in Args(m)
    <3>1. t \in Waiting(m) /\ t \notin c
      BY <1>1, <2>2
    <3> QED
      BY <3>1 DEF Parked
  <2> QED
    BY <2>1, <2>2 DEF Parked, Args, Argument
<1>7. \A m \in PendList : Grants(m)' = {t \in Task : t \notin c /\ wait[t] \in Args(m) /\ (t \in D \/ Awake(t))}
  <2>1. ASSUME NEW m \in PendList, NEW t \in Task
        PROVE  wait'[t] \in Args(m) /\ Awake(t)'
                 <=> t \notin c /\ wait[t] \in Args(m) /\ (t \in D \/ Awake(t))
    <3>1. CASE t \in c
      BY <3>1, OneList
    <3>2. CASE t \notin c
      BY <1>4, <1>5, <3>2
    <3> QED
      BY <3>1, <3>2
  <2> QED
    BY <2>1 DEF Grants, Args, Argument
<1>8. \A m \in PendList : Grants(m)' = IF m = l THEN (Grants(m) \cup D) \ c ELSE Grants(m) \ c
  <2>1. ASSUME NEW m \in PendList, NEW t \in D, wait[t] \in Args(m) PROVE m = l
    BY <1>2, <2>1, OneList
  <2> QED
    BY <1>2, <1>7, <2>1 DEF Grants
<1>9. \A m \in PendList : /\ \A t \in Waiting(m)' : wait'[t] = wait[t]
                          /\ Untimed(m) => Untimed(m)'
  <2>1. ASSUME NEW m \in PendList, NEW t \in Waiting(m)'
        PROVE  t \in Waiting(m) /\ wait'[t] = wait[t] /\ (~TimedOut(t) => ~TimedOut(t)')
    <3>1. t \in Task /\ t \in Waiting(m) /\ t \notin D /\ t \notin c
      BY <1>1 DEF Waiting
    <3> QED
      BY <3>1 DEF TimedOut
  <2> QED
    BY <2>1 DEF Untimed
<1> QED
  BY <1>1, <1>3, <1>6, <1>8, <1>9 DEF Handed

\* A step with which t joins l.
LEMMA JoinEffect ==
  ASSUME Links(k), Parked, NEW l \in PendList, NEW t \in Task, at[t] = "app",
         \A m \in PendList : t \notin Waiting(m),
         NEW w \in Args(l), NEW timed, at'[t] # "app", wait'[t] = w,
         \A u \in Task : u # t => at'[u] = at[u] /\ wait'[u] = wait[u] /\ k'.status[u] = k.status[u],
         "DELAY" \notin k'.status[t], FlagOf(l) \in k'.status[t],
         ~timed => "TIMEOUT" \notin k'.status[t],
         \A m \in PendList, u \in Task : OnList(k'.pend[m], u) <=> OnList(k.pend[m], u) \/ (m = l /\ u = t)
  PROVE  Parked' /\ Joined(l, t, w, timed) /\ \A m \in PendList : m # l => Still(m)
<1>1. \A m \in PendList : Waiting(m)' = IF m = l THEN Waiting(m) \cup {t} ELSE Waiting(m)
  BY DEF Waiting
<1>2. ~Awake(t)' /\ wait[t] = None
  <2>1. FlagOf(l) \in Blocking
    BY DEF FlagOf, Blocking
  <2> QED
    BY <2>1 DEF Awake, Parked, Blocking
<1>3. \A u \in Task : u # t => (Awake(u)' <=> Awake(u)) /\ (TimedOut(u)' <=> TimedOut(u))
  BY DEF Awake, TimedOut
<1>4. \A m \in PendList : Grants(m)' = Grants(m)
  <2>1. ASSUME NEW m \in PendList, NEW u \in Task
        PROVE  wait'[u] \in Args(m) /\ Awake(u)' <=> wait[u] \in Args(m) /\ Awake(u)
    BY <1>2, <1>3, OneList
  <2> QED
    BY <2>1 DEF Grants, Args, Argument
<1>5. Parked'
  <2>1. ASSUME NEW u \in Task, at'[u] = "app" \/ "DELAY" \in k'.status[u]
        PROVE  wait'[u] = None
    BY <2>1 DEF Parked
  <2>2. ASSUME NEW m \in PendList, NEW u \in Task, u \in Waiting(m)'
        PROVE  wait'[u] \in Args(m)
    BY <1>1, <2>2 DEF Parked
  <2> QED
    BY <2>1, <2>2 DEF Parked, Args, Argument
<1>6. \A m \in PendList : m # l => Still(m)
  <2>1. ASSUME NEW m \in PendList, m # l PROVE Still(m)
    <3>1. Waiting(m)' = Waiting(m) /\ \A u \in Waiting(m) : u \in Task /\ u # t
      BY <1>1, <2>1 DEF Waiting
    <3>2. Untimed(m) => Untimed(m)'
      BY <1>3, <3>1 DEF Untimed
    <3> QED
      BY <1>4, <3>1, <3>2 DEF Still
  <2> QED
    BY <2>1
<1>7. Untimed(l) /\ ~timed => Untimed(l)'
  <2>1. ASSUME Untimed(l), ~timed, NEW u \in Waiting(l)' PROVE ~TimedOut(u)'
    <3>1. u \in Task /\ (u = t \/ u \in Waiting(l))
      BY <1>1 DEF Waiting
    <3>2. CASE u = t
      BY <2>1, <3>2 DEF TimedOut
    <3>3. CASE u # t
      BY <1>3, <2>1, <3>1, <3>3 DEF Untimed
    <3> QED
      BY <3>2, <3>3
  <2> QED
    BY <2>1 DEF Untimed
<1> QED
  BY <1>1, <1>4, <1>5, <1>6, <1>7 DEF Joined, Waiting

\* A step that gives nothing to anybody; from the lists outside X only tasks go that
\* have timed out.
LEMMA QuietEffect ==
  ASSUME Links(k), Parked, NEW X, \A t \in Task : wait'[t] = wait[t],
         \A t \in Task : at'[t] = "app" \/ "DELAY" \in k'.status[t] => wait[t] = None,
         \A t \in Task : wait[t] # None => (Awake(t)' <=> Awake(t)),
         \A m \in PendList, t \in Task : OnList(k'.pend[m], t) => OnList(k.pend[m], t),
         \A m \in PendList, t \in Task :
           m \notin X /\ t \in Waiting(m) /\ ~TimedOut(t) => t \in Waiting(m)' /\ ~TimedOut(t)'
  PROVE  /\ Parked' /\ \A m \in PendList : m \notin X => Still(m)
         /\ \A m \in PendList : Grants(m)' = Grants(m)
<1>1. \A m \in PendList : Waiting(m)' \subseteq Waiting(m)
  BY DEF Waiting
<1>2. \A m \in PendList : Grants(m)' = Grants(m)
  <2>1. ASSUME NEW m \in PendList, NEW t \in Task
        PROVE  wait'[t] \in Args(m) /\ Awake(t)' <=> wait[t] \in Args(m) /\ Awake(t)
    BY OneList
  <2> QED
    BY <2>1 DEF Grants, Args, Argument
<1>3. \A m \in PendList : m \notin X /\ Untimed(m) => Waiting(m)' = Waiting(m) /\ Untimed(m)'
  <2>1. ASSUME NEW m \in PendList, m \notin X, Untimed(m) PROVE Waiting(m)' = Waiting(m) /\ Untimed(m)'
    <3>1. \A t \in Waiting(m) : t \in Task /\ t \in Waiting(m)' /\ ~TimedOut(t)'
      BY <2>1 DEF Untimed, Waiting
    <3> QED
      BY <1>1, <3>1 DEF Untimed
  <2> QED
    BY <2>1
<1>4. Parked'
  <2>1. ASSUME NEW m \in PendList, NEW t \in Task, t \in Waiting(m)' PROVE wait'[t] \in Args(m)
    BY <1>1, <2>1 DEF Parked
  <2> QED
    BY <2>1 DEF Parked, Args, Argument
<1>5. \A m \in PendList : \A t \in Waiting(m)' : wait'[t] = wait[t]
  BY DEF Waiting
<1> QED
  BY <1>1, <1>2, <1>3, <1>4, <1>5 DEF Still

\* The running task is in no list and is not delayed; in its own code it has been
\* given nothing, and behind a wait for w it has been given w or has timed out.
LEMMA RunnersFacts ==
  ASSUME TasksInv, Parked, Running
  PROVE  /\ Links(k) /\ k.run \in Task /\ "READY" \in k.status[k.run]
         /\ k.status[k.run] \cap Blocking = {}
         /\ \A m \in PendList : k.run \notin Waiting(m)
         /\ at[k.run] = "app" => /\ wait[k.run] = None /\ ~TimedOut(k.run)
                                 /\ \A m \in PendList : k.run \notin Grants(m)
         /\ \A l \in PendList : wait[k.run] \in Args(l) =>
              /\ k.run \in Grants(l) <=> ~TimedOut(k.run)
              /\ \A m \in PendList : m # l => k.run \notin Grants(m)
<1>1. Links(k) /\ k.run \in Task /\ "READY" \in k.status[k.run] /\ k.run \in AnyTask
  BY RunningFacts DEF Running
<1>2. k.status[k.run] \cap Blocking = {}
  <2>1. StatusOK(k.status[k.run])
    BY <1>1 DEF Links, StatusesOK
  <2> QED
    BY <1>1, <2>1 DEF StatusOK, Blocking
<1>3. \A m \in PendList : k.run \notin Waiting(m)
  BY <1>1, WaitersFlags
<1>4. at[k.run] = "app" => ~TimedOut(k.run) /\ wait[k.run] = None
  BY <1>1, RunningFacts DEF TimedOut, Waits, Parked
<1>5. \A m \in PendList : k.run \in Grants(m) <=> wait[k.run] \in Args(m) /\ ~TimedOut(k.run)
  BY <1>1, <1>2 DEF Grants, Awake
<1> QED
  BY <1>1, <1>2, <1>3, <1>4, <1>5, OneList

\* Who has been given nothing leaves nothing when its call is over.
LEMMA OnlyGiven ==
  ASSUME NEW l, NEW D, NEW c, Handed(l, D, c), \A t \in c : t \notin Grants(l) /\ t \notin D
  PROVE  Handed(l, D, {})
BY DEF Handed

\* A call that returns with the tasks as they were, but for the flag TIMEOUT of the caller.
LEMMA ReturnEffect ==
  ASSUME TasksInv, Parked, Running, NEW l \in PendList, NEW s, s.pend = k.pend,
         \A t \in Task : t # k.run => s.status[t] = k.status[t],
         "DELAY" \notin s.status[k.run], ThenReturn(s)
  PROVE  Parked' /\ \A m \in PendList : Handed(m, {}, {k.run})
<1>1. k' = s /\ at' = [at EXCEPT ![k.run] = "app"] /\ wait' = [wait EXCEPT ![k.run] = None]
  BY DEF ThenReturn
<1>2. /\ at \in [Task -> {"app", "sched", "check"}] /\ wait = [t \in Task |-> wait[t]]
      /\ Links(k) /\ k.run \in Task /\ \A m \in PendList : k.run \notin Waiting(m)
  BY RunnersFacts DEF TasksInv
<1>3. /\ wait'[k.run] = None
      /\ \A t \in Task : t # k.run => at'[t] = at[t] /\ wait'[t] = wait[t]
  BY <1>1, <1>2
<1> DEFINE c == {k.run}
<1>4. /\ c \subseteq Task
      /\ \A t \in c : \A m \in PendList : t \notin Waiting(m)
      /\ \A t \in c : "DELAY" \notin k'.status[t] /\ wait'[t] = None
      /\ \A t \in Task : t \notin c => at'[t] = at[t] /\ wait'[t] = wait[t]
      /\ \A t \in Task : t \notin c /\ t \notin {} => k'.status[t] = k.status[t]
      /\ \A m \in PendList, t \in Task : OnList(k'.pend[m], t) <=> OnList(k.pend[m], t) /\ t \notin {}
  BY <1>1, <1>2, <1>3
<1> HIDE DEF c
<1>5. Parked' /\ Handed(l, {}, c) /\ \A m \in PendList : m # l => Handed(m, {}, c)
  <2>1. PICK D : D = {}
    OBVIOUS
  <2>2. /\ D \subseteq Waiting(l)
        /\ \A t \in Task : t \notin c /\ t \notin D => k'.status[t] = k.status[t]
        /\ \A t \in D : k'.status[t] = Woke(k.status[t], {FlagOf(l), "TIMEOUT"})
        /\ \A m \in PendList, t \in Task : OnList(k'.pend[m], t) <=> OnList(k.pend[m], t) /\ t \notin D
    BY <1>4, <2>1
  <2>3. Parked' /\ Handed(l, D, c) /\ \A m \in PendList : m # l => Handed(m, {}, c)
    BY <1>2, <1>4, <2>2, MoveEffect
  <2> QED
    BY <2>1, <2>3
<1> QED
  BY <1>5 DEF c

\* A call that wakes D, which waits in l, and goes on to LOS_Schedule; s is k, or k
\* with another priority.
LEMMA WokenEffect ==
  ASSUME TasksInv, Parked, Running, NEW s, s.status = k.status, s.pend = k.pend,
         NEW l \in PendList, NEW D, D \subseteq Waiting(l),
         NEW r, WokenSpec(r, s, l, D), ThenSchedule(r, None)
  PROVE  Parked' /\ Handed(l, D, {k.run}) /\ \A m \in PendList : m # l => Handed(m, {}, {k.run})
<1>1. k' = r /\ at' = [at EXCEPT ![k.run] = "sched"] /\ wait' = [wait EXCEPT ![k.run] = None]
  BY DEF ThenSchedule
<1>2. /\ at \in [Task -> {"app", "sched", "check"}] /\ wait = [t \in Task |-> wait[t]]
      /\ Links(k) /\ k.run \in Task /\ \A m \in PendList : k.run \notin Waiting(m)
      /\ k.status[k.run] \cap Blocking = {}
  BY RunnersFacts DEF TasksInv
<1>3. /\ wait'[k.run] = None
      /\ \A t \in Task : t # k.run => at'[t] = at[t] /\ wait'[t] = wait[t]
  BY <1>1, <1>2
<1>4. /\ \A t \in Task : t \notin D => r.status[t] = k.status[t]
      /\ \A t \in D : r.status[t] = Woke(k.status[t], {FlagOf(l), "TIMEOUT"})
      /\ \A m \in PendList, t \in Task : OnList(r.pend[m], t) <=> OnList(k.pend[m], t) /\ t \notin D
  BY DEF WokenSpec, AnyTask, Waiting
<1> DEFINE c == {k.run}
<1>5. /\ c \subseteq Task
      /\ \A t \in c : \A m \in PendList : t \notin Waiting(m)
      /\ \A t \in c : "DELAY" \notin k'.status[t] /\ wait'[t] = None
      /\ \A t \in Task : t \notin c => at'[t] = at[t] /\ wait'[t] = wait[t]
      /\ \A t \in Task : t \notin c /\ t \notin D => k'.status[t] = k.status[t]
      /\ \A t \in D : k'.status[t] = Woke(k.status[t], {FlagOf(l), "TIMEOUT"})
      /\ \A m \in PendList, t \in Task : OnList(k'.pend[m], t) <=> OnList(k.pend[m], t) /\ t \notin D
  <2>1. k.run \notin D /\ r.status[k.run] = k.status[k.run]
    BY <1>2, <1>4
  <2>2. "DELAY" \notin k'.status[k.run]
    BY <1>1, <1>2, <2>1 DEF Blocking
  <2>3. /\ c \subseteq Task
        /\ \A t \in c : \A m \in PendList : t \notin Waiting(m)
        /\ \A t \in c : "DELAY" \notin k'.status[t] /\ wait'[t] = None
        /\ \A t \in Task : t \notin c => at'[t] = at[t] /\ wait'[t] = wait[t]
    BY <1>2, <1>3, <2>2
  <2> HIDE DEF c
  <2>4. /\ \A t \in Task : t \notin c /\ t \notin D => k'.status[t] = k.status[t]
        /\ \A t \in D : k'.status[t] = Woke(k.status[t], {FlagOf(l), "TIMEOUT"})
    BY <1>1, <1>4
  <2>5. \A m \in PendList, t \in Task : OnList(k'.pend[m], t) <=> OnList(k.pend[m], t) /\ t \notin D
    BY <1>1, <1>4
  <2> QED
    BY <2>3, <2>4, <2>5
<1> HIDE DEF c
<1>6. Parked' /\ Handed(l, D, c) /\ \A m \in PendList : m # l => Handed(m, {}, c)
  BY <1>2, <1>5, MoveEffect
<1> QED
  BY <1>6 DEF c

\* An interrupt handler that wakes D.
LEMMA ResumeEffect ==
  ASSUME TasksInv, Parked, NEW l \in PendList, NEW D, D \subseteq Waiting(l),
         NEW r, WokenSpec(r, k, l, D), ThenResume(r)
  PROVE  Parked' /\ Handed(l, D, {}) /\ (\A m \in PendList : m # l => Handed(m, {}, {})) /\ k'.prio = k.prio
<1>1. /\ at' = at /\ wait' = wait /\ k'.status = r.status /\ k'.pend = r.pend /\ k'.prio = k.prio
  <2>1. r \in KState /\ r.prio = k.prio /\ k' = [r EXCEPT !.late = TRUE] /\ at' = at /\ wait' = wait
    BY DEF ThenResume, WokenSpec, Links
  <2>2. PICK x : x = k'
    OBVIOUS
  <2>3. x.status = r.status /\ x.pend = r.pend /\ x.prio = r.prio
    BY <2>1, <2>2 DEF KState
  <2> QED
    BY <2>1, <2>2, <2>3
<1>2. Links(k)
  BY DEF TasksInv
<1>3. /\ \A t \in Task : t \notin D => k'.status[t] = k.status[t]
      /\ \A t \in D : k'.status[t] = Woke(k.status[t], {FlagOf(l), "TIMEOUT"})
      /\ \A m \in PendList, t \in Task : OnList(k'.pend[m], t) <=> OnList(k.pend[m], t) /\ t \notin D
  BY <1>1 DEF WokenSpec, AnyTask, Waiting
<1>4. PICK c : c = {}
  OBVIOUS
<1>6. /\ c \subseteq Task
      /\ \A t \in c : \A m \in PendList : t \notin Waiting(m)
      /\ \A t \in c : "DELAY" \notin k'.status[t] /\ wait'[t] = None
      /\ \A t \in Task : t \notin c => at'[t] = at[t] /\ wait'[t] = wait[t]
      /\ \A t \in Task : t \notin c /\ t \notin D => k'.status[t] = k.status[t]
  BY <1>1, <1>3, <1>4
<1>5. Parked' /\ Handed(l, D, c) /\ \A m \in PendList : m # l => Handed(m, {}, c)
  BY <1>2, <1>3, <1>6, MoveEffect
<1> QED
  BY <1>1, <1>4, <1>5

\* The caller waits for w in l; s is k, or k with another priority.
LEMMA WaitEffect ==
  ASSUME TasksInv, Parked, Running, at[k.run] = "app",
         NEW s, Links(s), s.status = k.status, s.pend = k.pend, SameRun(s, k),
         NEW l \in PendList, NEW timed, NEW w \in Args(l),
         ThenSchedule(osTaskWait(s, l, FlagOf(l), timed), w)
  PROVE  /\ Parked' /\ Joined(l, k.run, w, timed) /\ \A m \in PendList : m # l => Still(m)
         /\ k'.prio = s.prio
<1> DEFINE t == k.run
           r == osTaskWait(s, l, FlagOf(l), timed)
<1>1. t = k.run /\ r = osTaskWait(s, l, FlagOf(l), timed) /\ ThenSchedule(r, w)
  OBVIOUS
<1> HIDE DEF t, r
<1>2. k' = r /\ at' = [at EXCEPT ![t] = "sched"] /\ wait' = [wait EXCEPT ![t] = w]
  BY <1>1 DEF ThenSchedule
<1>3. /\ at \in [Task -> {"app", "sched", "check"}] /\ wait = [u \in Task |-> wait[u]]
      /\ Links(k) /\ t \in Task /\ t \in AnyTask /\ \A m \in PendList : t \notin Waiting(m)
      /\ k.status[t] \cap Blocking = {} /\ "TIMEOUT" \notin k.status[t]
  BY <1>1, RunnersFacts DEF TasksInv, AnyTask, TimedOut
<1>4. /\ wait'[t] = w /\ at'[t] # "app"
      /\ \A u \in Task : u # t => at'[u] = at[u] /\ wait'[u] = wait[u]
  BY <1>2, <1>3
<1>5. FlagOf(l) \in {"PEND", "PEND_QUEUE"} /\ FlagOf(l) \in Blocking
  BY DEF FlagOf, Blocking
<1>6. WaitSpec(r, s, t, l, FlagOf(l), timed)
  <2>1. s \in KState /\ t = s.run
    BY <1>1 DEF Links, SameRun
  <2> QED
    BY <1>1, <1>3, <1>5, <2>1, WaitFields
<1>7. /\ r.status[t] = (k.status[t] \ {"READY"}) \cup {FlagOf(l)} \cup (IF timed THEN {"TIMEOUT"} ELSE {})
      /\ \A u \in Task : u # t => r.status[u] = k.status[u]
      /\ r.prio = s.prio
  BY <1>3, <1>6 DEF WaitSpec, Links, KState, AnyTask
<1>8. \A m \in PendList, u \in Task : OnList(r.pend[m], u) <=> OnList(k.pend[m], u) \/ (m = l /\ u = t)
  <2>1. r.pend = [k.pend EXCEPT ![l] = Append(k.pend[l], t)] /\ k.pend \in [PendList -> Seq(Task)]
    BY <1>3, <1>6 DEF WaitSpec, Links, KState
  <2>2. ASSUME NEW u \in Task PROVE OnList(Append(k.pend[l], t), u) <=> OnList(k.pend[l], u) \/ u = t
    <3>1. k.pend[l] \in Seq(Task) /\ Distinct(k.pend[l]) /\ ~OnList(k.pend[l], t)
      BY <1>3, <2>1 DEF Links, PendOK, Waiting
    <3> QED
      BY <1>3, <3>1, AppendList
  <2> QED
    BY <2>1, <2>2
<1>9. /\ "DELAY" \notin k'.status[t] /\ FlagOf(l) \in k'.status[t]
      /\ ~timed => "TIMEOUT" \notin k'.status[t]
  BY <1>2, <1>3, <1>5, <1>7 DEF Blocking
<1>10. at[t] = "app" /\ \A u \in Task : u # t => k'.status[u] = k.status[u]
  BY <1>1, <1>2, <1>7
<1>11. \A m \in PendList, u \in Task : OnList(k'.pend[m], u) <=> OnList(k.pend[m], u) \/ (m = l /\ u = t)
  BY <1>2, <1>8
<1>12. Parked' /\ Joined(l, t, w, timed) /\ \A m \in PendList : m # l => Still(m)
  BY <1>3, <1>4, <1>9, <1>10, <1>11, JoinEffect
<1> QED
  BY <1>1, <1>2, <1>7, <1>12

\* After a step that is about the lists X alone.
After(X) == Parked' /\ k'.fault = k.fault /\ \A m \in PendList : m \notin X => Still(m)

\* The running task, in its own code or behind a wait.
LEMMA CallersRun ==
  /\ \A f : Calls(f) => Running /\ at[k.run] = "app"
  /\ \A w : Checks(w) => Running /\ at[k.run] = "check" /\ wait[k.run] = w
BY DEF Calls, Checks, Running

\* A call that leaves the tasks as they are.
LEMMA CallReturnsEffect ==
  ASSUME TasksInv, Parked, NEW f, Calls(f), NEW l \in PendList, ThenReturn(k)
  PROVE  After({}) /\ k'.prio = k.prio
<1>1. /\ Running /\ at[k.run] = "app" /\ k.status[k.run] \cap Blocking = {}
      /\ \A m \in PendList : k.run \notin Grants(m)
  BY CallersRun, RunnersFacts
<1>2. k' = k
  BY DEF ThenReturn
<1>3. "DELAY" \notin k.status[k.run]
  BY <1>1 DEF Blocking
<1>4. Parked' /\ \A m \in PendList : Handed(m, {}, {k.run})
  BY <1>1, <1>3, ReturnEffect
<1>5. \A m \in PendList : Still(m)
  BY <1>1, <1>4, NobodyLeaves
<1> QED
  BY <1>2, <1>4, <1>5 DEF After

\* A call that returns behind its wait for w in l: what it was given, if it has not
\* timed out, is its own now.
LEMMA CheckReturnsEffect ==
  ASSUME TasksInv, Parked, NEW l \in PendList, NEW w \in Args(l), Checks(w),
         ThenReturn(k) \/ ThenReturn(Cleared(k))
  PROVE  /\ After({l}) /\ Handed(l, {}, {k.run}) /\ k'.prio = k.prio
         /\ k.run \in Task /\ k.run \notin Waiting(l)
         /\ k.run \in Grants(l) <=> ~TimedOut(k.run)
<1>1. /\ Running /\ k.status[k.run] \cap Blocking = {} /\ Links(k) /\ k.run \in Task /\ k.run \in AnyTask
      /\ \A m \in PendList : m # l => k.run \notin Grants(m)
      /\ k.run \in Grants(l) <=> ~TimedOut(k.run)
      /\ k.run \notin Waiting(l)
  BY CallersRun, RunnersFacts DEF AnyTask
<1>2. PICK s : ThenReturn(s) /\ s \in {k, Cleared(k)}
  OBVIOUS
<1>3. /\ s.pend = k.pend /\ s.prio = k.prio /\ s.fault = k.fault
      /\ \A t \in Task : t # k.run => s.status[t] = k.status[t]
      /\ s.status[k.run] \subseteq k.status[k.run]
  <2>1. k \in KState /\ k.run \in AnyTask
    BY <1>1 DEF Links
  <2>2. CASE s = k
    BY <2>2
  <2>3. CASE s = Cleared(k)
    BY <2>1, <2>3 DEF Cleared, KState, AnyTask
  <2> QED
    BY <1>2, <2>2, <2>3
<1>4. "DELAY" \notin s.status[k.run]
  BY <1>1, <1>3 DEF Blocking
<1>5. Parked' /\ \A m \in PendList : Handed(m, {}, {k.run})
  BY <1>1, <1>2, <1>3, <1>4, ReturnEffect
<1>6. \A m \in PendList : m \notin {l} => Still(m)
  BY <1>1, <1>5, NobodyLeaves
<1>7. k' = s
  BY <1>2 DEF ThenReturn
<1> QED
  BY <1>1, <1>3, <1>5, <1>6, <1>7 DEF After

\* A call that waits in l.
LEMMA CallWaitsEffect ==
  ASSUME TasksInv, Parked, NEW f, Calls(f), NEW l \in PendList, NEW timed, NEW w \in Args(l),
         ThenSchedule(osTaskWait(k, l, FlagOf(l), timed), w)
  PROVE  /\ After({l}) /\ Joined(l, k.run, w, timed) /\ k'.prio = k.prio
         /\ k.run \in Task /\ \A m \in PendList : k.run \notin Grants(m)
<1>1. Running /\ at[k.run] = "app" /\ Links(k) /\ SameRun(k, k) /\ k.run \in Task
  BY CallersRun DEF TasksInv, SameRun, Running
<1>2. /\ Parked' /\ Joined(l, k.run, w, timed) /\ \A m \in PendList : m # l => Still(m)
      /\ k'.prio = k.prio
  BY <1>1, WaitEffect
<1>3. k'.fault = k.fault
  <2>1. k.run = k.run /\ k \in KState /\ FlagOf(l) \in Blocking
    BY <1>1 DEF Links, FlagOf, Blocking
  <2>2. WaitSpec(osTaskWait(k, l, FlagOf(l), timed), k, k.run, l, FlagOf(l), timed)
    BY <1>1, <2>1, WaitFields
  <2> QED
    BY <2>2 DEF WaitSpec, SameRun, ThenSchedule
<1> QED
  BY <1>1, <1>2, <1>3, RunnersFacts DEF After

\* A call that wakes the tasks of D, which wait in l.
LEMMA CallWokenEffect ==
  ASSUME TasksInv, Parked, NEW f, Calls(f), NEW s, s.status = k.status, s.pend = k.pend, s.fault = k.fault,
         NEW l \in PendList, NEW D, D \subseteq Waiting(l),
         NEW r, WokenSpec(r, s, l, D), ThenSchedule(r, None)
  PROVE  /\ After({l}) /\ Handed(l, D, {}) /\ k'.prio = s.prio
         /\ k.run \in Task /\ k.run \notin D /\ \A m \in PendList : k.run \notin Grants(m)
<1>1. /\ Running /\ k.run \in Task /\ \A m \in PendList : k.run \notin Grants(m) /\ k.run \notin Waiting(m)
  BY CallersRun, RunnersFacts
<1>2. Parked' /\ Handed(l, D, {k.run}) /\ \A m \in PendList : m # l => Handed(m, {}, {k.run})
  BY <1>1, WokenEffect
<1>3. Handed(l, D, {})
  BY <1>1, <1>2, OnlyGiven
<1>4. \A m \in PendList : m \notin {l} => Still(m)
  BY <1>1, <1>2, NobodyLeaves
<1>5. k'.prio = s.prio /\ k'.fault = k.fault
  BY DEF ThenSchedule, WokenSpec, SameRun
<1> QED
  BY <1>1, <1>2, <1>3, <1>4, <1>5 DEF After

\* A call that gives what the head of l waits for to it.
LEMMA CallHandsOverEffect ==
  ASSUME TasksInv, Parked, NEW f, Calls(f), NEW l \in PendList, k.pend[l] # <<>>,
         ThenSchedule(osTaskWake(k, Head(k.pend[l]), FlagOf(l)), None)
  PROVE  /\ After({l}) /\ k'.prio = k.prio
         /\ k.run \in Task /\ \A m \in PendList : k.run \notin Grants(m)
         /\ \E h \in Waiting(l) : h = Head(k.pend[l]) /\ h # k.run /\ Handed(l, {h}, {})
<1>1. Links(k)
  BY DEF TasksInv
<1>2. PICK h : h = Head(k.pend[l])
  OBVIOUS
<1>3. h \in Task /\ OnList(k.pend[l], h) /\ h \in Waiting(l)
  BY <1>1, <1>2, FirstWaits DEF Waiting
<1>4. PICK r : r = osTaskWake(k, h, FlagOf(l)) /\ ThenSchedule(r, None)
  BY <1>2
<1>5. WokenSpec(r, k, l, {h})
  BY <1>1, <1>3, <1>4, WakeOne
<1>6. PICK D : D = {h}
  OBVIOUS
<1>7. /\ After({l}) /\ Handed(l, D, {}) /\ k'.prio = k.prio
      /\ k.run \in Task /\ k.run \notin D /\ \A m \in PendList : k.run \notin Grants(m)
  <2>1. D \subseteq Waiting(l) /\ WokenSpec(r, k, l, D)
    BY <1>3, <1>5, <1>6
  <2> QED
    BY <1>4, <2>1, CallWokenEffect
<1> QED
  BY <1>2, <1>3, <1>6, <1>7

\* An interrupt handler that does.
LEMMA InterruptHandsOverEffect ==
  ASSUME TasksInv, Parked, NEW l \in PendList, k.pend[l] # <<>>,
         ThenResume(osTaskWake(k, Head(k.pend[l]), FlagOf(l)))
  PROVE  /\ After({l}) /\ k'.prio = k.prio
         /\ \E h \in Waiting(l) : h = Head(k.pend[l]) /\ Handed(l, {h}, {})
<1>1. Links(k)
  BY DEF TasksInv
<1>2. PICK h : h = Head(k.pend[l])
  OBVIOUS
<1>3. h \in Task /\ OnList(k.pend[l], h) /\ h \in Waiting(l)
  BY <1>1, <1>2, FirstWaits DEF Waiting
<1>4. PICK r : r = osTaskWake(k, h, FlagOf(l)) /\ ThenResume(r)
  BY <1>2
<1>5. WokenSpec(r, k, l, {h})
  BY <1>1, <1>3, <1>4, WakeOne
<1>6. PICK D : D = {h}
  OBVIOUS
<1>7. Parked' /\ Handed(l, D, {}) /\ (\A m \in PendList : m # l => Handed(m, {}, {})) /\ k'.prio = k.prio
  <2>1. D \subseteq Waiting(l) /\ WokenSpec(r, k, l, D)
    BY <1>3, <1>5, <1>6
  <2> QED
    BY <1>4, <2>1, ResumeEffect
<1>8. \A m \in PendList : m \notin {l} => Still(m)
  BY <1>7, NobodyLeaves
<1>9. k'.fault = k.fault
  BY <1>4, <1>5 DEF ThenResume, WokenSpec, SameRun, Links, KState
<1> QED
  BY <1>2, <1>3, <1>6, <1>7, <1>8, <1>9 DEF After

\* A call that wakes those of l that are in who.
LEMMA CallWakesEffect ==
  ASSUME TasksInv, Parked, NEW f, Calls(f), NEW l \in PendList, NEW who,
         ThenSchedule(WakeAll(k, k.pend[l], who, FlagOf(l)), None)
  PROVE  /\ After({l}) /\ k'.prio = k.prio
         /\ k.run \in Task /\ \A m \in PendList : k.run \notin Grants(m)
         /\ Handed(l, {t \in Waiting(l) : t \in who}, {})
<1>1. Links(k)
  BY DEF TasksInv
<1>2. PICK D : D = {t \in Task : t \in who /\ OnList(k.pend[l], t)}
  OBVIOUS
<1>3. PICK r : r = WakeAll(k, k.pend[l], who, FlagOf(l)) /\ ThenSchedule(r, None)
  OBVIOUS
<1>4. WokenSpec(r, k, l, D)
  BY <1>1, <1>2, <1>3, WakeAllSpec
<1>5. D = {t \in Waiting(l) : t \in who} /\ D \subseteq Waiting(l)
  BY <1>2 DEF Waiting
<1>6. /\ After({l}) /\ Handed(l, D, {}) /\ k'.prio = k.prio
      /\ k.run \in Task /\ k.run \notin D /\ \A m \in PendList : k.run \notin Grants(m)
  BY <1>3, <1>4, <1>5, CallWokenEffect
<1> QED
  BY <1>5, <1>6

\* An interrupt handler that does.
LEMMA InterruptWakesEffect ==
  ASSUME TasksInv, Parked, NEW l \in PendList, NEW who,
         ThenResume(WakeAll(k, k.pend[l], who, FlagOf(l)))
  PROVE  /\ After({l}) /\ k'.prio = k.prio
         /\ Handed(l, {t \in Waiting(l) : t \in who}, {})
<1>1. Links(k)
  BY DEF TasksInv
<1>2. PICK D : D = {t \in Task : t \in who /\ OnList(k.pend[l], t)}
  OBVIOUS
<1>3. PICK r : r = WakeAll(k, k.pend[l], who, FlagOf(l)) /\ ThenResume(r)
  OBVIOUS
<1>4. WokenSpec(r, k, l, D)
  BY <1>1, <1>2, <1>3, WakeAllSpec
<1>5. D = {t \in Waiting(l) : t \in who} /\ D \subseteq Waiting(l)
  BY <1>2 DEF Waiting
<1>6. Parked' /\ Handed(l, D, {}) /\ (\A m \in PendList : m # l => Handed(m, {}, {})) /\ k'.prio = k.prio
  BY <1>3, <1>4, <1>5, ResumeEffect
<1>7. \A m \in PendList : m \notin {l} => Still(m)
  BY <1>6, NobodyLeaves
<1>8. k'.fault = k.fault
  BY <1>3, <1>4 DEF ThenResume, WokenSpec, SameRun, Links, KState
<1> QED
  BY <1>5, <1>6, <1>7, <1>8 DEF After

\* A call that goes on behind its wait for w in l, where it was given w, and hands
\* over to the head of o.
LEMMA CheckHandsOverEffect ==
  ASSUME TasksInv, Parked, NEW l \in PendList, NEW w \in Args(l), Checks(w),
         NEW o \in PendList, o # l, k.pend[o] # <<>>,
         ThenSchedule(osTaskWake(k, Head(k.pend[o]), FlagOf(o)), None)
  PROVE  /\ After({l, o}) /\ k'.prio = k.prio
         /\ k.run \in Task /\ k.run \notin Waiting(l) /\ Handed(l, {}, {k.run})
         /\ k.run \in Grants(l) <=> ~TimedOut(k.run)
         /\ \E h \in Waiting(o) : h = Head(k.pend[o]) /\ Handed(o, {h}, {})
<1>1. /\ Running /\ k.run \in Task /\ Links(k)
      /\ \A m \in PendList : m # l => k.run \notin Grants(m)
      /\ k.run \in Grants(l) <=> ~TimedOut(k.run)
      /\ \A m \in PendList : k.run \notin Waiting(m)
  BY CallersRun, RunnersFacts
<1>2. PICK h : h = Head(k.pend[o])
  OBVIOUS
<1>3. h \in Task /\ OnList(k.pend[o], h) /\ h \in Waiting(o)
  BY <1>1, <1>2, FirstWaits DEF Waiting
<1>4. PICK r : r = osTaskWake(k, h, FlagOf(o)) /\ ThenSchedule(r, None)
  BY <1>2
<1>5. WokenSpec(r, k, o, {h})
  BY <1>1, <1>3, <1>4, WakeOne
<1>6. PICK D : D = {h}
  OBVIOUS
<1>7. Parked' /\ Handed(o, D, {k.run}) /\ \A m \in PendList : m # o => Handed(m, {}, {k.run})
  <2>1. D \subseteq Waiting(o) /\ WokenSpec(r, k, o, D)
    BY <1>3, <1>5, <1>6
  <2> QED
    BY <1>1, <1>4, <2>1, WokenEffect
<1>8. Handed(o, D, {}) /\ Handed(l, {}, {k.run})
  BY <1>1, <1>3, <1>6, <1>7, OnlyGiven
<1>9. \A m \in PendList : m \notin {l, o} => Still(m)
  BY <1>1, <1>7, NobodyLeaves
<1>10. k'.prio = k.prio /\ k'.fault = k.fault
  BY <1>4, <1>5 DEF ThenSchedule, WokenSpec, SameRun
<1> QED
  BY <1>1, <1>2, <1>3, <1>6, <1>7, <1>8, <1>9, <1>10 DEF After

\* The deletion of a semaphore: nobody waits for it any more, and who did was given nothing.
LEMMA SemDeleteEffect ==
  ASSUME TasksInv, Parked, NEW s \in Sem, LOS_SemDelete(s)
  PROVE  /\ After({SemList(s)}) /\ k'.prio = k.prio
         /\ Waiting(SemList(s))' = {} /\ Grants(SemList(s))' = Grants(SemList(s))
<1> DEFINE l == SemList(s)
           waiters == k.pend[l]
           woken == WakeAll(k, waiters, Task, "PEND")
           status == [t \in AnyTask |-> IF OnList(waiters, t) THEN woken.status[t] \cup {"TIMEOUT"}
                                                              ELSE woken.status[t]]
           r == [woken EXCEPT !.status = status]
           D == {t \in Task : t \in Task /\ OnList(k.pend[l], t)}
<1>1. Running /\ at[k.run] = "app" /\ ThenSchedule(r, None)
  BY DEF LOS_SemDelete, Calls, Running
<1>2. l \in PendList /\ FlagOf(l) = "PEND"
  BY FlagsOfLists
<1>3. /\ Links(k) /\ k.run \in Task /\ k.status[k.run] \cap Blocking = {} /\ wait[k.run] = None
      /\ at \in [Task -> {"app", "sched", "check"}] /\ wait = [t \in Task |-> wait[t]]
  BY <1>1, RunnersFacts DEF TasksInv
<1>4. WokenSpec(woken, k, l, D)
  <2>1. woken = WakeAll(k, k.pend[l], Task, FlagOf(l))
    BY <1>2
  <2> HIDE DEF woken, l
  <2> QED
    BY <1>2, <1>3, <2>1, WakeAllSpec
<1>5. D = Waiting(l) /\ waiters = k.pend[l] /\ SemList(s) = l
  BY DEF Waiting
<1>6. status = [t \in AnyTask |-> IF OnList(waiters, t) THEN woken.status[t] \cup {"TIMEOUT"}
                                                        ELSE woken.status[t]]
  OBVIOUS
<1>7. r = [woken EXCEPT !.status = status]
  OBVIOUS
<1> HIDE DEF l, waiters, woken, status, r, D
<1>8. /\ woken \in KState /\ woken.prio = k.prio /\ woken.fault = k.fault
      /\ \A t \in Task : t \notin D => woken.status[t] = k.status[t]
      /\ \A t \in Task : t \in D => woken.status[t] = Woke(k.status[t], {FlagOf(l), "TIMEOUT"})
      /\ \A m \in PendList, t \in Task : OnList(woken.pend[m], t) <=> OnList(k.pend[m], t) /\ t \notin D
  BY <1>4 DEF WokenSpec, Links, SameRun, AnyTask
<1>9. r.status = status /\ r.pend = woken.pend /\ r.prio = woken.prio /\ r.fault = woken.fault
  BY <1>7, <1>8 DEF KState
<1>10. \A t \in Task : /\ t \notin D => r.status[t] = k.status[t]
                       /\ t \in D => r.status[t] = Woke(k.status[t], {FlagOf(l), "TIMEOUT"}) \cup {"TIMEOUT"}
  <2>1. \A t \in Task : OnList(waiters, t) <=> t \in D
    BY <1>5 DEF Waiting
  <2>2. \A t \in Task : r.status[t] = IF OnList(waiters, t) THEN woken.status[t] \cup {"TIMEOUT"}
                                                            ELSE woken.status[t]
    BY <1>6, <1>9 DEF AnyTask
  <2> QED
    BY <1>8, <2>1, <2>2
<1>11. k' = r /\ at' = [at EXCEPT ![k.run] = "sched"] /\ wait' = [wait EXCEPT ![k.run] = None]
  BY <1>1 DEF ThenSchedule
<1>12. /\ \A t \in Task : wait'[t] = wait[t]
       /\ at'[k.run] = "sched" /\ \A t \in Task : t # k.run => at'[t] = at[t]
  BY <1>3, <1>11
<1>13. \A t \in Task : t \in D => /\ ~Awake(t) /\ ~Awake(t)' /\ "DELAY" \notin r.status[t]
  <2>1. ASSUME NEW t \in Task, t \in D
        PROVE  ~Awake(t) /\ ~Awake(t)' /\ "DELAY" \notin r.status[t]
    <3>1. ~Awake(t) /\ k.status[t] \cap Blocking = {FlagOf(l)}
      BY <1>2, <1>3, <1>5, <2>1, WaitersFlags
    <3>2. "TIMEOUT" \in r.status[t] /\ "DELAY" \notin r.status[t]
      BY <1>2, <1>10, <2>1, <3>1 DEF Woke, Blocking
    <3> QED
      BY <1>11, <3>1, <3>2 DEF Awake, TimedOut
  <2> QED
    BY <2>1
<1>14. \A t \in Task : t \notin D => (Awake(t)' <=> Awake(t)) /\ (TimedOut(t)' <=> TimedOut(t))
  BY <1>10, <1>11 DEF Awake, TimedOut
<1>15. \A t \in Task : at'[t] = "app" \/ "DELAY" \in k'.status[t] => wait[t] = None
  <2>1. ASSUME NEW t \in Task, at'[t] = "app" \/ "DELAY" \in k'.status[t] PROVE wait[t] = None
    <3>1. CASE t = k.run
      BY <1>3, <3>1
    <3>2. CASE t # k.run
      <4>1. at[t] = "app" \/ "DELAY" \in k.status[t]
        BY <1>10, <1>11, <1>12, <1>13, <2>1, <3>2
      <4> QED
        BY <4>1 DEF Parked
    <3> QED
      BY <3>1, <3>2
  <2> QED
    BY <2>1
<1>16. \A m \in PendList, t \in Task : OnList(k'.pend[m], t) <=> OnList(k.pend[m], t) /\ t \notin D
  BY <1>8, <1>9, <1>11
<1>17. \A m \in PendList, t \in Task :
         m \notin {l} /\ t \in Waiting(m) /\ ~TimedOut(t) => t \in Waiting(m)' /\ ~TimedOut(t)'
  <2>1. ASSUME NEW m \in PendList, NEW t \in Task, m # l, t \in Waiting(m), ~TimedOut(t)
        PROVE  t \in Waiting(m)' /\ ~TimedOut(t)'
    <3>1. t \notin D
      BY <1>2, <1>3, <1>5, <2>1 DEF Waiting, Links, PendOK
    <3> QED
      BY <1>14, <1>16, <2>1, <3>1 DEF Waiting
  <2> QED
    BY <2>1
<1>18. /\ Parked' /\ \A m \in PendList : m \notin {l} => Still(m)
       /\ \A m \in PendList : Grants(m)' = Grants(m)
  <2>1. PICK X : X = {l}
    OBVIOUS
  <2>2. \A t \in Task : wait[t] # None => (Awake(t)' <=> Awake(t))
    BY <1>13, <1>14
  <2>3. \A m \in PendList, t \in Task : OnList(k'.pend[m], t) => OnList(k.pend[m], t)
    BY <1>16
  <2>4. \A m \in PendList, t \in Task :
         m \notin X /\ t \in Waiting(m) /\ ~TimedOut(t) => t \in Waiting(m)' /\ ~TimedOut(t)'
    BY <1>17, <2>1
  <2>5. /\ Parked' /\ \A m \in PendList : m \notin X => Still(m)
        /\ \A m \in PendList : Grants(m)' = Grants(m)
    BY <1>3, <1>12, <1>15, <2>2, <2>3, <2>4, QuietEffect
  <2> QED
    BY <2>1, <2>5
<1>19. Waiting(l)' = {}
  BY <1>2, <1>5, <1>16 DEF Waiting
<1>20. k'.prio = k.prio /\ k'.fault = k.fault
  BY <1>8, <1>9, <1>11
<1> QED
  BY <1>2, <1>5, <1>18, <1>19, <1>20 DEF After

-----------------------------------------------------------------------------
(* The calls of the task layer give nothing to anybody                     *)

Told(f) == f \cap (Blocking \cup {"TIMEOUT"})

\* A step that changes neither the lists nor the flags a wait is told by.
LEMMA SameWaits ==
  ASSUME Links(k), Parked, k'.pend = k.pend, k'.fault = k.fault,
         \A t \in Task : wait'[t] = wait[t],
         \A t \in Task : Told(k'.status[t]) = Told(k.status[t]),
         \A t \in Task : at'[t] = "app" => wait[t] = None
  PROVE  After({})
<1>1. PICK X : X = {}
  OBVIOUS
<1>2. \A t \in Task : /\ Awake(t)' <=> Awake(t)
                      /\ TimedOut(t)' <=> TimedOut(t)
                      /\ "DELAY" \in k'.status[t] <=> "DELAY" \in k.status[t]
  <2>1. ASSUME NEW t \in Task
        PROVE  \A f \in Blocking \cup {"TIMEOUT"} : f \in k'.status[t] <=> f \in k.status[t]
    BY DEF Told
  <2> QED
    BY <2>1 DEF Awake, TimedOut, Blocking
<1>3. \A t \in Task : at'[t] = "app" \/ "DELAY" \in k'.status[t] => wait[t] = None
  BY <1>2 DEF Parked
<1>4. \A m \in PendList, t \in Task : OnList(k'.pend[m], t) => OnList(k.pend[m], t)
  OBVIOUS
<1>5. \A m \in PendList, t \in Task :
        m \notin X /\ t \in Waiting(m) /\ ~TimedOut(t) => t \in Waiting(m)' /\ ~TimedOut(t)'
  BY <1>2 DEF Waiting
<1>6. \A t \in Task : wait[t] # None => (Awake(t)' <=> Awake(t))
  BY <1>2
<1>7. Parked' /\ \A m \in PendList : m \notin X => Still(m)
  BY <1>3, <1>4, <1>5, <1>6, QuietEffect
<1> QED
  BY <1>1, <1>7 DEF After

\* A call of the running task that does not.
LEMMA CallKeepsWaits ==
  ASSUME TasksInv, Parked, NEW f, Calls(f), NEW s, s.pend = k.pend, s.fault = k.fault,
         \A t \in Task : Told(s.status[t]) = Told(k.status[t]),
         ThenSchedule(s, None) \/ ThenReturn(s)
  PROVE  After({}) /\ k' = s
<1>1. /\ k.run \in Task /\ Links(k) /\ wait[k.run] = None
      /\ at \in [Task -> {"app", "sched", "check"}] /\ wait = [t \in Task |-> wait[t]]
  BY CallersRun, RunnersFacts DEF TasksInv
<1>2. k' = s /\ wait' = [wait EXCEPT ![k.run] = None] /\ \E x : at' = [at EXCEPT ![k.run] = x]
  BY DEF ThenSchedule, ThenReturn
<1>3. \A t \in Task : wait'[t] = wait[t]
  BY <1>1, <1>2
<1>4. \A t \in Task : at'[t] = "app" => wait[t] = None
  BY <1>1, <1>2 DEF Parked
<1> QED
  BY <1>1, <1>2, <1>3, <1>4, SameWaits

\* The task that goes behind the others of its priority stays in its lists.
LEMMA RotatedFields ==
  ASSUME NEW s, Links(s), NEW t, t = s.run, "READY" \in s.status[t], NEW r, r = Rotated(s)
  PROVE  Links(r) /\ r.status = s.status /\ r.pend = s.pend /\ r.prio = s.prio /\ SameRun(r, s)
<1>1. PICK d : d = osPriqueueDequeue(s, t)
  OBVIOUS
<1>2. s \in KState /\ t \in AnyTask
  BY DEF Links, KState
<1>3. DequeueSpec(d, s, t)
  BY <1>1, <1>2, DequeueFields
<1>4. r = osPriqueueEnqueue(d, t) /\ d \in KState
  BY <1>1, <1>3 DEF Rotated, DequeueSpec
<1>5. EnqueueSpec(r, d, t)
  BY <1>2, <1>4, EnqueueFields
<1>6. Links(r) /\ r.status = s.status /\ SameRun(r, s)
  BY RotatedLinks
<1> QED
  BY <1>3, <1>5, <1>6 DEF DequeueSpec, EnqueueSpec

\* The switch that LOS_Schedule decided on moves nobody between lists
\* (los_dispatch.S).
LEMMA RescheduleQuiet ==
  ASSUME TasksInv, Parked, Reschedule
  PROVE  After({}) /\ k'.prio = k.prio
<1>1. /\ k.run \in Task /\ k' = LOS_Schedule(k) /\ wait' = wait
      /\ at' = [at EXCEPT ![k.run] = IF wait[k.run] = None THEN "app" ELSE "check"]
  BY DEF Reschedule
<1>2. Links(k) /\ at \in [Task -> {"app", "sched", "check"}]
  BY DEF TasksInv
<1>3. Scheduled(k', k)
  BY <1>1, <1>2, ScheduleLinks
<1>4. k'.pend = k.pend /\ k'.fault = k.fault /\ k'.status = k.status /\ k'.prio = k.prio
  BY <1>3 DEF Scheduled
<1>5. \A t \in Task : at'[t] = "app" => wait[t] = None
  BY <1>1, <1>2 DEF Parked
<1> QED
  BY <1>1, <1>2, <1>4, <1>5, SameWaits

\* Nor does the end of a time slice (los_timeslice.c).
LEMMA TimesliceQuiet ==
  ASSUME TasksInv, Parked, osTimesliceCheck
  PROVE  After({}) /\ k'.prio = k.prio
<1>1. Links(k) /\ "READY" \in k.status[k.run] /\ k' = LOS_Schedule(Rotated(k)) /\ at' = at /\ wait' = wait
  BY DEF osTimesliceCheck, CanYield, TasksInv
<1>2. PICK s : s = Rotated(k)
  OBVIOUS
<1>3. Links(s) /\ s.status = k.status /\ s.pend = k.pend /\ s.prio = k.prio /\ s.fault = k.fault
  BY <1>1, <1>2, RotatedFields DEF SameRun
<1>4. Scheduled(k', s)
  BY <1>1, <1>2, <1>3, ScheduleLinks
<1>5. k'.pend = k.pend /\ k'.fault = k.fault /\ k'.status = k.status /\ k'.prio = k.prio
  BY <1>3, <1>4 DEF Scheduled
<1> QED
  BY <1>1, <1>5, SameWaits DEF Parked

\* The tick ends the wait of a delayed task, or of one that waits with a timeout:
\* its flag TIMEOUT says that it was given nothing.
LEMMA TickQuiet ==
  ASSUME TasksInv, Parked, TickEndsWait
  PROVE  After({}) /\ k'.prio = k.prio
<1>1. PICK t \in k.timers : k' = osTaskScan(k, t) /\ at' = at /\ wait' = wait
  BY DEF TickEndsWait
<1>2. Links(k) /\ k \in KState /\ t \in Task /\ t \in AnyTask
  BY DEF TasksInv, Links, KState, AnyTask
<1>3. PICK s : s = Resumed(k, t, Blocking)
  OBVIOUS
<1>4. StatusOK(k.status[t]) /\ ("DELAY" \in k.status[t] \/ (InList(k.status[t]) /\ "TIMEOUT" \in k.status[t]))
  BY <1>2 DEF Links, StatusesOK, TimersOK
<1>5. k.status[t] \cap Blocking \cap Blocking # {} /\ Blocking \in SUBSET (Blocking \cup {"TIMEOUT"})
      /\ "SUSPEND" \notin Blocking
  BY <1>4 DEF Blocking, InList
<1>6. Links(s) /\ \A m \in PendList, u \in Task : OnList(s.pend[m], u) <=> u # t /\ OnList(k.pend[m], u)
  BY <1>2, <1>3, <1>5, ResumedLinks
<1>7. ResumedSpec(s, k, t, Blocking)
  BY <1>2, <1>3, <1>5, ResumedFields
<1>8. /\ s.prio = k.prio /\ s.fault = k.fault
      /\ s.status[t] = Woke(k.status[t], Blocking)
      /\ \A u \in Task : u # t => s.status[u] = k.status[u]
  BY <1>2, <1>7 DEF ResumedSpec, SameRun, KState, AnyTask
<1>9. k'.status = s.status /\ k'.pend = s.pend /\ k'.prio = s.prio /\ k'.fault = s.fault
  <2>1. k' = s \/ k' = LOS_Schedule(s)
    BY <1>1, <1>3 DEF osTaskScan
  <2>2. CASE k' = LOS_Schedule(s)
    BY <1>6, <2>2, ScheduleLinks DEF Scheduled
  <2> QED
    BY <2>1, <2>2
<1>10. \A u \in Task : wait[u] # None => (Awake(u)' <=> Awake(u))
  <2>1. ASSUME NEW u \in Task, u # t PROVE Awake(u)' <=> Awake(u)
    BY <1>8, <1>9, <2>1 DEF Awake, TimedOut
  <2>2. ASSUME wait[t] # None PROVE ~Awake(t)' /\ ~Awake(t)
    <3>1. "DELAY" \notin k.status[t]
      BY <1>2, <2>2 DEF Parked
    <3>2. "TIMEOUT" \in k.status[t] /\ "TIMEOUT" \in k'.status[t]
      BY <1>4, <1>8, <1>9, <3>1 DEF Woke, Blocking
    <3> QED
      BY <3>2 DEF Awake, TimedOut
  <2> QED
    BY <2>1, <2>2
<1>11. \A u \in Task : at'[u] = "app" \/ "DELAY" \in k'.status[u] => wait[u] = None
  <2>1. \A u \in Task : "DELAY" \in k'.status[u] => "DELAY" \in k.status[u]
    BY <1>8, <1>9 DEF Woke, Blocking
  <2> QED
    BY <1>1, <2>1 DEF Parked
<1>12. \A m \in PendList, u \in Task : OnList(k'.pend[m], u) => OnList(k.pend[m], u)
  BY <1>6, <1>9
<1>13. \A m \in PendList, u \in Task :
         u \in Waiting(m) /\ ~TimedOut(u) => u \in Waiting(m)' /\ ~TimedOut(u)'
  <2>1. ASSUME NEW m \in PendList, NEW u \in Task, u \in Waiting(m), ~TimedOut(u)
        PROVE  u \in Waiting(m)' /\ ~TimedOut(u)'
    <3>1. FlagOf(m) \in k.status[u] /\ k.status[u] \cap Blocking = {FlagOf(m)}
      BY <1>2, <2>1, WaitersFlags
    <3>2. "DELAY" \notin k.status[u]
      BY <3>1 DEF FlagOf, Blocking
    <3>3. u # t
      BY <1>4, <2>1, <3>2 DEF TimedOut
    <3> QED
      BY <1>6, <1>8, <1>9, <2>1, <3>3 DEF Waiting, TimedOut
  <2> QED
    BY <2>1
<1>14. PICK X : X = {}
  OBVIOUS
<1>15. Parked' /\ \A m \in PendList : m \notin X => Still(m)
  BY <1>1, <1>2, <1>10, <1>11, <1>12, <1>13, QuietEffect
<1> QED
  BY <1>8, <1>9, <1>14, <1>15 DEF After

\* Nor does LOS_TaskYield, which is about READY tasks.
LEMMA YieldQuiet ==
  ASSUME TasksInv, Parked, LOS_TaskYield
  PROVE  After({}) /\ k'.prio = k.prio
<1>1. Calls("yield") /\ ThenSchedule(Rotated(k), None) /\ Links(k) /\ "READY" \in k.status[k.run]
  BY DEF LOS_TaskYield, CanYield, TasksInv
<1>2. PICK s : s = Rotated(k)
  OBVIOUS
<1>3. s.status = k.status /\ s.pend = k.pend /\ s.prio = k.prio /\ s.fault = k.fault
  BY <1>1, <1>2, RotatedFields DEF SameRun
<1> QED
  BY <1>1, <1>2, <1>3, CallKeepsWaits

\* Nor do LOS_TaskLock and LOS_TaskUnlock.
LEMMA LockQuiet ==
  ASSUME TasksInv, Parked, LOS_TaskLock \/ LOS_TaskUnlock
  PROVE  After({}) /\ k'.prio = k.prio
<1>1. PICK s : /\ Calls("lock")
               /\ ThenSchedule(s, None) \/ ThenReturn(s)
               /\ s \in {[k EXCEPT !.lock = k.lock + 1], [k EXCEPT !.lock = k.lock - 1]}
  BY DEF LOS_TaskLock, LOS_TaskUnlock
<1>2. k \in KState
  BY DEF TasksInv, Links
<1>3. s.status = k.status /\ s.pend = k.pend /\ s.prio = k.prio /\ s.fault = k.fault
  BY <1>1, <1>2 DEF KState
<1> QED
  BY <1>1, <1>3, CallKeepsWaits

\* Only a priority changes, in an application that sets priorities.
LEMMA PriSetQuiet ==
  ASSUME TasksInv, Parked, NEW t \in Task, NEW p \in 0..Lowest - 1, LOS_TaskPriSet(t, p)
  PROVE  After({}) /\ "priset" \in app.calls
<1>1. PICK s : /\ Calls("priset")
               /\ ThenSchedule(s, None) \/ ThenReturn(s)
               /\ s = osTaskPriModify(k, t, p)
  BY DEF LOS_TaskPriSet
<1>2. Links(k) /\ p \in 0..Lowest
  BY TasksAssumption DEF TasksInv
<1>3. s.status = k.status /\ s.pend = k.pend /\ s.fault = k.fault
  <2>1. Reprioritised(s, k, t, p)
    BY <1>1, <1>2, PriModifyLinks
  <2> QED
    BY <2>1 DEF Reprioritised, SameRun
<1>4. After({})
  BY <1>1, <1>3, CallKeepsWaits
<1> QED
  BY <1>1, <1>4 DEF Calls

\* LOS_TaskSuspend leaves a waiter in its list and a granted task granted.
LEMMA SuspendQuiet ==
  ASSUME TasksInv, Parked, NEW t \in Task, LOS_TaskSuspend(t)
  PROVE  After({}) /\ k'.prio = k.prio
<1>1. PICK off, s : /\ off = IF "READY" \in k.status[t] THEN osPriqueueDequeue(k, t) ELSE k
                    /\ s = [off EXCEPT !.status[t] = off.status[t] \cup {"SUSPEND"}]
                    /\ Calls("suspend")
                    /\ ThenSchedule(s, None) \/ ThenReturn(s)
  BY DEF LOS_TaskSuspend
<1>2. k \in KState /\ t \in AnyTask
  BY DEF TasksInv, Links, AnyTask
<1>3. /\ off \in KState /\ off.pend = k.pend /\ off.prio = k.prio /\ off.fault = k.fault
      /\ \A u \in Task : Told(off.status[u]) = Told(k.status[u])
  <2>1. CASE "READY" \in k.status[t]
    <3>1. DequeueSpec(off, k, t)
      BY <1>1, <1>2, <2>1, DequeueFields
    <3>2. \A u \in AnyTask : off.status[u] = IF u = t THEN k.status[t] \ {"READY"} ELSE k.status[u]
      BY <1>2, <3>1 DEF DequeueSpec, KState
    <3>3. \A u \in Task : Told(off.status[u]) = Told(k.status[u])
      BY <3>2 DEF Told, Blocking, AnyTask
    <3> QED
      BY <3>1, <3>3 DEF DequeueSpec, SameRun
  <2>2. CASE "READY" \notin k.status[t]
    BY <1>1, <1>2, <2>2
  <2> QED
    BY <2>1, <2>2
<1>4. /\ s.pend = off.pend /\ s.prio = off.prio /\ s.fault = off.fault
      /\ \A u \in AnyTask : s.status[u] = IF u = t THEN off.status[t] \cup {"SUSPEND"} ELSE off.status[u]
  BY <1>1, <1>2, <1>3 DEF KState
<1>5. \A u \in Task : Told(s.status[u]) = Told(off.status[u])
  BY <1>4 DEF Told, Blocking, AnyTask
<1>6. /\ s.pend = k.pend /\ s.prio = k.prio /\ s.fault = k.fault
      /\ \A u \in Task : Told(s.status[u]) = Told(k.status[u])
  BY <1>3, <1>4, <1>5
<1> QED
  BY <1>1, <1>6, CallKeepsWaits

\* So does LOS_TaskResume: a task that is in a list stays in it.
LEMMA ResumeQuiet ==
  ASSUME TasksInv, Parked, NEW t \in Task, LOS_TaskResume(t)
  PROVE  After({}) /\ k'.prio = k.prio
<1>1. PICK on, s : /\ on = [k EXCEPT !.status[t] = k.status[t] \ {"SUSPEND"}]
                   /\ s = on \/ s = osPriqueueEnqueue(on, t)
                   /\ Calls("suspend")
                   /\ ThenSchedule(s, None) \/ ThenReturn(s)
  <2>1. PICK on : on = [k EXCEPT !.status[t] = k.status[t] \ {"SUSPEND"}]
    OBVIOUS
  <2>2. /\ Calls("suspend")
        /\ ThenSchedule(osPriqueueEnqueue(on, t), None) \/ ThenReturn(on)
    BY <2>1 DEF LOS_TaskResume
  <2> QED
    BY <2>1, <2>2
<1>2. k \in KState /\ t \in AnyTask /\ k.status[t] \ {"SUSPEND"} \in SUBSET Flag
  BY DEF TasksInv, Links, AnyTask, KState
<1>3. /\ on \in KState /\ on.pend = k.pend /\ on.prio = k.prio /\ on.fault = k.fault
      /\ \A u \in AnyTask : on.status[u] = IF u = t THEN k.status[t] \ {"SUSPEND"} ELSE k.status[u]
  BY <1>1, <1>2 DEF KState
<1>4. \A u \in Task : Told(on.status[u]) = Told(k.status[u])
  BY <1>3 DEF Told, Blocking, AnyTask
<1>5. /\ s.pend = on.pend /\ s.prio = on.prio /\ s.fault = on.fault
      /\ \A u \in Task : Told(s.status[u]) = Told(on.status[u])
  <2>1. CASE s = osPriqueueEnqueue(on, t)
    <3>1. EnqueueSpec(s, on, t)
      BY <1>2, <1>3, <2>1, EnqueueFields
    <3>2. \A u \in AnyTask : s.status[u] = IF u = t THEN on.status[t] \cup {"READY"} ELSE on.status[u]
      BY <1>3, <3>1 DEF EnqueueSpec, KState
    <3>3. \A u \in Task : Told(s.status[u]) = Told(on.status[u])
      BY <3>2 DEF Told, Blocking, AnyTask
    <3> QED
      BY <3>1, <3>3 DEF EnqueueSpec, SameRun
  <2> QED
    BY <1>1, <2>1
<1> QED
  BY <1>1, <1>3, <1>4, <1>5, CallKeepsWaits

\* The caller is delayed: it waits for nothing.
LEMMA DelayQuiet ==
  ASSUME TasksInv, Parked, LOS_TaskDelay
  PROVE  After({}) /\ k'.prio = k.prio
<1>0. Calls("delay") /\ ThenSchedule(Delayed(k, k.run), None)
  BY DEF LOS_TaskDelay, Delayed
<1>1. PICK t, s : t = k.run /\ s = Delayed(k, t) /\ Calls("delay") /\ ThenSchedule(s, None)
  BY <1>0
<1>2. /\ t \in Task /\ Links(k) /\ k \in KState /\ wait[t] = None /\ "READY" \in k.status[t] /\ t \in AnyTask
      /\ at \in [Task -> {"app", "sched", "check"}] /\ wait = [u \in Task |-> wait[u]]
      /\ \A m \in PendList : t \notin Waiting(m)
  <2>1. Running /\ at[k.run] = "app"
    BY <1>1, CallersRun
  <2>2. /\ k.run \in Task /\ Links(k) /\ wait[k.run] = None /\ "READY" \in k.status[k.run]
        /\ \A m \in PendList : k.run \notin Waiting(m)
    BY <2>1, RunnersFacts
  <2> QED
    BY <1>1, <2>2 DEF TasksInv, Links, AnyTask
<1>3. /\ s.prio = k.prio /\ s.pend = k.pend /\ SameRun(s, k)
      /\ s.status = [k.status EXCEPT ![t] = (k.status[t] \ {"READY"}) \cup {"DELAY"}]
  BY <1>1, <1>2, DelayLinks
<1>4. \A u \in Task : u # t => s.status[u] = k.status[u]
  BY <1>2, <1>3 DEF KState, AnyTask
<1>5. k' = s /\ at' = [at EXCEPT ![t] = "sched"] /\ wait' = [wait EXCEPT ![t] = None]
  BY <1>1 DEF ThenSchedule
<1>6. \A u \in Task : wait'[u] = wait[u] /\ (at'[u] = "app" \/ "DELAY" \in k'.status[u] => wait[u] = None)
  <2>1. ASSUME NEW u \in Task, u # t
        PROVE  wait'[u] = wait[u] /\ at'[u] = at[u] /\ k'.status[u] = k.status[u]
    BY <1>2, <1>4, <1>5, <2>1
  <2>2. wait'[t] = wait[t]
    BY <1>2, <1>5
  <2> QED
    BY <1>2, <2>1, <2>2 DEF Parked
<1>7. \A u \in Task : u # t => (Awake(u)' <=> Awake(u)) /\ (TimedOut(u)' <=> TimedOut(u))
  BY <1>4, <1>5 DEF Awake, TimedOut
<1>8. \A u \in Task : wait[u] # None => (Awake(u)' <=> Awake(u))
  BY <1>2, <1>7
<1>9. \A m \in PendList, u \in Task : OnList(k'.pend[m], u) => OnList(k.pend[m], u)
  BY <1>3, <1>5
<1>10. PICK X : X = {}
  OBVIOUS
<1>11. \A m \in PendList, u \in Task :
         m \notin X /\ u \in Waiting(m) /\ ~TimedOut(u) => u \in Waiting(m)' /\ ~TimedOut(u)'
  BY <1>2, <1>3, <1>5, <1>7 DEF Waiting
<1>12. Parked' /\ \A m \in PendList : m \notin X => Still(m)
  BY <1>2, <1>6, <1>8, <1>9, <1>11, QuietEffect
<1> QED
  BY <1>3, <1>5, <1>10, <1>12 DEF After, SameRun

\* No task call gives anything to anybody, or changes a priority unless it is there for it.
LEMMA TasksQuiet ==
  ASSUME TasksInv, Parked, "delete" \notin app.calls, TasksNext
  PROVE  After({}) /\ ("priset" \notin app.calls => k'.prio = k.prio)
<1>1. ASSUME NEW t \in Task PROVE ~LOS_TaskDelete(t) /\ ~LOS_TaskCreate(t)
  BY DEF LOS_TaskDelete, LOS_TaskCreate, Calls
<1>2. CASE \E t \in Task, p \in 0..Lowest - 1 : LOS_TaskPriSet(t, p)
  BY <1>2, PriSetQuiet
<1>3. CASE \E t \in Task : LOS_TaskSuspend(t) \/ LOS_TaskResume(t)
  BY <1>3, SuspendQuiet, ResumeQuiet
<1>4. CASE LOS_TaskYield \/ LOS_TaskDelay \/ LOS_TaskLock \/ LOS_TaskUnlock
  BY <1>4, YieldQuiet, DelayQuiet, LockQuiet
<1>5. CASE Reschedule \/ TickEndsWait \/ osTimesliceCheck
  BY <1>5, RescheduleQuiet, TickQuiet, TimesliceQuiet
<1> QED
  BY <1>1, <1>2, <1>3, <1>4, <1>5 DEF TasksNext, TaskCall

-----------------------------------------------------------------------------
(* How many were given what they waited for                                *)

\* One more when a waiter is woken, one less when a call is over.
LEMMA GrantCounts ==
  ASSUME Links(k), NEW l \in PendList
  PROVE  /\ IsFiniteSet(Grants(l)) /\ Cardinality(Grants(l)) \in Nat
         /\ \A h \in Waiting(l) : h \notin Grants(l) /\ Cardinality(Grants(l) \cup {h}) = Cardinality(Grants(l)) + 1
         /\ \A t \in Grants(l) : Cardinality(Grants(l) \ {t}) = Cardinality(Grants(l)) - 1
<1>1. Grants(l) \in SUBSET Task /\ IsFiniteSet(Task)
  BY TasksAssumption DEF Grants
<1>2. IsFiniteSet(Grants(l))
  BY <1>1, FS_Subset
<1>3. Cardinality(Grants(l)) \in Nat
  BY <1>2, FS_CardinalityType
<1>4. ASSUME NEW h \in Waiting(l)
      PROVE  h \notin Grants(l) /\ Cardinality(Grants(l) \cup {h}) = Cardinality(Grants(l)) + 1
  <2>1. h \in Task /\ ~Awake(h)
    BY WaitersFlags DEF Waiting
  <2>2. h \notin Grants(l)
    BY <2>1 DEF Grants
  <2> QED
    BY <1>2, <2>2, FS_AddElement
<1>5. ASSUME NEW t \in Grants(l) PROVE Cardinality(Grants(l) \ {t}) = Cardinality(Grants(l)) - 1
  BY <1>2, FS_RemoveElement
<1> QED
  BY <1>2, <1>3, <1>4, <1>5

\* A list that is empty is one nobody waits in.
LEMMA EmptyList ==
  ASSUME Links(k), NEW l \in PendList
  PROVE  k.pend[l] = <<>> <=> Waiting(l) = {}
<1>1. k.pend[l] \in Seq(Task)
  BY DEF Links, KState
<1>2. PICK list : list = k.pend[l]
  OBVIOUS
<1>3. ASSUME list # <<>> PROVE Waiting(l) # {}
  <2>1. Head(list) \in Task /\ OnList(list, Head(list))
    BY <1>1, <1>2, <1>3, FirstWaits
  <2> QED
    BY <1>2, <2>1 DEF Waiting
<1>4. ASSUME list = <<>> PROVE Waiting(l) = {}
  BY <1>2, <1>4 DEF Waiting, OnList
<1> QED
  BY <1>2, <1>3, <1>4

-----------------------------------------------------------------------------
(* Semaphores                                                              *)

SemLists == {SemList(s) : s \in Sem}

\* Every semaphore has a list of its own.
LEMMA SemsApart == \A r, s \in Sem : SemList(r) = SemList(s) => r = s
BY DEF SemList

\* A step that is not about semaphores.
LEMMA SemsKept ==
  ASSUME SemInv, UNCHANGED semVars, \A s \in Sem : Still(SemList(s))
  PROVE  SemInv'
<1>1. sem' = sem /\ balance' = balance
  BY DEF semVars
<1>2. ASSUME NEW s \in Sem PROVE SemOK(s)'
  <2>1. PICK l : l = SemList(s)
    OBVIOUS
  <2>2. SemOK(s) /\ Grants(l)' = Grants(l) /\ Waiting(l)' \subseteq Waiting(l)
    BY <2>1 DEF SemInv, Still
  <2>3. Grants(SemList(s))' = Grants(SemList(s)) /\ Waiting(SemList(s))' \subseteq Waiting(SemList(s))
    BY DEF Still
  <2> QED
    BY <1>1, <2>2, <2>3 DEF SemOK
<1> QED
  BY <1>1, <1>2 DEF SemInv

\* A step that is about one semaphore.
LEMMA OneSem ==
  ASSUME SemInv, NEW s \in Sem, After({SemList(s)}),
         sem' \in [Sem -> [used : BOOLEAN, count : Nat]], balance' \in [Sem -> Int],
         \A r \in Sem : r # s => sem'[r] = sem[r] /\ balance'[r] = balance[r],
         SemOK(s)'
  PROVE  SemInv' /\ After(SemLists)
<1>1. ASSUME NEW r \in Sem, r # s PROVE SemOK(r)'
  <2>1. SemList(r) \in PendList /\ SemList(r) \notin {SemList(s)}
    BY <1>1, FlagsOfLists, SemsApart
  <2>2. Still(SemList(r))
    BY <2>1 DEF After
  <2>3. SemOK(r) /\ sem'[r] = sem[r] /\ balance'[r] = balance[r]
    BY <1>1 DEF SemInv
  <2> QED
    BY <2>2, <2>3 DEF SemOK, Still
<1>2. After(SemLists)
  <2>1. \A m \in PendList : m \notin SemLists => m \notin {SemList(s)}
    BY DEF SemLists
  <2> QED
    BY <2>1 DEF After
<1> QED
  BY <1>1, <1>2 DEF SemInv

\* What a step does that is about one list: it is still, or it hands over.
LEMMA AfterNothing ==
  ASSUME NEW l \in PendList, After({})
  PROVE  After({l}) /\ Still(l)
BY DEF After

\* Creation starts the balance anew; deletion ends every wait as a timeout does
\* (LOS_SemCreate, LOS_SemDelete).
LEMMA SemLifeMoves ==
  ASSUME TasksInv, Parked, SemInv, NEW s \in Sem,
         LOS_SemDelete(s) \/ \E n \in 0..MaxCount : LOS_SemCreate(s, n)
  PROVE  SemInv' /\ After(SemLists) /\ k'.prio = k.prio
<1>1. /\ SemList(s) \in PendList /\ SemOK(s) /\ Links(k)
      /\ sem \in [Sem -> [used : BOOLEAN, count : Nat]] /\ balance \in [Sem -> Int]
  BY FlagsOfLists DEF SemInv, TasksInv
<1>2. CASE LOS_SemDelete(s)
  <2>1. /\ After({SemList(s)}) /\ k'.prio = k.prio
        /\ Waiting(SemList(s))' = {} /\ Grants(SemList(s))' = Grants(SemList(s))
    BY <1>2, SemDeleteEffect
  <2>2. sem' = [sem EXCEPT ![s].used = FALSE] /\ balance' = balance
    BY <1>2 DEF LOS_SemDelete
  <2>3. /\ sem' \in [Sem -> [used : BOOLEAN, count : Nat]] /\ balance' \in [Sem -> Int]
        /\ \A r \in Sem : r # s => sem'[r] = sem[r] /\ balance'[r] = balance[r]
        /\ ~sem'[s].used
    BY <1>1, <2>2
  <2>4. SemOK(s)'
    BY <2>1, <2>3 DEF SemOK
  <2> QED
    BY <2>1, <2>3, <2>4, OneSem
<1>3. CASE \E n \in 0..MaxCount : LOS_SemCreate(s, n)
  <2>1. PICK n \in 0..MaxCount : LOS_SemCreate(s, n)
    BY <1>3
  <2>2. /\ Calls("life") /\ ~sem[s].used /\ ThenReturn(k)
        /\ sem' = [sem EXCEPT ![s] = [used |-> TRUE, count |-> n]]
        /\ balance' = [balance EXCEPT ![s] = n + OnTheirWay(s)]
    BY <2>1 DEF LOS_SemCreate
  <2>3. n \in Nat
    BY SemAssumption
  <2>4. OnTheirWay(s) = Cardinality(Grants(SemList(s)))
    <3>1. {t \in Task : Granted(t, For(SemList(s), None))} = Grants(SemList(s))
      BY ArgsOf DEF Grants, Granted, Awake
    <3> QED
      BY <3>1 DEF OnTheirWay
  <2>5. Cardinality(Grants(SemList(s))) \in Nat
    BY <1>1, GrantCounts
  <2>6. /\ sem' \in [Sem -> [used : BOOLEAN, count : Nat]] /\ balance' \in [Sem -> Int]
        /\ \A r \in Sem : r # s => sem'[r] = sem[r] /\ balance'[r] = balance[r]
        /\ sem'[s].used /\ sem'[s].count = n /\ balance'[s] = n + Cardinality(Grants(SemList(s)))
    BY <1>1, <2>2, <2>3, <2>4, <2>5
  <2>7. After({}) /\ k'.prio = k.prio
    BY <1>1, <2>2, CallReturnsEffect
  <2>8. After({SemList(s)}) /\ Still(SemList(s))
    BY <1>1, <2>7, AfterNothing
  <2>9. SemOK(s)'
    <3>1. Waiting(SemList(s)) = {}
      BY <1>1, <2>2 DEF SemOK
    <3> QED
      BY <2>6, <2>8, <3>1 DEF SemOK, Still
  <2> QED
    BY <2>6, <2>7, <2>8, <2>9, OneSem
<1> QED
  BY <1>2, <1>3

\* An interrupt handler that leaves the tasks as they are.
LEMMA InterruptReturnsEffect ==
  ASSUME TasksInv, Parked, UNCHANGED <<k, at, wait>>
  PROVE  After({}) /\ k'.prio = k.prio
<1>1. Links(k) /\ \A t \in Task : at'[t] = "app" => wait[t] = None
  BY DEF TasksInv, Parked
<1> QED
  BY <1>1, SameWaits

\* A call of LOS_SemPend takes from the count, joins the list, or returns with
\* or without what it was given.
LEMMA SemPendMoves ==
  ASSUME TasksInv, Parked, SemInv, NEW s \in Sem,
         SemPendReturns(s) \/ \E timeout \in Timeout : LOS_SemPend(s, timeout)
  PROVE  SemInv' /\ After(SemLists) /\ k'.prio = k.prio
<1>1. /\ SemList(s) \in PendList /\ FlagOf(SemList(s)) = "PEND" /\ SemOK(s) /\ Links(k)
      /\ sem \in [Sem -> [used : BOOLEAN, count : Nat]] /\ balance \in [Sem -> Int]
      /\ For(SemList(s), None) \in Args(SemList(s))
  BY FlagsOfLists, ArgsOf DEF SemInv, TasksInv
<1>2. CASE SemPendReturns(s)
  <2>1. /\ Checks(For(SemList(s), None)) /\ ThenReturn(Cleared(k)) /\ sem' = sem
        /\ balance' = IF TimedOut(k.run) THEN balance ELSE [balance EXCEPT ![s] = balance[s] - 1]
    BY <1>2 DEF SemPendReturns
  <2>2. /\ After({SemList(s)}) /\ Handed(SemList(s), {}, {k.run}) /\ k'.prio = k.prio
        /\ k.run \in Grants(SemList(s)) <=> ~TimedOut(k.run)
    BY <1>1, <2>1, CheckReturnsEffect
  <2>3. /\ balance' \in [Sem -> Int] /\ \A r \in Sem : r # s => balance'[r] = balance[r]
        /\ balance'[s] = balance[s] - (IF TimedOut(k.run) THEN 0 ELSE 1)
    BY <1>1, <2>1
  <2>4. Cardinality(Grants(SemList(s)))' = Cardinality(Grants(SemList(s))) - (IF TimedOut(k.run) THEN 0 ELSE 1)
    <3>1. Grants(SemList(s))' = Grants(SemList(s)) \ {k.run}
      BY <2>2 DEF Handed
    <3>2. CASE TimedOut(k.run)
      <4>1. Grants(SemList(s))' = Grants(SemList(s)) /\ Cardinality(Grants(SemList(s))) \in Nat
        BY <1>1, <2>2, <3>1, <3>2, GrantCounts
      <4> QED
        BY <3>2, <4>1
    <3>3. CASE ~TimedOut(k.run)
      <4>1. Cardinality(Grants(SemList(s)) \ {k.run}) = Cardinality(Grants(SemList(s))) - 1
        BY <1>1, <2>2, <3>3, GrantCounts
      <4> QED
        BY <3>1, <3>3, <4>1
    <3> QED
      BY <3>2, <3>3
  <2>5. Cardinality(Grants(SemList(s))) \in Nat /\ balance[s] \in Int /\ sem[s].count \in Nat
    BY <1>1, GrantCounts
  <2>6. Waiting(SemList(s))' = Waiting(SemList(s))
    BY <2>2 DEF Handed
  <2>7. SemOK(s)'
    BY <1>1, <2>1, <2>3, <2>4, <2>5, <2>6 DEF SemOK
  <2> QED
    BY <1>1, <2>1, <2>2, <2>3, <2>7, OneSem
<1>3. CASE \E timeout \in Timeout : LOS_SemPend(s, timeout)
  <2>1. PICK timeout \in Timeout : LOS_SemPend(s, timeout)
    BY <1>3
  <2>2. Calls("sem") /\ sem[s].used /\ (SemTake(s) \/ SemWait(s, timeout))
    BY <2>1 DEF LOS_SemPend
  <2>3. CASE SemTake(s)
    <3>1. /\ sem[s].count > 0 /\ ThenReturn(k)
          /\ sem' = [sem EXCEPT ![s].count = sem[s].count - 1]
          /\ balance' = [balance EXCEPT ![s] = balance[s] - 1]
      BY <2>3 DEF SemTake
    <3>2. After({}) /\ k'.prio = k.prio
      BY <1>1, <2>2, <3>1, CallReturnsEffect
    <3>3. After({SemList(s)}) /\ Still(SemList(s))
      BY <1>1, <3>2, AfterNothing
    <3>4. sem[s].count - 1 \in Nat
      BY <1>1, <3>1
    <3>5. /\ sem' \in [Sem -> [used : BOOLEAN, count : Nat]] /\ balance' \in [Sem -> Int]
          /\ \A r \in Sem : r # s => sem'[r] = sem[r] /\ balance'[r] = balance[r]
          /\ sem'[s].used = sem[s].used /\ sem'[s].count = sem[s].count - 1 /\ balance'[s] = balance[s] - 1
      BY <1>1, <3>1, <3>4
    <3>6. /\ Cardinality(Grants(SemList(s)))' = Cardinality(Grants(SemList(s))) /\ Cardinality(Grants(SemList(s))) \in Nat
          /\ Waiting(SemList(s)) = {} /\ Waiting(SemList(s))' = {} /\ balance[s] \in Int /\ sem[s].count \in Nat
      BY <1>1, <3>1, <3>3, GrantCounts DEF Still, SemOK
    <3>7. SemOK(s)'
      BY <1>1, <3>5, <3>6 DEF SemOK
    <3> QED
      BY <3>2, <3>3, <3>5, <3>7, OneSem
  <2>4. CASE SemWait(s, timeout)
    <3>1. /\ sem[s].count = 0 /\ sem' = sem /\ balance' = balance
          /\ ThenSchedule(osTaskWait(k, SemList(s), FlagOf(SemList(s)), timeout = "ticks"), For(SemList(s), None))
      BY <1>1, <2>4 DEF SemWait, semVars
    <3>2. PICK timed : timed = (timeout = "ticks")
      OBVIOUS
    <3>3. ThenSchedule(osTaskWait(k, SemList(s), FlagOf(SemList(s)), timed), For(SemList(s), None))
      BY <3>1, <3>2
    <3>4. /\ After({SemList(s)}) /\ Joined(SemList(s), k.run, For(SemList(s), None), timed) /\ k'.prio = k.prio
      BY <1>1, <2>2, <3>3, CallWaitsEffect
    <3>5. SemOK(s)'
      BY <1>1, <2>2, <3>1, <3>4 DEF SemOK, Joined
    <3> QED
      BY <1>1, <3>1, <3>4, <3>5, OneSem
  <2> QED
    BY <2>2, <2>3, <2>4
<1> QED
  BY <1>2, <1>3

\* A post goes to the first waiter or into the count (LOS_SemPost).
LEMMA SemPostMoves ==
  ASSUME TasksInv, Parked, SemInv, NEW s \in Sem, LOS_SemPost(s) \/ InterruptPosts(s)
  PROVE  SemInv' /\ After(SemLists) /\ k'.prio = k.prio
<1>1. /\ SemList(s) \in PendList /\ FlagOf(SemList(s)) = "PEND" /\ SemOK(s) /\ Links(k)
      /\ sem \in [Sem -> [used : BOOLEAN, count : Nat]] /\ balance \in [Sem -> Int]
      /\ sem[s].count \in Nat /\ balance[s] \in Int /\ Cardinality(Grants(SemList(s))) \in Nat
  BY FlagsOfLists, GrantCounts DEF SemInv, TasksInv
<1>2. /\ sem[s].used
      /\ balance' = [balance EXCEPT ![s] = balance[s] + 1]
      /\ \/ PostToCount(s) /\ ((Calls("sem") /\ ThenReturn(k)) \/ UNCHANGED <<k, at, wait>>)
         \/ /\ k.pend[SemList(s)] # <<>> /\ sem' = sem
            /\ \/ /\ Calls("sem")
                  /\ ThenSchedule(osTaskWake(k, Head(k.pend[SemList(s)]), FlagOf(SemList(s))), None)
               \/ ThenResume(osTaskWake(k, Head(k.pend[SemList(s)]), FlagOf(SemList(s))))
  BY <1>1 DEF LOS_SemPost, InterruptPosts, CanPost, Posted, HandedOver
<1>3. /\ balance' \in [Sem -> Int] /\ \A r \in Sem : r # s => balance'[r] = balance[r]
      /\ balance'[s] = balance[s] + 1
  BY <1>1, <1>2
<1>4. CASE PostToCount(s) /\ ((Calls("sem") /\ ThenReturn(k)) \/ UNCHANGED <<k, at, wait>>)
  <2>1. k.pend[SemList(s)] = <<>> /\ sem' = [sem EXCEPT ![s].count = sem[s].count + 1]
    BY <1>4 DEF PostToCount
  <2>2. After({}) /\ k'.prio = k.prio
    BY <1>1, <1>4, CallReturnsEffect, InterruptReturnsEffect
  <2>3. After({SemList(s)}) /\ Still(SemList(s))
    BY <1>1, <2>2, AfterNothing
  <2>4. /\ sem' \in [Sem -> [used : BOOLEAN, count : Nat]] /\ \A r \in Sem : r # s => sem'[r] = sem[r]
        /\ sem'[s].used = sem[s].used /\ sem'[s].count = sem[s].count + 1
    BY <1>1, <2>1
  <2>5. Waiting(SemList(s))' = {} /\ Cardinality(Grants(SemList(s)))' = Cardinality(Grants(SemList(s)))
    BY <1>1, <2>1, <2>3, EmptyList DEF Still
  <2>6. SemOK(s)'
    BY <1>1, <1>2, <1>3, <2>4, <2>5 DEF SemOK
  <2> QED
    BY <1>3, <2>2, <2>3, <2>4, <2>6, OneSem
<1>5. CASE /\ k.pend[SemList(s)] # <<>> /\ sem' = sem
           /\ \/ /\ Calls("sem")
                 /\ ThenSchedule(osTaskWake(k, Head(k.pend[SemList(s)]), FlagOf(SemList(s))), None)
              \/ ThenResume(osTaskWake(k, Head(k.pend[SemList(s)]), FlagOf(SemList(s))))
  <2>1. After({SemList(s)}) /\ k'.prio = k.prio /\ \E h \in Waiting(SemList(s)) : Handed(SemList(s), {h}, {})
    <3>1. CASE Calls("sem") /\ ThenSchedule(osTaskWake(k, Head(k.pend[SemList(s)]), FlagOf(SemList(s))), None)
      BY <1>1, <1>5, <3>1, CallHandsOverEffect
    <3>2. CASE ThenResume(osTaskWake(k, Head(k.pend[SemList(s)]), FlagOf(SemList(s))))
      BY <1>1, <1>5, <3>2, InterruptHandsOverEffect
    <3> QED
      BY <1>5, <3>1, <3>2
  <2>2. PICK h \in Waiting(SemList(s)) : Handed(SemList(s), {h}, {})
    BY <2>1
  <2>3. Waiting(SemList(s))' \subseteq Waiting(SemList(s)) /\ Grants(SemList(s))' = Grants(SemList(s)) \cup {h}
    BY <2>2 DEF Handed
  <2>4. Cardinality(Grants(SemList(s)))' = Cardinality(Grants(SemList(s))) + 1
    BY <1>1, <2>3, GrantCounts
  <2>5. SemOK(s)'
    BY <1>1, <1>2, <1>3, <1>5, <2>3, <2>4 DEF SemOK
  <2> QED
    BY <1>1, <1>3, <1>5, <2>1, <2>5, OneSem
<1> QED
  BY <1>2, <1>4, <1>5

\* Every step of the semaphores keeps their invariant and touches no other list.
LEMMA SemMoves ==
  ASSUME TasksInv, Parked, SemInv, SemNext
  PROVE  SemInv' /\ After(SemLists) /\ k'.prio = k.prio
<1>1. PICK s \in Sem : \/ \E n \in 0..MaxCount : LOS_SemCreate(s, n)
                       \/ LOS_SemDelete(s)
                       \/ \E timeout \in app.timeouts : LOS_SemPend(s, timeout)
                       \/ SemPendReturns(s)
                       \/ LOS_SemPost(s) \/ InterruptPosts(s)
  BY DEF SemNext
<1>2. app.timeouts \subseteq Timeout
  BY TasksAssumption DEF TasksInv
<1> QED
  BY <1>1, <1>2, SemLifeMoves, SemPendMoves, SemPostMoves

-----------------------------------------------------------------------------
(* Events                                                                  *)

EventLists == {EventList(e) : e \in Event}

\* Every event has a list of its own.
LEMMA EventsApart == \A d, e \in Event : EventList(d) = EventList(e) => d = e
BY DEF EventList

\* Fewer bits satisfy no reader that more bits did not.
LEMMA FewerBits ==
  ASSUME NEW r, NEW x, NEW y, x \subseteq y, ~Satisfied(r, y)
  PROVE  ~Satisfied(r, x)
BY DEF Satisfied

\* A step that is not about events.
LEMMA EventsKept ==
  ASSUME EventInv, UNCHANGED bits, \A e \in Event : Still(EventList(e))
  PROVE  EventInv'
BY DEF EventInv, Still

\* A step that is about one event, whose waiters are among those there were.
LEMMA OneEvent ==
  ASSUME EventInv, NEW e \in Event, After({EventList(e)}), bits' \in [Event -> SUBSET Bit],
         \A d \in Event : d # e => bits'[d] = bits[d],
         \A t \in Waiting(EventList(e))' : ~Satisfied(wait'[t][2], bits'[e])
  PROVE  EventInv' /\ After(EventLists)
<1>1. ASSUME NEW d \in Event, d # e, NEW t \in Waiting(EventList(d))' PROVE ~Satisfied(wait'[t][2], bits'[d])
  <2>1. EventList(d) \in PendList /\ EventList(d) \notin {EventList(e)}
    BY <1>1, FlagsOfLists, EventsApart
  <2>2. Still(EventList(d))
    BY <2>1 DEF After
  <2> QED
    BY <1>1, <2>2 DEF EventInv, Still
<1>2. After(EventLists)
  <2>1. \A m \in PendList : m \notin EventLists => m \notin {EventList(e)}
    BY DEF EventLists
  <2> QED
    BY <2>1 DEF After
<1> QED
  BY <1>1, <1>2 DEF EventInv

\* A call that returns, when bits were cleared if any changed.
LEMMA EventReturns ==
  ASSUME TasksInv, Parked, EventInv, NEW e \in Event, After({EventList(e)}),
         Waiting(EventList(e))' \subseteq Waiting(EventList(e)),
         \A t \in Waiting(EventList(e))' : wait'[t] = wait[t],
         NEW set, set \subseteq bits[e], bits' = [bits EXCEPT ![e] = set]
  PROVE  EventInv' /\ After(EventLists)
<1>1. bits' \in [Event -> SUBSET Bit] /\ bits'[e] = set /\ \A d \in Event : d # e => bits'[d] = bits[d]
  BY DEF EventInv
<1>2. ASSUME NEW t \in Waiting(EventList(e))' PROVE ~Satisfied(wait'[t][2], bits'[e])
  <2>1. ~Satisfied(wait[t][2], bits[e])
    BY <1>2 DEF EventInv
  <2> QED
    BY <1>1, <1>2, <2>1, FewerBits
<1> QED
  BY <1>1, <1>2, OneEvent

\* What LOS_EventPoll leaves.
LEMMA PollClears ==
  ASSUME EventInv, NEW e \in Event, NEW r, LOS_EventPoll(e, r)
  PROVE  \E set : /\ set \subseteq bits[e] /\ bits' = [bits EXCEPT ![e] = set]
                  /\ ~Satisfied(r, bits[e]) => set = bits[e]
<1>1. CASE Satisfied(r, bits[e]) /\ r.clear
  BY <1>1 DEF LOS_EventPoll
<1>2. CASE ~(Satisfied(r, bits[e]) /\ r.clear)
  <2>1. bits' = [bits EXCEPT ![e] = bits[e]]
    BY <1>2 DEF LOS_EventPoll, EventInv
  <2> QED
    BY <2>1
<1> QED
  BY <1>1, <1>2

\* LOS_EventRead joins the list only when the bits do not satisfy it, and no
\* waiter is satisfied by bits that are cleared.
LEMMA EventReadMoves ==
  ASSUME TasksInv, Parked, EventInv, NEW e \in Event, NEW r \in Read,
         EventReadReturns(e, r) \/ \E timeout \in Timeout : LOS_EventRead(e, r, timeout)
  PROVE  EventInv' /\ After(EventLists) /\ k'.prio = k.prio
<1>1. /\ EventList(e) \in PendList /\ FlagOf(EventList(e)) = "PEND"
      /\ For(EventList(e), r) \in Args(EventList(e))
  BY FlagsOfLists, ArgsOf
<1>2. CASE EventReadReturns(e, r)
  <2>1. /\ Checks(For(EventList(e), r)) /\ ThenReturn(Cleared(k))
        /\ IF TimedOut(k.run) THEN bits' = bits ELSE LOS_EventPoll(e, r)
    BY <1>2 DEF EventReadReturns
  <2>2. After({EventList(e)}) /\ Handed(EventList(e), {}, {k.run}) /\ k'.prio = k.prio
    BY <1>1, <2>1, CheckReturnsEffect
  <2>3. /\ Waiting(EventList(e))' \subseteq Waiting(EventList(e))
        /\ \A t \in Waiting(EventList(e))' : wait'[t] = wait[t]
    BY <2>2 DEF Handed
  <2>4. PICK set : set \subseteq bits[e] /\ bits' = [bits EXCEPT ![e] = set]
    <3>1. CASE TimedOut(k.run)
      <4>1. bits' = [bits EXCEPT ![e] = bits[e]]
        BY <2>1, <3>1 DEF EventInv
      <4> QED
        BY <4>1
    <3>2. CASE ~TimedOut(k.run)
      BY <2>1, <3>2, PollClears
    <3> QED
      BY <3>1, <3>2
  <2>5. EventInv' /\ After(EventLists)
    BY <2>2, <2>3, <2>4, EventReturns
  <2> QED
    BY <2>2, <2>5
<1>3. CASE \E timeout \in Timeout : LOS_EventRead(e, r, timeout)
  <2>1. PICK timeout \in Timeout : LOS_EventRead(e, r, timeout)
    BY <1>3
  <2>2. /\ Calls("event") /\ LOS_EventPoll(e, r)
        /\ \/ Satisfied(r, bits[e]) /\ ThenReturn(k)
           \/ /\ ~Satisfied(r, bits[e])
              /\ ThenSchedule(osTaskWait(k, EventList(e), FlagOf(EventList(e)), timeout = "ticks"),
                              For(EventList(e), r))
    BY <1>1, <2>1 DEF LOS_EventRead
  <2>3. PICK set : /\ set \subseteq bits[e] /\ bits' = [bits EXCEPT ![e] = set]
                   /\ ~Satisfied(r, bits[e]) => set = bits[e]
    BY <2>2, PollClears
  <2>4. CASE ThenReturn(k)
    <3>1. After({}) /\ k'.prio = k.prio
      BY <1>1, <2>2, <2>4, CallReturnsEffect
    <3>2. After({EventList(e)}) /\ Still(EventList(e))
      BY <1>1, <3>1, AfterNothing
    <3>3. /\ Waiting(EventList(e))' \subseteq Waiting(EventList(e))
          /\ \A t \in Waiting(EventList(e))' : wait'[t] = wait[t]
      BY <3>2 DEF Still
    <3>4. EventInv' /\ After(EventLists)
      BY <2>3, <3>2, <3>3, EventReturns
    <3> QED
      BY <3>1, <3>4
  <2>5. CASE /\ ~Satisfied(r, bits[e])
             /\ ThenSchedule(osTaskWait(k, EventList(e), FlagOf(EventList(e)), timeout = "ticks"),
                             For(EventList(e), r))
    <3>1. PICK timed : timed = (timeout = "ticks")
      OBVIOUS
    <3>2. ThenSchedule(osTaskWait(k, EventList(e), FlagOf(EventList(e)), timed), For(EventList(e), r))
      BY <2>5, <3>1
    <3>3. /\ After({EventList(e)}) /\ Joined(EventList(e), k.run, For(EventList(e), r), timed)
          /\ k'.prio = k.prio
      BY <1>1, <2>2, <3>2, CallWaitsEffect
    <3>4. bits' = bits
      BY <2>3, <2>5 DEF EventInv
    <3>5. ASSUME NEW t \in Waiting(EventList(e))' PROVE ~Satisfied(wait'[t][2], bits'[e])
      <4>1. CASE t \in Waiting(EventList(e))
        BY <3>3, <3>4, <4>1 DEF Joined, EventInv
      <4>2. CASE t = k.run
        BY <2>5, <3>3, <3>4, <4>2 DEF Joined, For
      <4> QED
        BY <3>3, <3>5, <4>1, <4>2 DEF Joined
    <3>6. bits' \in [Event -> SUBSET Bit] /\ \A d \in Event : d # e => bits'[d] = bits[d]
      BY <3>4 DEF EventInv
    <3>7. EventInv' /\ After(EventLists)
      BY <3>3, <3>5, <3>6, OneEvent
    <3> QED
      BY <3>3, <3>7
  <2> QED
    BY <2>2, <2>4, <2>5
<1> QED
  BY <1>2, <1>3

\* Every reader whose condition holds now is woken.
LEMMA EventWriteMoves ==
  ASSUME TasksInv, Parked, EventInv, NEW e \in Event, NEW written \in Written,
         LOS_EventWrite(e, written) \/ InterruptWrites(e, written)
  PROVE  EventInv' /\ After(EventLists) /\ k'.prio = k.prio
<1> DEFINE l == EventList(e)
           who == Readers(e, written)
<1>1. l \in PendList /\ FlagOf(l) = "PEND" /\ l = EventList(e) /\ who = Readers(e, written)
  BY FlagsOfLists
<1>2. /\ bits' = [bits EXCEPT ![e] = bits[e] \cup written]
      /\ \/ who = {} /\ ((Calls("event") /\ ThenReturn(k)) \/ UNCHANGED <<k, at, wait>>)
         \/ Calls("event") /\ ThenSchedule(WakeAll(k, k.pend[l], who, FlagOf(l)), None)
         \/ ThenResume(WakeAll(k, k.pend[l], who, FlagOf(l)))
  BY <1>1 DEF LOS_EventWrite, InterruptWrites, Set, ReadersWoken
<1> HIDE DEF l, who
<1>3. /\ After({l}) /\ k'.prio = k.prio
      /\ \A t \in Waiting(l)' : t \in Waiting(l) /\ t \notin who /\ wait'[t] = wait[t]
  <2>1. CASE who = {} /\ ((Calls("event") /\ ThenReturn(k)) \/ UNCHANGED <<k, at, wait>>)
    <3>1. After({}) /\ k'.prio = k.prio
      BY <1>1, <2>1, CallReturnsEffect, InterruptReturnsEffect
    <3>2. After({l}) /\ Still(l)
      BY <1>1, <3>1, AfterNothing
    <3> QED
      BY <2>1, <3>1, <3>2 DEF Still
  <2>2. CASE \/ Calls("event") /\ ThenSchedule(WakeAll(k, k.pend[l], who, FlagOf(l)), None)
             \/ ThenResume(WakeAll(k, k.pend[l], who, FlagOf(l)))
    <3>1. After({l}) /\ k'.prio = k.prio /\ Handed(l, {t \in Waiting(l) : t \in who}, {})
      BY <1>1, <2>2, CallWakesEffect, InterruptWakesEffect
    <3> QED
      BY <3>1 DEF Handed
  <2> QED
    BY <1>2, <2>1, <2>2
<1>4. ASSUME NEW t \in Waiting(l)' PROVE ~Satisfied(wait'[t][2], bits'[e])
  <2>1. t \in Task /\ OnList(k.pend[l], t) /\ t \notin who /\ wait'[t] = wait[t] /\ ~Satisfied(wait[t][2], bits[e])
    BY <1>1, <1>3, <1>4 DEF Waiting, EventInv
  <2>2. ~Wakes(e, written, t)
    BY <1>1, <2>1 DEF Readers
  <2>3. bits'[e] = bits[e] \cup written
    BY <1>2 DEF EventInv
  <2>4. PICK r : r = wait[t][2]
    OBVIOUS
  <2>5. ~Satisfied(r, IF r.all THEN bits[e] \cup written ELSE written) /\ ~Satisfied(r, bits[e])
    BY <2>1, <2>2, <2>4 DEF Wakes
  <2>6. ~Satisfied(r, bits[e] \cup written)
    BY <2>5 DEF Satisfied
  <2> QED
    BY <2>1, <2>3, <2>4, <2>6
<1>5. bits' \in [Event -> SUBSET Bit] /\ \A d \in Event : d # e => bits'[d] = bits[d]
  BY <1>2, EventAssumption DEF EventInv
<1>6. EventInv' /\ After(EventLists)
  BY <1>1, <1>3, <1>4, <1>5, OneEvent
<1> QED
  BY <1>3, <1>6

\* Every step of the events keeps their invariant and touches no other list.
LEMMA EventMoves ==
  ASSUME TasksInv, Parked, EventInv, EventNext
  PROVE  EventInv' /\ After(EventLists) /\ k'.prio = k.prio
<1>1. PICK e \in Event : \/ \E r \in Read : \/ \E timeout \in app.timeouts : LOS_EventRead(e, r, timeout)
                                            \/ EventReadReturns(e, r)
                         \/ \E set \in Written : \/ LOS_EventWrite(e, set)
                                                 \/ InterruptWrites(e, set)
                                                 \/ LOS_EventClear(e, set)
  BY DEF EventNext
<1>2. app.timeouts \subseteq Timeout
  BY TasksAssumption DEF TasksInv
<1>3. CASE \E set \in Written : LOS_EventClear(e, set)
  <2>1. PICK set \in Written : LOS_EventClear(e, set)
    BY <1>3
  <2>2. Calls("event") /\ ThenReturn(k) /\ bits' = [bits EXCEPT ![e] = bits[e] \cap set]
    BY <2>1 DEF LOS_EventClear
  <2>3. EventList(e) \in PendList
    BY FlagsOfLists
  <2>4. After({}) /\ k'.prio = k.prio
    BY <2>2, <2>3, CallReturnsEffect
  <2>5. After({EventList(e)}) /\ Still(EventList(e))
    BY <2>3, <2>4, AfterNothing
  <2>6. EventInv' /\ After(EventLists)
    BY <2>2, <2>5, EventReturns DEF Still
  <2> QED
    BY <2>4, <2>6
<1>4. CASE \E r \in Read : \/ \E timeout \in app.timeouts : LOS_EventRead(e, r, timeout)
                           \/ EventReadReturns(e, r)
  BY <1>2, <1>4, EventReadMoves
<1>5. CASE \E set \in Written : LOS_EventWrite(e, set) \/ InterruptWrites(e, set)
  BY <1>5, EventWriteMoves
<1> QED
  BY <1>1, <1>3, <1>4, <1>5

-----------------------------------------------------------------------------
(* How often a list has a mutex                                            *)

Places(list, m) == {i \in DOMAIN list : list[i] = m}
Times(list, m) == Cardinality(Places(list, m))

\* Max of a non-empty set of numbers up to n is its greatest element.
LEMMA MaxIsGreatest ==
  ASSUME NEW n \in Nat, NEW S \in SUBSET (1..n), S # {}
  PROVE  Max(S) \in S /\ \A y \in S : y <= Max(S)
<1> DEFINE D == {n - x : x \in S}
<1>0. \A x \in S : x \in 1..n /\ n - x \in Nat /\ x \in Nat
  OBVIOUS
<1>1. D \in SUBSET Nat /\ D # {}
  BY <1>0
<1>2. Min(D) \in D /\ \A y \in D : Min(D) <= y
  BY <1>1, MinIsLeast
<1>3. PICK x \in S : Min(D) = n - x
  BY <1>2
<1>4. ASSUME NEW y \in S PROVE x >= y
  <2>1. n - y \in D
    OBVIOUS
  <2>2. n - x <= n - y
    BY <1>2, <1>3, <2>1
  <2> QED
    BY <1>0, <2>2
<1>5. Max(S) \in S /\ \A y \in S : Max(S) >= y
  BY <1>4 DEF Max
<1> QED
  BY <1>5

\* How often a mutex occurs in a list of mutexes is a number, 0 if nowhere.
LEMMA TimesCounts ==
  ASSUME NEW T, NEW list \in Seq(T), NEW m
  PROVE  /\ IsFiniteSet(Places(list, m)) /\ Times(list, m) \in Nat
         /\ Times(list, m) = 0 <=> \A i \in DOMAIN list : list[i] # m
<1>1. DOMAIN list = 1..Len(list) /\ Len(list) \in Nat
  BY LenProperties
<1>2. IsFiniteSet(1..Len(list)) /\ Places(list, m) \in SUBSET (1..Len(list))
  BY <1>1, FS_Interval DEF Places
<1>3. IsFiniteSet(Places(list, m))
  BY <1>2, FS_Subset
<1>4. Times(list, m) \in Nat /\ (Times(list, m) = 0 <=> Places(list, m) = {})
  BY <1>3, FS_CardinalityType, FS_EmptySet DEF Times
<1> QED
  BY <1>3, <1>4 DEF Places

\* Append adds one.
LEMMA TimesAppended ==
  ASSUME NEW T, NEW list \in Seq(T), NEW x \in T, NEW m
  PROVE  Times(Append(list, x), m) = Times(list, m) + IF m = x THEN 1 ELSE 0
<1>1. PICK n, a : n = Len(list) + 1 /\ a = Append(list, x)
  OBVIOUS
<1>2. /\ DOMAIN list = 1..Len(list) /\ Len(list) \in Nat /\ DOMAIN a = 1..n
      /\ a[n] = x /\ \A i \in 1..Len(list) : a[i] = list[i]
  BY <1>1, LenProperties
<1>3. Places(a, m) = IF m = x THEN Places(list, m) \cup {n} ELSE Places(list, m)
  <2>1. ASSUME NEW i PROVE i \in Places(a, m) <=> i \in Places(list, m) \/ (i = n /\ m = x)
    <3>1. i \in DOMAIN a <=> i \in 1..Len(list) \/ i = n
      BY <1>1, <1>2
    <3>2. i \in 1..Len(list) => a[i] = list[i] /\ i # n
      BY <1>1, <1>2
    <3> QED
      BY <1>2, <3>1, <3>2 DEF Places
  <2> QED
    BY <2>1
<1>4. n \notin Places(list, m)
  BY <1>1, <1>2 DEF Places
<1>5. IsFiniteSet(Places(list, m)) /\ Times(list, m) \in Nat
  BY TimesCounts
<1>6. Cardinality(Places(list, m) \cup {n}) = Cardinality(Places(list, m)) + 1
  BY <1>4, <1>5, FS_AddElement
<1>7. Times(a, m) = Times(list, m) + IF m = x THEN 1 ELSE 0
  BY <1>3, <1>5, <1>6 DEF Times
<1> QED
  BY <1>1, <1>7

\* RemoveAt takes one.
LEMMA TimesRemoved ==
  ASSUME NEW T, NEW list \in Seq(T), NEW p \in DOMAIN list, NEW m
  PROVE  Times(RemoveAt(list, p), m) = Times(list, m) - IF m = list[p] THEN 1 ELSE 0
<1>1. PICK w : w = RemoveAt(list, p)
  OBVIOUS
<1>2. /\ w \in Seq(T) /\ Len(w) = Len(list) - 1
      /\ \A j \in 1..Len(list) - 1 : w[j] = IF j < p THEN list[j] ELSE list[j + 1]
  BY <1>1, RemoveAtPlace
<1>3. /\ DOMAIN list = 1..Len(list) /\ Len(list) \in Nat /\ p \in 1..Len(list)
      /\ DOMAIN w = 1..Len(list) - 1
  BY <1>2, LenProperties
<1> DEFINE A == Places(w, m)
           B == Places(list, m) \ {p}
           f == [j \in A |-> IF j < p THEN j ELSE j + 1]
<1>4. \A j \in A : j \in 1..Len(list) - 1 /\ j \in Int /\ w[j] = m
  BY <1>3 DEF Places
<1>5. f \in [A -> B]
  <2>1. ASSUME NEW j \in A PROVE (IF j < p THEN j ELSE j + 1) \in B
    <3>1. CASE j < p
      BY <1>2, <1>3, <1>4, <3>1 DEF Places
    <3>2. CASE ~(j < p)
      <4>1. j + 1 \in 1..Len(list) /\ j + 1 # p /\ list[j + 1] = m
        BY <1>2, <1>3, <1>4, <3>2
      <4> QED
        BY <1>3, <3>2, <4>1 DEF Places
    <3> QED
      BY <3>1, <3>2
  <2> QED
    BY <2>1
<1>6. \A i, j \in A : f[i] = f[j] => i = j
  BY <1>3, <1>4
<1>7. \A i \in B : \E j \in A : f[j] = i
  <2>1. ASSUME NEW i \in B PROVE \E j \in A : f[j] = i
    <3>1. i \in 1..Len(list) /\ list[i] = m /\ i # p
      BY <1>3 DEF Places
    <3>2. CASE i < p
      <4>1. i \in 1..Len(list) - 1 /\ w[i] = m
        BY <1>2, <1>3, <3>1, <3>2
      <4>2. i \in A
        BY <1>3, <4>1 DEF Places
      <4> QED
        BY <3>2, <4>2
    <3>3. CASE ~(i < p)
      <4>1. i - 1 \in 1..Len(list) - 1 /\ ~(i - 1 < p) /\ (i - 1) + 1 = i
        BY <1>3, <3>1, <3>3
      <4>2. w[i - 1] = m
        BY <1>2, <3>1, <4>1
      <4>3. i - 1 \in A
        BY <1>3, <4>1, <4>2 DEF Places
      <4> QED
        BY <4>1, <4>3
    <3> QED
      BY <3>2, <3>3
  <2> QED
    BY <2>1
<1>8. ExistsBijection(A, B)
  <2> HIDE DEF A, B, f
  <2>1. f \in Bijection(A, B)
    BY <1>5, <1>6, <1>7, Fun_IsBij
  <2> QED
    BY <2>1 DEF ExistsBijection
<1>9. IsFiniteSet(Places(list, m)) /\ IsFiniteSet(Places(w, m))
  BY <1>2, TimesCounts
<1>10. Cardinality(B) = Cardinality(A)
  BY <1>8, <1>9, FS_Bijection
<1>11. Cardinality(B) = IF p \in Places(list, m) THEN Times(list, m) - 1 ELSE Times(list, m)
  BY <1>9, FS_RemoveElement DEF Times
<1>12. p \in Places(list, m) <=> m = list[p]
  BY DEF Places
<1> QED
  BY <1>1, <1>9, <1>10, <1>11, <1>12, TimesCounts DEF Times

\* Forget takes the last of a mutex the list has.
LEMMA ForgetTakes ==
  ASSUME NEW T, NEW list \in Seq(T), NEW m, Times(list, m) > 0
  PROVE  \E p \in DOMAIN list : /\ list[p] = m /\ Forget(list, m) = RemoveAt(list, p)
                                /\ Last(list) = m => p = Len(list)
<1> DEFINE I == {i \in 1..Len(list) : list[i] = m}
<1>1. DOMAIN list = 1..Len(list) /\ Len(list) \in Nat
  BY LenProperties
<1>2. I # {}
  BY <1>1, TimesCounts
<1>3. Max(I) \in I /\ \A y \in I : y <= Max(I)
  <2>1. I \in SUBSET (1..Len(list))
    OBVIOUS
  <2> HIDE DEF I
  <2> QED
    BY <1>1, <1>2, <2>1, MaxIsGreatest
<1>4. SelectLastInSeq(list, LAMBDA n : n = m) = Max(I)
  BY <1>2 DEF SelectLastInSeq
<1>5. Forget(list, m) = RemoveAt(list, Max(I))
  BY <1>4 DEF Forget
<1>6. ASSUME Last(list) = m PROVE Max(I) = Len(list)
  <2>1. Len(list) \in I
    BY <1>1, <1>2, <1>6 DEF Last
  <2> QED
    BY <1>1, <1>3, <2>1
<1> QED
  BY <1>1, <1>3, <1>5, <1>6

-----------------------------------------------------------------------------
(* Mutexes                                                                 *)

MuxLists == {MuxList(m) : m \in Mutex}

\* Every mutex has a list of its own.
LEMMA MutexesApart == \A m, n \in Mutex : MuxList(m) = MuxList(n) => m = n
BY DEF MuxList

\* The locks of a task are counted in its history.
LEMMA LocksAreTimes == \A t, m : Locks(t, m) = Times(holds[t], m)
BY DEF Locks, Times, Places

\* A call that has got m adds one lock.
LEMMA GotLocks ==
  ASSUME holds \in [Task -> Seq(Mutex)], NEW t \in Task, NEW m \in Mutex, Got(t, m)
  PROVE  /\ holds' \in [Task -> Seq(Mutex)]
         /\ \A u \in Task : u # t => holds'[u] = holds[u]
         /\ \A u \in Task, n \in Mutex : Locks(u, n)' = Locks(u, n) + IF u = t /\ n = m THEN 1 ELSE 0
         /\ holds'[t] # <<>> /\ holds'[t][1] = IF holds[t] = <<>> THEN m ELSE holds[t][1]
<1>1. /\ holds' = [holds EXCEPT ![t] = Append(holds[t], m)] /\ holds[t] \in Seq(Mutex)
      /\ Append(holds[t], m) \in Seq(Mutex)
  BY DEF Got
<1>2. /\ holds' \in [Task -> Seq(Mutex)] /\ holds'[t] = Append(holds[t], m)
      /\ \A u \in Task : u # t => holds'[u] = holds[u]
  BY <1>1
<1>3. ASSUME NEW u \in Task, NEW n \in Mutex
      PROVE  Locks(u, n)' = Locks(u, n) + IF u = t /\ n = m THEN 1 ELSE 0
  <2>1. Locks(u, n)' = Times(holds'[u], n) /\ Locks(u, n) = Times(holds[u], n) /\ holds[u] \in Seq(Mutex)
    BY LocksAreTimes DEF Locks, Times, Places
  <2>2. CASE u = t
    <3>1. Times(Append(holds[t], m), n) = Times(holds[t], n) + IF n = m THEN 1 ELSE 0
      BY <1>1, TimesAppended
    <3> QED
      BY <1>2, <2>1, <2>2, <3>1
  <2>3. CASE u # t
    BY <1>2, <2>1, <2>3, TimesCounts
  <2> QED
    BY <2>2, <2>3
<1>4. holds'[t] # <<>> /\ holds'[t][1] = IF holds[t] = <<>> THEN m ELSE holds[t][1]
  <2>1. PICK list, a : list = holds[t] /\ a = Append(list, m)
    OBVIOUS
  <2>2. list \in Seq(Mutex)
    BY <2>1
  <2>3. a # <<>> /\ a[1] = IF list = <<>> THEN m ELSE list[1]
    BY <2>1, <2>2
  <2> QED
    BY <1>2, <2>1, <2>3
<1> QED
  BY <1>2, <1>3, <1>4

\* A call that gives back the newest lock of m takes one; who unlocks in the reverse
\* order keeps the others as they are.
LEMMA ForgotLocks ==
  ASSUME holds \in [Task -> Seq(Mutex)], NEW t \in Task, NEW m \in Mutex, Locks(t, m) > 0,
         holds' = [holds EXCEPT ![t] = Forget(holds[t], m)]
  PROVE  /\ holds' \in [Task -> Seq(Mutex)]
         /\ \A u \in Task : u # t => holds'[u] = holds[u]
         /\ \A u \in Task, n \in Mutex : Locks(u, n)' = Locks(u, n) - IF u = t /\ n = m THEN 1 ELSE 0
         /\ Last(holds[t]) = m =>
              /\ holds'[t] # <<>> => holds[t] # <<>> /\ holds'[t][1] = holds[t][1]
              /\ holds'[t] = <<>> => holds[t] # <<>> /\ holds[t][1] = m
<1>1. PICK list : list = holds[t]
  OBVIOUS
<1>2. list \in Seq(Mutex) /\ Times(list, m) > 0
  BY <1>1, LocksAreTimes
<1>3. PICK p \in DOMAIN list : /\ list[p] = m /\ Forget(list, m) = RemoveAt(list, p)
                               /\ Last(list) = m => p = Len(list)
  BY <1>2, ForgetTakes
<1>4. PICK w : w = RemoveAt(list, p)
  OBVIOUS
<1>5. /\ w \in Seq(Mutex) /\ Len(w) = Len(list) - 1
      /\ \A j \in 1..Len(list) - 1 : w[j] = IF j < p THEN list[j] ELSE list[j + 1]
  BY <1>2, <1>4, RemoveAtPlace
<1>6. holds' = [holds EXCEPT ![t] = w]
  BY <1>1, <1>3, <1>4
<1>7. holds' \in [Task -> Seq(Mutex)] /\ holds'[t] = w /\ \A u \in Task : u # t => holds'[u] = holds[u]
  BY <1>5, <1>6
<1>8. ASSUME NEW u \in Task, NEW n \in Mutex
      PROVE  Locks(u, n)' = Locks(u, n) - IF u = t /\ n = m THEN 1 ELSE 0
  <2>1. Locks(u, n)' = Times(holds'[u], n) /\ Locks(u, n) = Times(holds[u], n) /\ holds[u] \in Seq(Mutex)
    BY LocksAreTimes DEF Locks, Times, Places
  <2>2. CASE u = t
    <3>1. Times(w, n) = Times(list, n) - IF n = m THEN 1 ELSE 0
      BY <1>2, <1>3, <1>4, TimesRemoved
    <3> QED
      BY <1>1, <1>7, <2>1, <2>2, <3>1
  <2>3. CASE u # t
    BY <1>7, <2>1, <2>3, TimesCounts
  <2> QED
    BY <2>2, <2>3
<1>9. ASSUME Last(list) = m
      PROVE  /\ w # <<>> => list # <<>> /\ w[1] = list[1]
             /\ w = <<>> => list # <<>> /\ list[1] = m
  <2>1. p = Len(list) /\ p \in 1..Len(list) /\ list[p] = m /\ Len(list) \in Nat
    BY <1>2, <1>3, <1>9, LenProperties
  <2>2. CASE Len(list) = 1
    <3>1. w = <<>>
      BY <1>5, <2>2, EmptySeq
    <3>2. list = <<>> => DOMAIN list = {}
      OBVIOUS
    <3> QED
      BY <1>3, <2>1, <2>2, <3>1, <3>2
  <2>3. CASE Len(list) > 1
    <3>1. w # <<>> /\ list # <<>>
      BY <1>5, <2>1, <2>3
    <3>2. w[1] = list[1]
      BY <1>5, <2>1, <2>3
    <3> QED
      BY <3>1, <3>2
  <2> QED
    BY <2>1, <2>2, <2>3
<1> QED
  BY <1>1, <1>7, <1>8, <1>9

\* What the locks of a task say about the mutexes.
LEMMA LocksTell ==
  ASSUME MutexesOK, MutexInv, NEW t \in Task
  PROVE  /\ \A m \in Mutex : Locks(t, m) \in Nat
         /\ \A m \in Mutex : Locks(t, m) > 0 =>
              /\ mux[m].count > 0 /\ mux[m].owner = t /\ mux[m].count = Locks(t, m)
              /\ t \notin Grants(MuxList(m)) /\ holds[t] # <<>>
         /\ holds[t] # <<>> => holds[t][1] \in Mutex /\ Locks(t, holds[t][1]) > 0
         /\ Owns(t) => holds[t] # <<>> \/ \E m \in Mutex : t \in Grants(MuxList(m))
<1>1. holds[t] \in Seq(Mutex) /\ \A m \in Mutex : MutexOK(m) /\ mux[m].count \in Nat
  BY DEF MutexInv, MutexesOK
<1>2. ASSUME NEW m \in Mutex
      PROVE  /\ Locks(t, m) \in Nat
             /\ Locks(t, m) = 0 <=> \A i \in DOMAIN holds[t] : holds[t][i] # m
  BY <1>1, LocksAreTimes, TimesCounts
<1>3. holds[t] = <<>> => DOMAIN holds[t] = {}
  OBVIOUS
<1>4. ASSUME NEW m \in Mutex, Locks(t, m) > 0
      PROVE  /\ mux[m].count > 0 /\ mux[m].owner = t /\ mux[m].count = Locks(t, m)
             /\ t \notin Grants(MuxList(m)) /\ holds[t] # <<>>
  <2>1. holds[t] # <<>>
    BY <1>2, <1>3, <1>4
  <2>2. mux[m].count > 0
    BY <1>1, <1>4 DEF MutexOK
  <2>3. mux[m].owner = t
    BY <1>1, <1>4, <2>2 DEF MutexOK
  <2> QED
    BY <1>1, <1>4, <2>1, <2>2, <2>3 DEF MutexOK
<1>5. ASSUME holds[t] # <<>> PROVE holds[t][1] \in Mutex /\ Locks(t, holds[t][1]) > 0
  <2>1. 1 \in DOMAIN holds[t] /\ holds[t][1] \in Mutex
    BY <1>1, <1>5
  <2> QED
    BY <1>2, <2>1
<1>6. ASSUME NEW m \in Mutex, mux[m].count > 0, mux[m].owner = t
      PROVE  holds[t] # <<>> \/ t \in Grants(MuxList(m))
  <2>1. ASSUME t \notin Grants(MuxList(m)) PROVE Locks(t, m) > 0
    BY <1>1, <1>6, <2>1 DEF MutexOK
  <2> QED
    BY <1>4, <2>1
<1> QED
  BY <1>2, <1>4, <1>5, <1>6 DEF Owns

\* A step that is not about mutexes.
LEMMA MutexesStill ==
  ASSUME MutexInv, UNCHANGED mutexVars, \A m \in Mutex : Still(MuxList(m))
  PROVE  MutexInv'
<1>1. mux' = mux /\ holds' = holds
  BY DEF mutexVars
<1>2. \A t \in Task, m \in Mutex : Locks(t, m)' = Locks(t, m)
  BY <1>1 DEF Locks
<1>3. ASSUME NEW m \in Mutex PROVE MutexOK(m)'
  <2>1. MutexOK(m) /\ Grants(MuxList(m))' = Grants(MuxList(m)) /\ Waiting(MuxList(m))' \subseteq Waiting(MuxList(m))
    BY DEF MutexInv, Still
  <2>2. ASSUME mux[m].count = 0 PROVE MutexOK(m)'
    BY <1>1, <1>2, <2>1, <2>2 DEF MutexOK
  <2>3. ASSUME mux[m].count # 0, ~(mux[m].count > 0) PROVE MutexOK(m)'
    BY <1>1, <2>3 DEF MutexOK
  <2>4. ASSUME mux[m].count > 0 PROVE MutexOK(m)'
    <3>1. Locks(mux[m].owner, m)' = Locks(mux[m].owner, m)
      BY <1>1 DEF Locks
    <3> QED
      BY <1>1, <1>2, <2>1, <2>4, <3>1 DEF MutexOK
  <2> QED
    BY <2>2, <2>3, <2>4
<1> QED
  BY <1>1, <1>3 DEF MutexInv

\* A step that changes no mutex, owner or priority keeps what priorities rely on.
LEMMA PrioritiesStill ==
  ASSUME PrioInv, UNCHANGED mutexVars, app' = app, \A m \in Mutex : Still(MuxList(m)),
         "priset" \notin app.calls => k'.prio = k.prio
  PROVE  PrioInv'
<1>1. mux' = mux /\ holds' = holds
  BY DEF mutexVars
<1>2. ASSUME {"anyorder", "priset"} \cap app.calls = {}, NEW t \in Task PROVE Prioritised(t)'
  <2>1. Prioritised(t) /\ k'.prio = k.prio /\ (Owns(t)' <=> Owns(t))
    BY <1>1, <1>2 DEF PrioInv, Owns
  <2>2. \A m \in Mutex : Grants(MuxList(m))' = Grants(MuxList(m))
    BY DEF Still
  <2> QED
    BY <1>1, <2>1, <2>2 DEF Prioritised
<1> QED
  BY <1>2 DEF PrioInv

\* A step that is about one mutex: the other mutexes, and the tasks whose history
\* and priority stay, are as they were.
LEMMA OneMutex ==
  ASSUME MutexInv, NEW m \in Mutex, After({MuxList(m)}), holds' \in [Task -> Seq(Mutex)],
         \A n \in Mutex : n # m => mux'[n] = mux[n],
         \A t \in Task, n \in Mutex : n # m => Locks(t, n)' = Locks(t, n),
         \A n \in Mutex : mux[n].count > 0 => mux[n].owner \in Task,
         MutexOK(m)'
  PROVE  MutexInv' /\ After(MuxLists)
<1>1. ASSUME NEW n \in Mutex, n # m PROVE MutexOK(n)'
  <2>1. MuxList(n) \in PendList /\ MuxList(n) \notin {MuxList(m)}
    BY <1>1, FlagsOfLists, MutexesApart
  <2>2. Still(MuxList(n))
    BY <2>1 DEF After
  <2>3. MutexOK(n) /\ mux'[n] = mux[n]
    BY <1>1 DEF MutexInv
  <2>4. Grants(MuxList(n))' = Grants(MuxList(n)) /\ Waiting(MuxList(n))' \subseteq Waiting(MuxList(n))
    BY <2>2 DEF Still
  <2>5. \A t \in Task : Locks(t, n)' = Locks(t, n)
    BY <1>1
  <2>6. mux[n].count > 0 => Locks(mux[n].owner, n)' = Locks(mux[n].owner, n)
    <3>1. ASSUME mux[n].count > 0 PROVE Locks(mux[n].owner, n)' = Locks(mux[n].owner, n)
      <4>1. PICK t \in Task : t = mux[n].owner
        BY <3>1
      <4>2. Locks(t, n)' = Locks(t, n)
        BY <2>5
      <4> QED
        BY <4>1, <4>2, <2>3
    <3> QED
      BY <3>1
  <2> QED
    BY <2>3, <2>4, <2>5, <2>6 DEF MutexOK
<1>2. After(MuxLists)
  <2>1. \A l \in PendList : l \notin MuxLists => l \notin {MuxList(m)}
    BY DEF MuxLists
  <2> QED
    BY <2>1 DEF After
<1> QED
  BY <1>1, <1>2 DEF MutexInv

\* A task about which nothing changed, but that it may own another mutex.
LEMMA PriorityKept ==
  ASSUME MutexesOK, MutexInv, NEW u \in Task, Prioritised(u), app' = app, NEW m \in Mutex,
         \A n \in Mutex : n # m => mux'[n] = mux[n],
         holds'[u] = holds[u], k'.prio[u] = k.prio[u],
         Owns(u) => Owns(u)',
         mux'[m].prio # mux[m].prio => Locks(u, m) = 0 /\ u \notin Grants(MuxList(m))',
         \A n \in Mutex : u \in Grants(MuxList(n))' => u \in Grants(MuxList(n))
  PROVE  Prioritised(u)'
<1>1. ASSUME holds[u] # <<>> PROVE mux'[holds[u][1]].prio = mux[holds[u][1]].prio
  <2>1. holds[u][1] \in Mutex /\ Locks(u, holds[u][1]) > 0
    BY <1>1, LocksTell
  <2> QED
    BY <2>1
<1>2. ASSUME NEW n \in Mutex, u \in Grants(MuxList(n))'
      PROVE  u \in Grants(MuxList(n)) /\ mux'[n].prio = mux[n].prio
  BY <1>2
<1> QED
  BY <1>1, <1>2 DEF Prioritised

\* An owner stays one.
LEMMA StillOwns ==
  ASSUME NEW u, NEW m \in Mutex, \A n \in Mutex : n # m => mux'[n] = mux[n],
         mux[m].count > 0 /\ mux[m].owner = u => mux'[m].count > 0 /\ mux'[m].owner = u
  PROVE  Owns(u) => Owns(u)'
BY DEF Owns

\* A mutex is created free, and deleted only when nobody has it or waits.
LEMMA MutexLifeMoves ==
  ASSUME TasksInv, Parked, MutexesOK, MutexInv, PrioInv, app' = app, NEW m \in Mutex,
         LOS_MuxCreate(m) \/ LOS_MuxDelete(m)
  PROVE  MutexInv' /\ PrioInv' /\ After(MuxLists)
<1>1. /\ MuxList(m) \in PendList /\ MutexOK(m) /\ \A n \in Mutex : mux[n].count > 0 => mux[n].owner \in Task
      /\ mux \in [Mutex -> [used : BOOLEAN, count : Nat, owner : Task \cup {None}, prio : 0..Lowest]]
      /\ holds \in [Task -> Seq(Mutex)]
  BY FlagsOfLists DEF MutexInv, MutexesOK
<1>2. /\ Calls("life") /\ ThenReturn(k) /\ holds' = holds /\ mux[m].count = 0
      /\ mux' \in {[mux EXCEPT ![m] = Free], [mux EXCEPT ![m].used = FALSE]}
  <2>1. CASE LOS_MuxCreate(m)
    <3>1. Calls("life") /\ ThenReturn(k) /\ holds' = holds /\ ~mux[m].used /\ mux' = [mux EXCEPT ![m] = Free]
      BY <2>1 DEF LOS_MuxCreate
    <3>2. mux[m].count = 0
      BY <1>1, <3>1 DEF MutexOK
    <3> QED
      BY <3>1, <3>2
  <2>2. CASE LOS_MuxDelete(m)
    BY <2>2 DEF LOS_MuxDelete
  <2> QED
    BY <2>1, <2>2
<1>3. mux'[m].count = 0 /\ \A n \in Mutex : n # m => mux'[n] = mux[n]
  BY <1>1, <1>2 DEF Free
<1>4. After({}) /\ k'.prio = k.prio
  BY <1>1, <1>2, CallReturnsEffect
<1>5. After({MuxList(m)}) /\ Still(MuxList(m)) /\ \A l \in PendList : Grants(l)' = Grants(l)
  BY <1>1, <1>4, AfterNothing DEF After, Still
<1>6. /\ Grants(MuxList(m)) = {} /\ Waiting(MuxList(m)) = {} /\ Grants(MuxList(m))' = {}
      /\ Waiting(MuxList(m))' = {} /\ \A t \in Task : Locks(t, m) = 0
  BY <1>1, <1>2, <1>5 DEF MutexOK, Still
<1>7. \A t, n : Locks(t, n)' = Locks(t, n)
  BY <1>2 DEF Locks
<1>8. MutexOK(m)'
  BY <1>3, <1>6, <1>7 DEF MutexOK
<1>9. MutexInv' /\ After(MuxLists)
  BY <1>1, <1>2, <1>3, <1>5, <1>7, <1>8, OneMutex
<1>10. ASSUME {"anyorder", "priset"} \cap app.calls = {}, NEW u \in Task PROVE Prioritised(u)'
  <2>1. Prioritised(u) /\ (Owns(u) => Owns(u)')
    BY <1>2, <1>3, <1>10, StillOwns DEF PrioInv
  <2>2. \A n \in Mutex : u \in Grants(MuxList(n))' => u \in Grants(MuxList(n))
    BY <1>5, FlagsOfLists
  <2> QED
    BY <1>2, <1>3, <1>4, <1>6, <2>1, <2>2, PriorityKept
<1> QED
  BY <1>9, <1>10 DEF PrioInv

\* A mutex that is free, or that the caller owns already, is its own at once.
LEMMA MutexTaken ==
  ASSUME TasksInv, Parked, MutexesOK, MutexInv, PrioInv, app' = app, NEW m \in Mutex,
         Calls("mutex"), mux[m].used, PendFree(m) \/ PendAgain(m)
  PROVE  MutexInv' /\ PrioInv' /\ After(MuxLists)
<1>1. /\ MuxList(m) \in PendList /\ MutexOK(m) /\ \A n \in Mutex : mux[n].count > 0 => mux[n].owner \in Task
      /\ mux \in [Mutex -> [used : BOOLEAN, count : Nat, owner : Task \cup {None}, prio : 0..Lowest]]
      /\ holds \in [Task -> Seq(Mutex)]
  BY FlagsOfLists DEF MutexInv, MutexesOK
<1>2. PICK r : r = k.run
  OBVIOUS
<1>3. r \in Task /\ \A l \in PendList : r \notin Grants(l) /\ r \notin Waiting(l)
  BY <1>2, CallersRun, RunnersFacts
<1>4. /\ Got(r, m) /\ ThenReturn(k)
      /\ \/ mux[m].count = 0 /\ mux' = [mux EXCEPT ![m] = [used |-> TRUE, count |-> 1, owner |-> r, prio |-> k.prio[r]]]
         \/ mux[m].count > 0 /\ mux[m].owner = r /\ mux' = [mux EXCEPT ![m].count = mux[m].count + 1]
  BY <1>1, <1>2 DEF PendFree, PendAgain, OwnedBy
<1>5. /\ mux'[m].count = mux[m].count + 1 /\ mux'[m].owner = r /\ mux'[m].used
      /\ mux[m].count > 0 => mux[m].owner = r /\ mux'[m].prio = mux[m].prio
      /\ mux[m].count = 0 => mux'[m].prio = k.prio[r]
      /\ mux[m].count \in Nat
      /\ \A n \in Mutex : n # m => mux'[n] = mux[n]
  <2>1. mux[m].count \in Nat /\ mux[m] = [mux[m] EXCEPT !.count = mux[m].count] /\ mux[m].used
    BY <1>1
  <2>2. CASE mux[m].count = 0 /\ mux' = [mux EXCEPT ![m] = [used |-> TRUE, count |-> 1, owner |-> r, prio |-> k.prio[r]]]
    BY <1>1, <2>1, <2>2
  <2>3. CASE mux[m].count > 0 /\ mux[m].owner = r /\ mux' = [mux EXCEPT ![m].count = mux[m].count + 1]
    <3>1. mux'[m] = [mux[m] EXCEPT !.count = mux[m].count + 1] /\ \A n \in Mutex : n # m => mux'[n] = mux[n]
      BY <1>1, <2>3
    <3>2. mux'[m].count = mux[m].count + 1 /\ mux'[m].owner = mux[m].owner /\ mux'[m].used = mux[m].used /\ mux'[m].prio = mux[m].prio
      <4>1. mux[m] \in [used : BOOLEAN, count : Nat, owner : Task \cup {None}, prio : 0..Lowest]
        BY <1>1
      <4>2. mux'[m] = [mux[m] EXCEPT !.count = mux[m].count + 1]
        BY <3>1
      <4> QED
        BY <4>1, <4>2
    <3> QED
      BY <2>1, <2>3, <3>1, <3>2
  <2> QED
    BY <1>4, <2>2, <2>3
<1>6. /\ holds' \in [Task -> Seq(Mutex)]
      /\ \A u \in Task : u # r => holds'[u] = holds[u]
      /\ \A u \in Task, n \in Mutex : Locks(u, n)' = Locks(u, n) + IF u = r /\ n = m THEN 1 ELSE 0
      /\ holds'[r] # <<>> /\ holds'[r][1] = IF holds[r] = <<>> THEN m ELSE holds[r][1]
  BY <1>1, <1>3, <1>4, GotLocks
<1>7. After({}) /\ k'.prio = k.prio
  BY <1>1, <1>4, CallReturnsEffect
<1>8. After({MuxList(m)}) /\ Still(MuxList(m)) /\ \A l \in PendList : Grants(l)' = Grants(l)
  BY <1>1, <1>7, AfterNothing DEF After, Still
<1>9. \A t \in Task, n \in Mutex : Locks(t, n) \in Nat /\ (t # r \/ n # m => Locks(t, n)' = Locks(t, n))
  BY <1>6, LocksTell
<1>10. /\ \A t \in Task : t # r => t \notin Grants(MuxList(m)) /\ Locks(t, m) = 0
       /\ Locks(r, m) = mux[m].count
  <2>1. CASE mux[m].count = 0
    BY <1>1, <1>3, <2>1 DEF MutexOK
  <2>2. CASE mux[m].count > 0
    BY <1>1, <1>3, <1>5, <2>2 DEF MutexOK
  <2> QED
    BY <1>5, <2>1, <2>2
<1>11. MutexOK(m)'
  <2>1. r \notin Waiting(MuxList(m))' /\ Grants(MuxList(m))' = Grants(MuxList(m))
    BY <1>1, <1>3, <1>8 DEF Still
  <2>2. Locks(r, m)' = mux'[m].count /\ \A t \in Task : t # r => Locks(t, m)' = 0
    BY <1>3, <1>5, <1>6, <1>9, <1>10
  <2>3. mux'[m].count > 0
    BY <1>5
  <2>4. Locks(mux[m].owner, m)' = Locks(r, m)'
    BY <1>5 DEF Locks
  <2> QED
    BY <1>1, <1>3, <1>5, <1>10, <2>1, <2>2, <2>3, <2>4 DEF MutexOK
<1>12. MutexInv' /\ After(MuxLists)
  BY <1>1, <1>5, <1>6, <1>8, <1>9, <1>11, OneMutex
<1>13. ASSUME {"anyorder", "priset"} \cap app.calls = {}, NEW u \in Task PROVE Prioritised(u)'
  <2>1. Prioritised(u)
    BY <1>13 DEF PrioInv
  <2>2. CASE u # r
    <3>1. Owns(u) => Owns(u)'
      BY <1>1, <1>5, <2>2, StillOwns
    <3>2. \A n \in Mutex : u \in Grants(MuxList(n))' => u \in Grants(MuxList(n))
      BY <1>8, FlagsOfLists
    <3>3. Locks(u, m) = 0 /\ u \notin Grants(MuxList(m))'
      BY <1>1, <1>8, <1>10, <2>2
    <3> QED
      BY <1>5, <1>6, <1>7, <2>1, <2>2, <3>1, <3>2, <3>3, PriorityKept
  <2>3. CASE u = r
    <3>1. Owns(u)'
      BY <1>5, <2>3 DEF Owns
    <3>2. holds'[u] # <<>>
      BY <1>6, <2>3
    <3>3. mux'[holds'[u][1]].prio = app.prio[u]
      <4>1. CASE holds[u] = <<>>
        <5>1. ~Owns(u)
          BY <1>3, <2>3, <4>1, LocksTell, FlagsOfLists
        <5>2. Locks(u, m) = 0 /\ mux[m].count = 0
          <6>1. ~(Locks(u, m) > 0) /\ Locks(u, m) \in Nat
            BY <4>1, LocksTell
          <6> QED
            BY <1>10, <2>3, <6>1
        <5>3. mux'[m].prio = k.prio[u] /\ k.prio[u] = app.prio[u]
          BY <1>5, <2>1, <2>3, <5>1, <5>2 DEF Prioritised
        <5> QED
          BY <1>6, <2>3, <4>1, <5>3
      <4>2. CASE holds[u] # <<>>
        <5>1. PICK n : n = holds[u][1]
          OBVIOUS
        <5>2. n \in Mutex /\ mux[n].count > 0 /\ mux[n].prio = app.prio[u]
          BY <2>1, <4>2, <5>1, LocksTell DEF Prioritised
        <5>3. mux'[n].prio = mux[n].prio
          BY <1>5, <5>2
        <5> QED
          BY <1>6, <2>3, <4>2, <5>1, <5>2, <5>3
      <4> QED
        BY <4>1, <4>2
    <3> QED
      BY <1>13, <3>1, <3>2, <3>3 DEF Prioritised
  <2> QED
    BY <2>2, <2>3
<1> QED
  BY <1>12, <1>13 DEF PrioInv

\* A mutex another task owns: the caller waits, and the owner may inherit its
\* priority.
LEMMA MutexWaits ==
  ASSUME TasksInv, Parked, MutexesOK, MutexInv, PrioInv, app' = app, NEW m \in Mutex,
         Calls("mutex"), mux[m].used, NEW timeout, PendWait(m, timeout)
  PROVE  MutexInv' /\ PrioInv' /\ After(MuxLists)
<1>1. PICK l : l = MuxList(m)
  OBVIOUS
<1>2. PICK r, o : r = k.run /\ o = mux[m].owner
  OBVIOUS
<1>3. PICK s : s = IF k.prio[o] > k.prio[r] THEN osTaskPriModify(k, o, k.prio[r]) ELSE k
  OBVIOUS
<1>4. PICK timed : timed = (timeout = "ticks")
  OBVIOUS
<1>5. /\ mux[m].count > 0 /\ o # r /\ mux' = mux /\ holds' = holds
      /\ ThenSchedule(osTaskWait(s, l, "PEND", timed), For(l, None))
  BY <1>1, <1>2, <1>3, <1>4 DEF PendWait, mutexVars
<1>6. /\ l \in PendList /\ FlagOf(l) = "PEND" /\ For(l, None) \in Args(l) /\ MutexOK(m)
      /\ o \in Task /\ holds \in [Task -> Seq(Mutex)]
      /\ \A n \in Mutex : mux[n].count > 0 => mux[n].owner \in Task
  BY <1>1, <1>2, <1>5, FlagsOfLists, ArgsOf DEF MutexInv, MutexesOK
<1>7. Running /\ at[k.run] = "app" /\ Links(k) /\ r \in Task
  BY <1>2, CallersRun DEF TasksInv, Running
<1>8. /\ Links(s) /\ s.status = k.status /\ s.pend = k.pend /\ SameRun(s, k)
      /\ \A u \in Task : u # o => s.prio[u] = k.prio[u]
  <2>1. CASE s = k
    BY <1>7, <2>1 DEF SameRun
  <2>2. CASE s = osTaskPriModify(k, o, k.prio[r])
    <3>1. k.prio[r] \in 0..Lowest /\ k.prio \in [AnyTask -> 0..Lowest] /\ Task \subseteq AnyTask
      BY <1>7 DEF Links, KState, AnyTask
    <3>2. Reprioritised(s, k, o, k.prio[r])
      BY <1>6, <1>7, <2>2, <3>1, PriModifyLinks
    <3> QED
      BY <1>6, <3>1, <3>2 DEF Reprioritised
  <2> QED
    BY <1>3, <2>1, <2>2
<1>9. /\ Parked' /\ Joined(l, r, For(l, None), timed) /\ (\A n \in PendList : n # l => Still(n))
      /\ k'.prio = s.prio
  BY <1>2, <1>5, <1>6, <1>7, <1>8, WaitEffect
<1>10. k'.fault = k.fault
  <2>1. r = s.run /\ s \in KState /\ FlagOf(l) \in Blocking
    BY <1>2, <1>6, <1>8 DEF Links, SameRun, Blocking
  <2>2. WaitSpec(osTaskWait(s, l, FlagOf(l), timed), s, r, l, FlagOf(l), timed)
    BY <1>6, <1>7, <2>1, WaitFields
  <2> QED
    BY <1>5, <1>6, <1>8, <2>2 DEF WaitSpec, SameRun, ThenSchedule
<1>11. After({l})
  BY <1>9, <1>10 DEF After
<1>12. Waiting(l)' = Waiting(l) \cup {r} /\ Grants(l)' = Grants(l)
  BY <1>9 DEF Joined
<1>13. \A u, n : Locks(u, n)' = Locks(u, n)
  BY <1>5 DEF Locks
<1>14. MutexOK(m)'
  <2>1. Locks(mux[m].owner, m)' = Locks(mux[m].owner, m)
    BY <1>5 DEF Locks
  <2>2. /\ mux[m].used /\ o \notin Waiting(l)
        /\ \A u \in Task \ {o} : u \notin Grants(l) /\ Locks(u, m) = 0
        /\ IF o \in Grants(l) THEN mux[m].count = 1 /\ Locks(o, m) = 0 ELSE mux[m].count = Locks(o, m)
    BY <1>1, <1>2, <1>5, <1>6 DEF MutexOK
  <2>3. mux'[m] = mux[m] /\ mux[m].count # 0 /\ o \notin Waiting(l)'
    BY <1>5, <1>12, <2>2
  <2> QED
    BY <1>1, <1>2, <1>5, <1>12, <1>13, <2>1, <2>2, <2>3 DEF MutexOK
<1>15. MutexInv' /\ After(MuxLists)
  BY <1>1, <1>5, <1>6, <1>11, <1>13, <1>14, OneMutex
<1>16. ASSUME {"anyorder", "priset"} \cap app.calls = {}, NEW u \in Task PROVE Prioritised(u)'
  <2>1. Prioritised(u) /\ (Owns(u) => Owns(u)')
    BY <1>5, <1>16 DEF PrioInv, Owns
  <2>2. \A n \in Mutex : u \in Grants(MuxList(n))' => u \in Grants(MuxList(n))
    BY <1>1, <1>9, <1>12, FlagsOfLists DEF Still
  <2>3. CASE u # o
    <3>1. holds'[u] = holds[u] /\ k'.prio[u] = k.prio[u]
      BY <1>5, <1>8, <1>9, <2>3
    <3> QED
      BY <1>5, <2>1, <2>2, <3>1, PriorityKept
  <2>4. CASE u = o
    <3>1. Owns(u)'
      BY <1>2, <1>5, <2>4 DEF Owns
    <3> QED
      BY <1>5, <2>1, <2>2, <3>1 DEF Prioritised
  <2> QED
    BY <2>3, <2>4
<1> QED
  BY <1>15, <1>16 DEF PrioInv

\* LOS_MuxPend goes on behind its LOS_Schedule: the caller owns the mutex, or
\* its time is over.
LEMMA MutexPendReturns ==
  ASSUME TasksInv, Parked, MutexesOK, MutexInv, PrioInv, app' = app, NEW m \in Mutex, MuxPendReturns(m)
  PROVE  MutexInv' /\ PrioInv' /\ After(MuxLists)
<1>1. PICK l : l = MuxList(m)
  OBVIOUS
<1>2. PICK r : r = k.run
  OBVIOUS
<1>3. /\ l \in PendList /\ For(l, None) \in Args(l) /\ MutexOK(m)
      /\ \A n \in Mutex : mux[n].count > 0 => mux[n].owner \in Task
      /\ \A n \in Mutex : mux[n].count \in Nat
      /\ holds \in [Task -> Seq(Mutex)]
  BY <1>1, FlagsOfLists, ArgsOf DEF MutexInv, MutexesOK
<1>4. /\ Checks(For(l, None)) /\ ThenReturn(Cleared(k)) /\ mux' = mux
      /\ TimedOut(r) => holds' = holds
      /\ ~TimedOut(r) => Got(r, m)
  BY <1>1, <1>2 DEF MuxPendReturns
<1>5. /\ After({l}) /\ Handed(l, {}, {r}) /\ k'.prio = k.prio /\ r \in Task /\ r \notin Waiting(l)
      /\ r \in Grants(l) <=> ~TimedOut(r)
  BY <1>2, <1>3, <1>4, CheckReturnsEffect
<1>6. Waiting(l)' = Waiting(l) /\ Grants(l)' = Grants(l) \ {r}
  BY <1>5 DEF Handed
<1>7. \A u \in Task, n \in Mutex : u \in Grants(MuxList(n))' => u \in Grants(MuxList(n))
  <2>1. \A n \in Mutex : MuxList(n) = l \/ Still(MuxList(n))
    BY <1>5, FlagsOfLists DEF After
  <2> QED
    BY <1>6, <2>1 DEF Still
<1>8. CASE TimedOut(r)
  <2>1. Grants(l)' = Grants(l)
    BY <1>5, <1>6, <1>8
  <2>2. \A u, n : Locks(u, n)' = Locks(u, n)
    BY <1>4, <1>8 DEF Locks
  <2>3. MutexOK(m)'
    <3>1. Locks(mux[m].owner, m)' = Locks(mux[m].owner, m)
      BY <1>4, <1>8 DEF Locks
    <3>2. mux[m].count = 0 \/ mux[m].count > 0
      BY <1>3
    <3>3. CASE mux[m].count = 0
      BY <1>1, <1>3, <1>4, <1>6, <2>1, <2>2, <3>1, <3>3 DEF MutexOK
    <3>4. CASE mux[m].count > 0
      BY <1>1, <1>3, <1>4, <1>6, <2>1, <2>2, <3>1, <3>4 DEF MutexOK
    <3> QED
      BY <3>2, <3>3, <3>4
  <2>4. MutexInv' /\ After(MuxLists)
    BY <1>1, <1>3, <1>4, <1>5, <1>8, <2>2, <2>3, OneMutex
  <2>5. ASSUME {"anyorder", "priset"} \cap app.calls = {}, NEW u \in Task PROVE Prioritised(u)'
    <3>1. Prioritised(u) /\ (Owns(u) => Owns(u)')
      BY <1>4, <2>5 DEF PrioInv, Owns
    <3>2. holds'[u] = holds[u] /\ k'.prio[u] = k.prio[u]
      BY <1>4, <1>5, <1>8
    <3> QED
      BY <1>4, <1>7, <2>5, <3>1, <3>2, PriorityKept
  <2> QED
    BY <2>4, <2>5 DEF PrioInv
<1>9. CASE ~TimedOut(r)
  <2>1. /\ holds' \in [Task -> Seq(Mutex)]
        /\ \A u \in Task : u # r => holds'[u] = holds[u]
        /\ \A u \in Task, n \in Mutex : Locks(u, n)' = Locks(u, n) + IF u = r /\ n = m THEN 1 ELSE 0
        /\ holds'[r] # <<>> /\ holds'[r][1] = IF holds[r] = <<>> THEN m ELSE holds[r][1]
    BY <1>3, <1>4, <1>5, <1>9, GotLocks
  <2>2. \A t \in Task, n \in Mutex : Locks(t, n) \in Nat /\ (t # r \/ n # m => Locks(t, n)' = Locks(t, n))
    BY <2>1, LocksTell
  <2>3. /\ mux[m].count = 1 /\ mux[m].owner = r /\ mux[m].used /\ Locks(r, m) = 0
        /\ \A u \in Task \ {r} : u \notin Grants(l) /\ Locks(u, m) = 0
    <3>1. mux[m].count > 0
      BY <1>1, <1>3, <1>5, <1>9 DEF MutexOK
    <3>2. mux[m].owner = r
      BY <1>1, <1>3, <1>5, <1>9, <3>1 DEF MutexOK
    <3> QED
      BY <1>1, <1>3, <1>5, <1>9, <3>1, <3>2 DEF MutexOK
  <2>4. MutexOK(m)'
    <3>1. r \notin Grants(l)' /\ r \notin Waiting(l)' /\ \A u \in Task \ {r} : u \notin Grants(l)'
      BY <1>5, <1>6, <2>3
    <3>2. Locks(r, m)' = 1 /\ \A u \in Task \ {r} : Locks(u, m)' = 0
      BY <1>5, <2>1, <2>2, <2>3
    <3>3. mux'[m] = mux[m] /\ mux'[m].owner = r /\ mux'[m].count = 1
      BY <1>4, <2>3
    <3>4. Locks(mux[m].owner, m)' = Locks(r, m)'
      BY <3>3 DEF Locks
    <3> QED
      BY <1>1, <1>4, <2>3, <3>1, <3>2, <3>3, <3>4 DEF MutexOK
  <2>5. MutexInv' /\ After(MuxLists)
    BY <1>1, <1>3, <1>4, <1>5, <2>1, <2>2, <2>4, OneMutex
  <2>6. ASSUME {"anyorder", "priset"} \cap app.calls = {}, NEW u \in Task PROVE Prioritised(u)'
    <3>1. Prioritised(u) /\ (Owns(u) => Owns(u)')
      BY <1>4, <2>6 DEF PrioInv, Owns
    <3>2. CASE u # r
      <4>1. holds'[u] = holds[u] /\ k'.prio[u] = k.prio[u]
        BY <1>5, <2>1, <3>2
      <4> QED
        BY <1>4, <1>7, <2>6, <3>1, <4>1, PriorityKept
    <3>3. CASE u = r
      <4>1. Owns(u)' /\ holds'[u] # <<>>
        BY <1>4, <2>1, <2>3, <3>3 DEF Owns
      <4>2. mux'[holds'[u][1]].prio = app.prio[u]
        <5>1. CASE holds[u] = <<>>
          BY <1>1, <1>4, <1>5, <1>9, <2>1, <3>1, <3>3, <5>1 DEF Prioritised
        <5>2. CASE holds[u] # <<>>
          BY <1>4, <2>1, <3>1, <3>3, <5>2 DEF Prioritised
        <5> QED
          BY <5>1, <5>2
      <4> QED
        BY <2>6, <4>1, <4>2 DEF Prioritised
    <3> QED
      BY <3>2, <3>3
  <2> QED
    BY <2>5, <2>6 DEF PrioInv
<1> QED
  BY <1>8, <1>9

\* The priority a mutex saved is the caller's again after its last unlock: what
\* the priority of a task is supposed to be when it has just unlocked m.
LEMMA PriorityReturned ==
  ASSUME MutexesOK', MutexInv', holds \in [Task -> Seq(Mutex)], NEW r \in Task, Prioritised(r), app' = app,
         NEW m \in Mutex, Locks(r, m) > 0, Last(holds[r]) = m,
         holds' = [holds EXCEPT ![r] = Forget(holds[r], m)],
         Owns(r)' \/ k'.prio[r] = mux[m].prio,
         \A n \in Mutex : r \notin Grants(MuxList(n))',
         \A n \in Mutex : n # m => mux'[n] = mux[n],
         mux'[m].prio = mux[m].prio \/ Locks(r, m)' = 0
  PROVE  Prioritised(r)'
<1>1. PICK list : list = holds'[r]
  OBVIOUS
<1>2. /\ list # <<>> => holds[r] # <<>> /\ list[1] = holds[r][1]
      /\ list = <<>> => holds[r] # <<>> /\ holds[r][1] = m
      /\ list \in Seq(Mutex)
  BY <1>1, ForgotLocks
<1>3. ASSUME list # <<>>
      PROVE  mux'[list[1]].prio = app'.prio[r] /\ Owns(r)'
  <2>1. PICK n : n = list[1]
    OBVIOUS
  <2>2. n \in Mutex /\ 1 \in DOMAIN list
    BY <1>2, <1>3, <2>1
  <2>3. Locks(r, n)' = Times(list, n)
    BY <1>1 DEF Locks, Times, Places
  <2>4. Locks(r, n)' \in Nat /\ Locks(r, n)' # 0
    BY <1>2, <2>1, <2>2, <2>3, TimesCounts
  <2>5. MutexOK(n)' /\ mux'[n].count \in Nat
    BY <2>2 DEF MutexInv, MutexesOK
  <2>6. mux'[n].count > 0
    BY <2>4, <2>5 DEF MutexOK
  <2>7. mux'[n].owner = r
    BY <2>4, <2>5, <2>6 DEF MutexOK
  <2>8. mux'[n].prio = mux[n].prio
    BY <2>2, <2>4
  <2> QED
    BY <1>2, <1>3, <2>1, <2>2, <2>6, <2>7, <2>8 DEF Prioritised, Owns
<1>4. ASSUME ~Owns(r)' PROVE k'.prio[r] = app'.prio[r]
  BY <1>2, <1>3, <1>4 DEF Prioritised
<1> QED
  BY <1>1, <1>3, <1>4 DEF Prioritised

\* An unlock: the owner forgets a lock and, when it was its last one of the mutex,
\* has the saved priority again; the mutex is free or that of who waits longest.
LEMMA MutexPosts ==
  ASSUME TasksInv, Parked, MutexesOK, MutexesOK', MutexInv, PrioInv, app' = app, NEW m \in Mutex, LOS_MuxPost(m)
  PROVE  MutexInv' /\ PrioInv' /\ After(MuxLists)
<1>1. PICK l : l = MuxList(m)
  OBVIOUS
<1>2. PICK r : r = k.run
  OBVIOUS
<1>3. PICK s : s = IF k.prio[r] # mux[m].prio THEN osTaskPriModify(k, r, mux[m].prio) ELSE k
  OBVIOUS
<1>4. /\ Calls("mutex") /\ mux[m].used /\ mux[m].count > 0 /\ mux[m].owner = r /\ MayUnlock(r, m)
      /\ holds' = [holds EXCEPT ![r] = Forget(holds[r], m)]
      /\ \/ /\ mux[m].count > 1
            /\ mux' = [mux EXCEPT ![m].count = mux[m].count - 1]
            /\ ThenReturn(k)
         \/ /\ ~(mux[m].count > 1) /\ s.pend[l] = <<>>
            /\ mux' = [mux EXCEPT ![m].count = 0]
            /\ ThenReturn([s EXCEPT !.late = s.late \/ s.prio # k.prio])
         \/ /\ ~(mux[m].count > 1) /\ s.pend[l] # <<>>
            /\ mux' = [mux EXCEPT ![m] = OwnedBy(Head(s.pend[l]), 1)]
            /\ ThenSchedule(osTaskWake(s, Head(s.pend[l]), "PEND"), None)
  BY <1>1, <1>2, <1>3 DEF LOS_MuxPost
<1>5. /\ l \in PendList /\ FlagOf(l) = "PEND" /\ MutexOK(m)
      /\ mux \in [Mutex -> [used : BOOLEAN, count : Nat, owner : Task \cup {None}, prio : 0..Lowest]]
      /\ holds \in [Task -> Seq(Mutex)]
      /\ \A n \in Mutex : mux'[n].count > 0 => mux'[n].owner \in Task
      /\ \A n \in Mutex : mux[n].count > 0 => mux[n].owner \in Task
  BY <1>1, FlagsOfLists DEF MutexInv, MutexesOK
<1>6. /\ r \in Task /\ Running /\ Links(k)
      /\ \A n \in PendList : r \notin Waiting(n) /\ r \notin Grants(n)
  BY <1>2, <1>4, CallersRun, RunnersFacts
<1>7. /\ Links(s) /\ s.status = k.status /\ s.pend = k.pend /\ SameRun(s, k)
      /\ \A u \in Task : u # r => s.prio[u] = k.prio[u]
      /\ s.prio[r] = mux[m].prio
  <2>1. k.prio \in [AnyTask -> 0..Lowest] /\ Task \subseteq AnyTask /\ mux[m].prio \in 0..Lowest
    BY <1>5, <1>6 DEF Links, KState, AnyTask
  <2>2. CASE s = k /\ k.prio[r] = mux[m].prio
    BY <1>6, <2>2 DEF SameRun
  <2>3. CASE s = osTaskPriModify(k, r, mux[m].prio)
    <3>1. Reprioritised(s, k, r, mux[m].prio)
      BY <1>6, <2>1, <2>3, PriModifyLinks
    <3> QED
      BY <1>6, <2>1, <3>1 DEF Reprioritised
  <2> QED
    BY <1>3, <2>2, <2>3
<1>8. /\ Locks(r, m) = mux[m].count
      /\ \A u \in Task : u # r => u \notin Grants(l) /\ Locks(u, m) = 0
      /\ Grants(l) = {}
  <2>1. mux[m].owner \notin Grants(l)
    BY <1>4, <1>5, <1>6
  <2>2. /\ \A u \in Task : u # r => u \notin Grants(l) /\ Locks(u, m) = 0
        /\ Locks(r, m) = mux[m].count
    BY <1>1, <1>4, <1>5, <2>1 DEF MutexOK
  <2>3. Grants(l) \subseteq Task
    BY DEF Grants
  <2> QED
    BY <1>4, <2>1, <2>2, <2>3
<1>17. /\ Locks(r, m) > 0 /\ r \in Task /\ holds \in [Task -> Seq(Mutex)]
       /\ holds' = [holds EXCEPT ![r] = Forget(holds[r], m)]
  BY <1>4, <1>5, <1>6, <1>8
<1>9. /\ holds' \in [Task -> Seq(Mutex)]
      /\ \A u \in Task : u # r => holds'[u] = holds[u]
      /\ \A u \in Task, n \in Mutex : Locks(u, n)' = Locks(u, n) - IF u = r /\ n = m THEN 1 ELSE 0
  BY <1>17, ForgotLocks
<1>10. \A t \in Task, n \in Mutex : Locks(t, n) \in Nat /\ (t # r \/ n # m => Locks(t, n)' = Locks(t, n))
  BY <1>9, LocksTell
<1>11. Locks(r, m)' = mux[m].count - 1 /\ \A u \in Task : u # r => Locks(u, m)' = 0
  BY <1>6, <1>8, <1>9, <1>10
<1>12. ASSUME {"anyorder", "priset"} \cap app.calls = {}
       PROVE  Last(holds[r]) = m /\ \A u \in Task : Prioritised(u)
  BY <1>4, <1>12 DEF MayUnlock, PrioInv
<1>13. mux[m].count \in Nat /\ mux[m].count # 0
  BY <1>4, <1>5
<1>14. CASE /\ mux[m].count > 1
            /\ mux' = [mux EXCEPT ![m].count = mux[m].count - 1]
            /\ ThenReturn(k)
  <2>1. After({}) /\ k'.prio = k.prio
    BY <1>4, <1>5, <1>14, CallReturnsEffect
  <2>2. After({l}) /\ Still(l) /\ \A n \in PendList : Grants(n)' = Grants(n)
    BY <1>5, <2>1, AfterNothing DEF After, Still
  <2>3. /\ mux'[m].count = mux[m].count - 1 /\ mux'[m].owner = r /\ mux'[m].used /\ mux'[m].prio = mux[m].prio
        /\ \A n \in Mutex : n # m => mux'[n] = mux[n]
    BY <1>4, <1>5, <1>14
  <2>4. MutexOK(m)'
    <3>1. r \notin Waiting(l)' /\ Grants(l)' = {}
      BY <1>5, <1>6, <1>8, <2>2 DEF Still
    <3>2. Locks(mux[m].owner, m)' = Locks(r, m)'
      BY <2>3 DEF Locks
    <3> QED
      BY <1>1, <1>11, <1>13, <1>14, <2>3, <3>1, <3>2 DEF MutexOK
  <2>5. MutexInv' /\ After(MuxLists)
    BY <1>1, <1>5, <1>9, <1>10, <2>2, <2>3, <2>4, OneMutex
  <2>6. ASSUME {"anyorder", "priset"} \cap app.calls = {}, NEW u \in Task PROVE Prioritised(u)'
    <3>1. \A n \in Mutex : u \in Grants(MuxList(n))' => u \in Grants(MuxList(n))
      BY <2>2, FlagsOfLists
    <3>2. CASE u # r
      <4>1. Owns(u) => Owns(u)'
        BY <1>4, <2>3, <3>2, StillOwns
      <4> QED
        BY <1>9, <1>12, <2>1, <2>3, <2>6, <3>1, <3>2, <4>1, PriorityKept
    <3>3. CASE u = r
      <4>1. Owns(r)'
        BY <1>13, <1>14, <2>3 DEF Owns
      <4>2. \A n \in Mutex : r \notin Grants(MuxList(n))'
        BY <1>6, <2>2, FlagsOfLists
      <4> QED
        BY <1>12, <1>17, <2>3, <2>5, <2>6, <3>3, <4>1, <4>2, PriorityReturned
    <3> QED
      BY <3>2, <3>3
  <2> QED
    BY <2>5, <2>6 DEF PrioInv
<1>15. CASE /\ ~(mux[m].count > 1) /\ s.pend[l] = <<>>
            /\ mux' = [mux EXCEPT ![m].count = 0]
            /\ ThenReturn([s EXCEPT !.late = s.late \/ s.prio # k.prio])
  <2>1. PICK x : x = [s EXCEPT !.late = s.late \/ s.prio # k.prio]
    OBVIOUS
  <2>2. x.status = k.status /\ x.pend = k.pend /\ x.fault = k.fault /\ x.prio = s.prio
    BY <1>7, <2>1 DEF Links, KState, SameRun
  <2>3. After({}) /\ k'.prio = s.prio
    <3>1. ThenReturn(x) /\ Calls("mutex") /\ \A t \in Task : Told(x.status[t]) = Told(k.status[t])
      BY <1>4, <1>15, <2>1, <2>2
    <3>2. After({}) /\ k' = x
      BY <2>2, <3>1, CallKeepsWaits
    <3> QED
      BY <2>2, <3>2
  <2>4. After({l}) /\ Still(l) /\ \A n \in PendList : Grants(n)' = Grants(n)
    BY <1>5, <2>3, AfterNothing DEF After, Still
  <2>5. /\ mux'[m].count = 0 /\ mux'[m].prio = mux[m].prio
        /\ \A n \in Mutex : n # m => mux'[n] = mux[n]
    BY <1>5, <1>15
  <2>6. MutexOK(m)'
    <3>1. Waiting(l)' = {} /\ Grants(l)' = {}
      BY <1>5, <1>6, <1>7, <1>8, <1>15, <2>4, EmptyList DEF Still
    <3>2. \A u \in Task : Locks(u, m)' = 0
      BY <1>11, <1>13, <1>15
    <3> QED
      BY <1>1, <2>5, <3>1, <3>2 DEF MutexOK
  <2>7. MutexInv' /\ After(MuxLists)
    BY <1>1, <1>5, <1>9, <1>10, <2>4, <2>5, <2>6, OneMutex
  <2>8. ASSUME {"anyorder", "priset"} \cap app.calls = {}, NEW u \in Task PROVE Prioritised(u)'
    <3>1. \A n \in Mutex : u \in Grants(MuxList(n))' => u \in Grants(MuxList(n))
      BY <2>4, FlagsOfLists
    <3>2. CASE u # r
      <4>1. Owns(u) => Owns(u)'
        BY <1>4, <2>5, <3>2, StillOwns
      <4> QED
        BY <1>7, <1>9, <1>12, <2>3, <2>5, <2>8, <3>1, <3>2, <4>1, PriorityKept
    <3>3. CASE u = r
      <4>1. \A n \in Mutex : r \notin Grants(MuxList(n))'
        BY <1>6, <2>4, FlagsOfLists
      <4> QED
        BY <1>7, <1>12, <1>17, <2>3, <2>5, <2>7, <2>8, <3>3, <4>1, PriorityReturned
    <3> QED
      BY <3>2, <3>3
  <2> QED
    BY <2>7, <2>8 DEF PrioInv
<1>16. CASE /\ ~(mux[m].count > 1) /\ s.pend[l] # <<>>
            /\ mux' = [mux EXCEPT ![m] = OwnedBy(Head(s.pend[l]), 1)]
            /\ ThenSchedule(osTaskWake(s, Head(s.pend[l]), "PEND"), None)
  <2>1. PICK h : h = Head(s.pend[l])
    OBVIOUS
  <2>2. OnList(s.pend[l], h) /\ h \in Task /\ h \in Waiting(l)
    <3>1. s.pend[l] \in Seq(Task)
      BY <1>5, <1>7 DEF Links, KState
    <3>2. h \in Task /\ 1 \in DOMAIN s.pend[l] /\ s.pend[l][1] = h
      BY <1>16, <2>1, <3>1
    <3> QED
      BY <1>7, <3>2 DEF OnList, Waiting
  <2>3. PICK x : x = osTaskWake(s, h, FlagOf(l))
    OBVIOUS
  <2>4. WokenSpec(x, s, l, {h}) /\ ThenSchedule(x, None)
    BY <1>5, <1>7, <1>16, <2>1, <2>2, <2>3, WakeOne
  <2>5. After({l}) /\ Handed(l, {h}, {}) /\ k'.prio = s.prio
    BY <1>4, <1>5, <1>7, <2>2, <2>4, CallWokenEffect DEF SameRun
  <2>6. /\ h # r /\ Waiting(l)' = Waiting(l) \ {h} /\ Grants(l)' = {h}
        /\ \A n \in PendList : h \notin Grants(n)
    <3>1. \A n \in PendList : h \notin Grants(n)
      BY <1>5, <1>6, <2>2, WaitersFlags DEF Grants
    <3> QED
      BY <1>5, <1>6, <1>8, <2>2, <2>5, <3>1 DEF Handed
  <2>7. /\ mux'[m].count = 1 /\ mux'[m].owner = h /\ mux'[m].used /\ mux'[m].prio = k.prio[h]
        /\ \A n \in Mutex : n # m => mux'[n] = mux[n]
    BY <1>5, <1>16, <2>1 DEF OwnedBy
  <2>8. Locks(r, m)' = 0 /\ \A u \in Task : Locks(u, m)' = 0
    BY <1>11, <1>13, <1>16
  <2>9. MutexOK(m)'
    <3>1. Locks(mux[m].owner, m)' = Locks(h, m)'
      BY <2>7 DEF Locks
    <3>2. h \notin Waiting(l)' /\ h \in Grants(l)' /\ \A u \in Task \ {h} : u \notin Grants(l)'
      BY <2>6
    <3> QED
      BY <1>1, <2>2, <2>7, <2>8, <3>1, <3>2 DEF MutexOK
  <2>10. MutexInv' /\ After(MuxLists)
    BY <1>1, <1>5, <1>9, <1>10, <2>5, <2>7, <2>9, OneMutex
  <2>11. \A n \in Mutex : MuxList(n) = l \/ Grants(MuxList(n))' = Grants(MuxList(n))
    BY <2>5, FlagsOfLists DEF After, Still
  <2>12. ASSUME {"anyorder", "priset"} \cap app.calls = {}, NEW u \in Task PROVE Prioritised(u)'
    <3>1. CASE u # r /\ u # h
      <4>1. Owns(u) => Owns(u)'
        BY <1>4, <2>7, <3>1, StillOwns
      <4>2. \A n \in Mutex : u \in Grants(MuxList(n))' => u \in Grants(MuxList(n))
        BY <2>6, <2>11, <3>1
      <4>3. Locks(u, m) = 0 /\ u \notin Grants(MuxList(m))'
        BY <1>1, <1>8, <2>6, <3>1
      <4> QED
        BY <1>7, <1>9, <1>12, <2>5, <2>7, <2>12, <3>1, <4>1, <4>2, <4>3, PriorityKept
    <3>2. CASE u = r
      <4>1. \A n \in Mutex : r \notin Grants(MuxList(n))'
        BY <1>6, <2>6, <2>11, FlagsOfLists
      <4> QED
        <5>1. Prioritised(r) /\ Last(holds[r]) = m
          BY <1>12, <1>17, <2>12
        <5>2. k'.prio[r] = mux[m].prio
          BY <1>7, <2>5
        <5>3. Prioritised(r)'
          BY <1>17, <2>7, <2>8, <2>10, <4>1, <5>1, <5>2, PriorityReturned
        <5> QED
          BY <3>2, <5>3
    <3>3. CASE u = h
      <4>1. Owns(h)'
        BY <2>7 DEF Owns
      <4>2. holds'[h] = holds[h] /\ Prioritised(h) /\ Locks(h, m) = 0
        BY <1>8, <1>9, <1>12, <2>2, <2>6, <2>12
      <4>3. ASSUME holds'[h] # <<>> PROVE mux'[holds'[h][1]].prio = app'.prio[h]
        <5>1. holds[h][1] \in Mutex /\ Locks(h, holds[h][1]) > 0
          BY <2>2, <4>2, <4>3, LocksTell
        <5>2. mux'[holds[h][1]] = mux[holds[h][1]]
          BY <2>7, <4>2, <5>1
        <5> QED
          BY <4>2, <4>3, <5>2 DEF Prioritised
      <4>4. ASSUME holds'[h] = <<>>, NEW n \in Mutex, h \in Grants(MuxList(n))'
            PROVE  mux'[n].prio = app'.prio[h]
        <5>1. n = m
          BY <1>1, <2>6, <2>11, <4>4, FlagsOfLists, MutexesApart
        <5>2. ~Owns(h)
          BY <2>2, <2>6, <4>2, <4>4, LocksTell, FlagsOfLists
        <5> QED
          BY <2>7, <4>2, <5>1, <5>2 DEF Prioritised
      <4> QED
        BY <3>3, <4>1, <4>3, <4>4 DEF Prioritised
    <3> QED
      BY <3>1, <3>2, <3>3
  <2> QED
    BY <2>10, <2>12 DEF PrioInv
<1> QED
  BY <1>4, <1>14, <1>15, <1>16

\* The calls on mutexes keep what the mutexes promise.
LEMMA MutexMoves ==
  ASSUME TasksInv, Parked, MutexesOK, MutexesOK', MutexInv, PrioInv, MutexNext
  PROVE  MutexInv' /\ PrioInv' /\ After(MuxLists)
<1>1. app' = app
  BY DEF MutexNext
<1>2. PICK m \in Mutex \cap app.handles :
        \/ LOS_MuxCreate(m) \/ LOS_MuxDelete(m)
        \/ \E timeout \in app.timeouts : LOS_MuxPend(m, timeout)
        \/ MuxPendReturns(m)
        \/ LOS_MuxPost(m)
  BY DEF MutexNext
<1>3. m \in Mutex
  BY <1>2
<1>4. CASE LOS_MuxCreate(m) \/ LOS_MuxDelete(m)
  BY <1>1, <1>3, <1>4, MutexLifeMoves
<1>5. CASE \E timeout \in app.timeouts : LOS_MuxPend(m, timeout)
  <2>1. PICK timeout : LOS_MuxPend(m, timeout)
    BY <1>5
  <2>2. Calls("mutex") /\ mux[m].used /\ (PendFree(m) \/ PendAgain(m) \/ PendWait(m, timeout))
    BY <2>1 DEF LOS_MuxPend
  <2>3. CASE PendFree(m) \/ PendAgain(m)
    BY <1>1, <1>3, <2>2, <2>3, MutexTaken
  <2>4. CASE PendWait(m, timeout)
    BY <1>1, <1>3, <2>2, <2>4, MutexWaits
  <2> QED
    BY <2>2, <2>3, <2>4
<1>6. CASE MuxPendReturns(m)
  BY <1>1, <1>3, <1>6, MutexPendReturns
<1>7. CASE LOS_MuxPost(m)
  BY <1>1, <1>3, <1>7, MutexPosts
<1> QED
  BY <1>2, <1>4, <1>5, <1>6, <1>7

-----------------------------------------------------------------------------
(* Queues: cells                                                           *)

CellLists(q) == {QueueList(q, side) : side \in Side}
QueueLists == {QueueList(q, side) : q \in Queue, side \in Side \cup {"mail"}}

\* The messages of a queue: those that are readable and those a task was woken for.
Load(q) == queue[q].able.read + Ready(q, "read")

\* What an operation makes of the ring of the control block b,
Turned(op, b, c) ==
  \/ op.kind = "read" /\ c.cells = [b.cells EXCEPT ![b.head] = None] /\ c.head = Up(b.head) /\ c.tail = b.tail
  \/ op.kind = "tail" /\ c.cells = [b.cells EXCEPT ![b.tail] = op.msg] /\ c.head = b.head /\ c.tail = Up(b.tail)
  \/ op.kind = "head" /\ c.cells = [b.cells EXCEPT ![Down(b.head)] = op.msg] /\ c.head = Down(b.head) /\ c.tail = b.tail

\* of the queue it works on,
Operated(q, op) ==
  /\ Turned(op, queue[q], queue'[q])
  /\ Load(q)' = IF op.kind = "read" THEN Load(q) - 1 ELSE Load(q) + 1
  /\ out' = IF op.kind = "read" THEN [out EXCEPT ![q] = queue[q].cells[queue[q].head]] ELSE out

\* what the other steps leave alone,
Rests(q) ==
  /\ queue'[q].cells = queue[q].cells /\ queue'[q].head = queue[q].head /\ queue'[q].tail = queue[q].tail
  /\ Load(q)' = Load(q)

\* and what creating and deleting a queue do.
Emptied(q) == queue'[q].head = 0 /\ queue'[q].tail = 0 /\ Load(q)' = 0

\* A step is about at most one queue.
OneTurns ==
  \/ out' = out /\ \A p \in Queue : Rests(p)
  \/ \E q \in Queue : /\ (out' = out /\ Emptied(q)) \/ \E op \in Op : Operated(q, op)
                      /\ \A p \in Queue : p # q => Rests(p)

\* The three lists of each queue are lists of their own.
LEMMA QueuesApart ==
  \A p, q \in Queue, x, y \in Side \cup {"mail"} : QueueList(p, x) = QueueList(q, y) => p = q /\ x = y
BY DEF QueueList

\* An operation works on one of the two sides.
LEMMA SidesOf ==
  /\ \A op \in Op : SideOf(op) \in Side
  /\ \A x \in Side : Other(x) \in Side /\ Other(x) # x /\ \A y \in Side : y = x \/ y = Other(x)
  /\ "mail" \notin Side
BY DEF Side, SideOf, Other

\* A step that is not about cells.
LEMMA CellsStill ==
  ASSUME CellsInv, queue' = queue, \A q \in Queue, side \in Side : Still(QueueList(q, side))
  PROVE  CellsInv' /\ \A q \in Queue : Rests(q)
<1>1. ASSUME NEW q \in Queue PROVE CellsOK(q)'
  <2>1. /\ CellsOK(q)
        /\ \A side \in Side : /\ Grants(QueueList(q, side))' = Grants(QueueList(q, side))
                              /\ Waiting(QueueList(q, side))' \subseteq Waiting(QueueList(q, side))
    BY DEF CellsInv, Still
  <2>2. Ready(q, "read")' = Ready(q, "read") /\ Ready(q, "write")' = Ready(q, "write")
    BY <2>1 DEF Ready, Side
  <2>3. \A side \in Side : Waiting(QueueList(q, side))' # {} => Waiting(QueueList(q, side)) # {}
    BY <2>1
  <2> QED
    BY <2>1, <2>2, <2>3 DEF CellsOK
<1>2. ASSUME NEW q \in Queue PROVE Rests(q)
  <2>1. Ready(q, "read")' = Ready(q, "read")
    BY DEF Ready, Still, Side
  <2> QED
    BY <2>1 DEF Rests, Load
<1> QED
  BY <1>1, <1>2 DEF CellsInv

\* A step that is about the cells of one queue.
LEMMA OneQueue ==
  ASSUME CellsInv, NEW q \in Queue, After(CellLists(q)), queue' \in [Queue -> QueueBlock],
         \A p \in Queue : p # q => queue'[p] = queue[p],
         CellsOK(q)'
  PROVE  /\ CellsInv' /\ After(QueueLists) /\ \A p \in Queue : Still(MailList(p))
         /\ \A p \in Queue : p # q => Rests(p)
<1>1. \A p \in Queue, side \in Side \cup {"mail"} : QueueList(p, side) \in PendList
  BY FlagsOfLists
<1>2. ASSUME NEW p \in Queue, p # q PROVE CellsOK(p)' /\ Rests(p)
  <2>1. \A side \in Side : QueueList(p, side) \notin CellLists(q)
    BY <1>2, QueuesApart DEF CellLists
  <2>2. \A side \in Side : Still(QueueList(p, side))
    BY <1>1, <2>1 DEF After
  <2>3. /\ CellsOK(p) /\ queue'[p] = queue[p]
        /\ \A side \in Side : /\ Grants(QueueList(p, side))' = Grants(QueueList(p, side))
                              /\ Waiting(QueueList(p, side))' \subseteq Waiting(QueueList(p, side))
    BY <1>2, <2>2 DEF CellsInv, Still
  <2>4. Ready(p, "read")' = Ready(p, "read") /\ Ready(p, "write")' = Ready(p, "write")
    BY <2>3 DEF Ready, Side
  <2>5. \A side \in Side : Waiting(QueueList(p, side))' # {} => Waiting(QueueList(p, side)) # {}
    BY <2>3
  <2>6. Rests(p)
    BY <2>3, <2>4 DEF Rests, Load
  <2> QED
    BY <2>3, <2>4, <2>5, <2>6 DEF CellsOK
<1>3. After(QueueLists)
  <2>1. \A l \in PendList : l \notin QueueLists => l \notin CellLists(q)
    BY DEF QueueLists, CellLists
  <2> QED
    BY <2>1 DEF After
<1>4. ASSUME NEW p \in Queue PROVE Still(MailList(p))
  <2>1. MailList(p) \notin CellLists(q)
    BY SidesOf, QueuesApart DEF CellLists, MailList
  <2> QED
    BY <1>1, <2>1 DEF After, MailList
<1> QED
  BY <1>2, <1>3, <1>4 DEF CellsInv

\* Cells change sides only.
LEMMA CellsBalance ==
  ASSUME NEW q \in Queue, NEW x \in Side, NEW y, y = Other(x), CellsOK(q),
         queue[q].able[x] \in Nat, queue[q].able[y] \in Nat, Ready(q, x) \in Nat, Ready(q, y) \in Nat,
         queue'[q].used, queue'[q].able[x] \in Int, queue'[q].able[y] \in Int,
         Ready(q, x)' \in Int, Ready(q, y)' \in Int,
         queue'[q].able[x] + queue'[q].able[y] + Ready(q, x)' + Ready(q, y)' =
           queue[q].able[x] + queue[q].able[y] + Ready(q, x) + Ready(q, y),
         Waiting(QueueList(q, x))' # {} => queue'[q].able[x] = 0,
         Waiting(QueueList(q, y))' # {} => queue'[q].able[y] = 0
  PROVE  CellsOK(q)'
<1>1. \A side \in Side : Waiting(QueueList(q, side))' # {} => queue'[q].used /\ queue'[q].able[side] = 0
  BY SidesOf
<1>2. CASE x = "read"
  <2>1. y = "write"
    BY <1>2 DEF Other
  <2> QED
    BY <1>1, <1>2, <2>1 DEF CellsOK
<1>3. CASE x = "write"
  <2>1. y = "read"
    BY <1>3 DEF Other
  <2>2. /\ queue[q].able.read \in Nat /\ queue[q].able.write \in Nat
        /\ Ready(q, "read") \in Nat /\ Ready(q, "write") \in Nat
        /\ queue'[q].able.read \in Int /\ queue'[q].able.write \in Int
        /\ Ready(q, "read")' \in Int /\ Ready(q, "write")' \in Int
    BY <1>3, <2>1
  <2>3. queue'[q].able.write + queue'[q].able.read + Ready(q, "write")' + Ready(q, "read")' =
          queue[q].able.write + queue[q].able.read + Ready(q, "write") + Ready(q, "read")
    BY <1>3, <2>1
  <2>4. queue'[q].able.read + queue'[q].able.write + Ready(q, "read")' + Ready(q, "write")' =
          queue[q].able.read + queue[q].able.write + Ready(q, "read") + Ready(q, "write")
    BY <2>2, <2>3
  <2> QED
    BY <1>1, <2>4 DEF CellsOK
<1> QED
  BY <1>2, <1>3 DEF Side

\* What the second half of osQueueOperate does to the control block.
LEMMA OperateDoes ==
  ASSUME queue \in [Queue -> QueueBlock], NEW q \in Queue, NEW op \in Op, NEW c \in QueueBlock, NEW waiters,
         Operate(q, op, c, waiters), NEW y, y = Other(SideOf(op))
  PROVE  /\ queue' \in [Queue -> QueueBlock]
         /\ \A p \in Queue : p # q => queue'[p] = queue[p]
         /\ queue'[q].used = c.used
         /\ waiters # <<>> => queue'[q].able = c.able
         /\ waiters = <<>> => queue'[q].able = [c.able EXCEPT ![y] = c.able[y] + 1]
         /\ Turned(op, c, queue'[q])
         /\ pool' = pool /\ mails' = mails
         /\ out' = IF op.kind = "read" THEN [out EXCEPT ![q] = c.cells[c.head]] ELSE out
<1>1. PICK done : done = osQueueBufferOperate(c, op)
  OBVIOUS
<1>2. /\ c.cells \in [0..usQueueLen - 1 -> Msg \cup {None}] /\ c.able \in [read : Nat, write : Nat]
      /\ c.head \in 0..usQueueLen - 1 /\ c.tail \in 0..usQueueLen - 1 /\ usQueueLen \in Nat \ {0}
  BY QueueAssumption DEF QueueBlock
<1>3. \A i \in 0..usQueueLen - 1 : Up(i) \in 0..usQueueLen - 1 /\ Down(i) \in 0..usQueueLen - 1
  BY <1>2 DEF Up, Down
<1>4. op.kind \in {"read", "tail", "head"} /\ (op.kind # "read" => op.msg \in Msg)
  BY DEF Op
<1>5. done \in QueueBlock /\ done.used = c.used /\ done.able = c.able /\ Turned(op, c, done)
  <2>1. CASE op.kind = "read"
    <3>1. done = [c EXCEPT !.cells[c.head] = None, !.head = Up(c.head)]
      BY <1>1, <2>1 DEF osQueueBufferOperate
    <3>2. Up(c.head) \in 0..usQueueLen - 1 /\ [c.cells EXCEPT ![c.head] = None] \in [0..usQueueLen - 1 -> Msg \cup {None}]
      BY <1>2, <1>3
    <3> QED
      BY <1>2, <2>1, <3>1, <3>2 DEF QueueBlock, Turned
  <2>2. CASE op.kind = "tail"
    <3>1. done = [c EXCEPT !.cells[c.tail] = op.msg, !.tail = Up(c.tail)]
      BY <1>1, <2>2 DEF osQueueBufferOperate
    <3>2. Up(c.tail) \in 0..usQueueLen - 1 /\ [c.cells EXCEPT ![c.tail] = op.msg] \in [0..usQueueLen - 1 -> Msg \cup {None}]
      BY <1>2, <1>3, <1>4, <2>2
    <3> QED
      BY <1>2, <2>2, <3>1, <3>2 DEF QueueBlock, Turned
  <2>3. CASE op.kind = "head"
    <3>1. done = [c EXCEPT !.cells[Down(c.head)] = op.msg, !.head = Down(c.head)]
      BY <1>1, <2>3 DEF osQueueBufferOperate
    <3>2. Down(c.head) \in 0..usQueueLen - 1 /\ [c.cells EXCEPT ![Down(c.head)] = op.msg] \in [0..usQueueLen - 1 -> Msg \cup {None}]
      BY <1>2, <1>3, <1>4, <2>3
    <3> QED
      BY <1>2, <2>3, <3>1, <3>2 DEF QueueBlock, Turned
  <2> QED
    BY <1>4, <2>1, <2>2, <2>3
<1>6. /\ queue' = [queue EXCEPT ![q] = IF waiters = <<>> THEN [done EXCEPT !.able[y] = done.able[y] + 1] ELSE done]
      /\ pool' = pool /\ mails' = mails
      /\ out' = IF op.kind = "read" THEN [out EXCEPT ![q] = c.cells[c.head]] ELSE out
  BY <1>1 DEF Operate
<1>7. y \in {"read", "write"}
  BY SidesOf DEF Side
<1>8. [done EXCEPT !.able[y] = done.able[y] + 1] \in QueueBlock
  <2>1. [done.able EXCEPT ![y] = done.able[y] + 1] \in [read : Nat, write : Nat]
    <3>1. done.able \in [read : Nat, write : Nat] /\ done.able[y] + 1 \in Nat
      BY <1>2, <1>5, <1>7
    <3> QED
      BY <1>7, <3>1
  <2> QED
    BY <1>5, <2>1 DEF QueueBlock
<1>9. /\ [done EXCEPT !.able[y] = done.able[y] + 1].able = [c.able EXCEPT ![y] = c.able[y] + 1]
      /\ [done EXCEPT !.able[y] = done.able[y] + 1].used = c.used
  BY <1>5, <1>7 DEF QueueBlock
<1>10. PICK b : b = [done EXCEPT !.able[y] = done.able[y] + 1]
  OBVIOUS
<1>11. Turned(op, c, b)
  BY <1>5, <1>7, <1>10 DEF Turned, QueueBlock
<1>12. CASE waiters = <<>>
  <2>1. queue' = [queue EXCEPT ![q] = b]
    BY <1>6, <1>10, <1>12
  <2> QED
    BY <1>5, <1>6, <1>8, <1>9, <1>10, <1>11, <1>12, <2>1
<1>13. CASE waiters # <<>>
  BY <1>5, <1>6, <1>13
<1> QED
  BY <1>12, <1>13

\* A cell that was the caller's, or was counted on its side, is counted on the
\* other side or passed on.
LEMMA CellFinished ==
  ASSUME CellsInv, NEW q \in Queue, NEW op \in Op, NEW x, x = SideOf(op), NEW y, y = Other(x),
         Ready(q, x) \in Nat, Ready(q, y) \in Nat,
         NEW c, \/ c = CellTaken(q, op) /\ queue[q].able[x] > 0 /\ Ready(q, x)' = Ready(q, x)
                \/ c = queue[q] /\ Ready(q, x)' = Ready(q, x) - 1,
         queue[q].used, NEW waiters, Operate(q, op, c, waiters),
         Waiting(QueueList(q, x))' \subseteq Waiting(QueueList(q, x)),
         \/ waiters = <<>> /\ Waiting(QueueList(q, y))' = {} /\ Ready(q, y)' = Ready(q, y)
         \/ waiters # <<>> /\ Waiting(QueueList(q, y)) # {} /\ Ready(q, y)' = Ready(q, y) + 1,
         After(CellLists(q))
  PROVE  CellsInv' /\ After(QueueLists) /\ (\A p \in Queue : Still(MailList(p))) /\ OneTurns
<1>1. x \in Side /\ y \in Side /\ x # y /\ \A side \in Side : side = x \/ side = y
  BY SidesOf
<1>2. /\ CellsOK(q) /\ queue \in [Queue -> QueueBlock] /\ queue[q] \in QueueBlock
      /\ queue[q].able \in [read : Nat, write : Nat]
      /\ queue[q].able[x] \in Nat /\ queue[q].able[y] \in Nat
  BY <1>1 DEF CellsInv, QueueBlock, Side
<1>3. /\ c \in QueueBlock /\ c.used
      /\ c.cells = queue[q].cells /\ c.head = queue[q].head /\ c.tail = queue[q].tail
      /\ \/ /\ queue[q].able[x] > 0 /\ Ready(q, x)' = Ready(q, x)
            /\ c.able[x] = queue[q].able[x] - 1
         \/ c.able[x] = queue[q].able[x] /\ Ready(q, x)' = Ready(q, x) - 1
      /\ c.able[y] = queue[q].able[y]
  <2>1. CASE c = CellTaken(q, op) /\ queue[q].able[x] > 0 /\ Ready(q, x)' = Ready(q, x)
    <3>1. PICK n : n = queue[q].able[x] - 1
      OBVIOUS
    <3>2. PICK able : able = [queue[q].able EXCEPT ![x] = n]
      OBVIOUS
    <3>3. n \in Nat /\ c = [queue[q] EXCEPT !.able = able]
      BY <1>2, <2>1, <3>1, <3>2 DEF CellTaken
    <3>4. able \in [read : Nat, write : Nat] /\ able[x] = n /\ able[y] = queue[q].able[y]
      BY <1>1, <1>2, <3>2, <3>3 DEF Side
    <3>5. /\ c \in QueueBlock /\ c.used = queue[q].used /\ c.able = able
          /\ c.cells = queue[q].cells /\ c.head = queue[q].head /\ c.tail = queue[q].tail
      BY <1>2, <3>3, <3>4 DEF QueueBlock
    <3> QED
      BY <2>1, <3>1, <3>4, <3>5
  <2>2. CASE c = queue[q] /\ Ready(q, x)' = Ready(q, x) - 1
    BY <1>2, <2>2
  <2> QED
    BY <2>1, <2>2
<1>4. /\ queue' \in [Queue -> QueueBlock]
      /\ \A p \in Queue : p # q => queue'[p] = queue[p]
      /\ queue'[q].used = c.used
      /\ waiters # <<>> => queue'[q].able = c.able
      /\ waiters = <<>> => queue'[q].able = [c.able EXCEPT ![y] = c.able[y] + 1]
      /\ Turned(op, c, queue'[q])
      /\ out' = IF op.kind = "read" THEN [out EXCEPT ![q] = c.cells[c.head]] ELSE out
  <2>1. y = Other(SideOf(op)) /\ c \in QueueBlock /\ queue \in [Queue -> QueueBlock]
    BY <1>2, <1>3
  <2> QED
    BY <2>1, OperateDoes
<1>5. /\ queue'[q].able[x] = c.able[x]
      /\ queue'[q].able[y] = c.able[y] + IF waiters = <<>> THEN 1 ELSE 0
  <2>1. c.able \in [read : Nat, write : Nat] /\ c.able[y] \in Nat
    BY <1>1, <1>3 DEF QueueBlock, Side
  <2>2. CASE waiters = <<>>
    BY <1>1, <1>4, <2>1, <2>2 DEF Side
  <2>3. CASE waiters # <<>>
    BY <1>4, <2>1, <2>3
  <2> QED
    BY <2>2, <2>3
<1>6. /\ Waiting(QueueList(q, x)) # {} => queue[q].able[x] = 0
      /\ Waiting(QueueList(q, y)) # {} => queue[q].able[y] = 0
  BY <1>1, <1>2 DEF CellsOK
<1>7. /\ queue'[q].able[x] \in Int /\ queue'[q].able[y] \in Int
      /\ Ready(q, x)' \in Int /\ Ready(q, y)' \in Int
      /\ queue'[q].able[x] + Ready(q, x)' = (queue[q].able[x] + Ready(q, x)) - 1
      /\ queue'[q].able[y] + Ready(q, y)' = queue[q].able[y] + Ready(q, y) + 1
  <2>1. PICK a, b, g, h : a = queue[q].able[x] /\ b = queue[q].able[y] /\ g = Ready(q, x) /\ h = Ready(q, y)
    OBVIOUS
  <2>2. PICK a2, b2, g2, h2 : /\ a2 = queue'[q].able[x] /\ b2 = queue'[q].able[y]
                              /\ g2 = Ready(q, x)' /\ h2 = Ready(q, y)'
    OBVIOUS
  <2>3. a \in Nat /\ b \in Nat /\ g \in Nat /\ h \in Nat
    BY <1>2, <2>1
  <2>4. (a2 = a - 1 /\ g2 = g) \/ (a2 = a /\ g2 = g - 1)
    BY <1>3, <1>5, <2>1, <2>2
  <2>5. (b2 = b + 1 /\ h2 = h) \/ (b2 = b + 0 /\ h2 = h + 1)
    <3>1. CASE waiters = <<>>
      <4>1. queue'[q].able[y] = c.able[y] + 1 /\ Ready(q, y)' = Ready(q, y)
        BY <1>5, <3>1
      <4> QED
        BY <1>3, <2>1, <2>2, <4>1
    <3>2. CASE waiters # <<>>
      <4>1. queue'[q].able[y] = c.able[y] + 0 /\ Ready(q, y)' = Ready(q, y) + 1
        BY <1>5, <3>2
      <4> QED
        BY <1>3, <2>1, <2>2, <4>1
    <3> QED
      BY <3>1, <3>2
  <2>6. a2 \in Int /\ g2 \in Int /\ a2 + g2 = (a + g) - 1
    <3>1. CASE a2 = a - 1 /\ g2 = g
      BY <2>3, <3>1
    <3>2. CASE a2 = a /\ g2 = g - 1
      BY <2>3, <3>2
    <3> QED
      BY <2>4, <3>1, <3>2
  <2>7. b2 \in Int /\ h2 \in Int /\ b2 + h2 = b + h + 1
    <3>1. CASE b2 = b + 1 /\ h2 = h
      BY <2>3, <3>1
    <3>2. CASE b2 = b + 0 /\ h2 = h + 1
      BY <2>3, <3>2
    <3> QED
      BY <2>5, <3>1, <3>2
  <2> QED
    BY <2>1, <2>2, <2>6, <2>7
<1>8. CellsOK(q)'
  <2>1. queue'[q].able[x] + queue'[q].able[y] + Ready(q, x)' + Ready(q, y)' =
          queue[q].able[x] + queue[q].able[y] + Ready(q, x) + Ready(q, y)
    <3>1. PICK a, b, g, h : a = queue[q].able[x] /\ b = queue[q].able[y] /\ g = Ready(q, x) /\ h = Ready(q, y)
      OBVIOUS
    <3>2. PICK a2, b2, g2, h2 : /\ a2 = queue'[q].able[x] /\ b2 = queue'[q].able[y]
                                /\ g2 = Ready(q, x)' /\ h2 = Ready(q, y)'
      OBVIOUS
    <3>3. /\ a \in Int /\ b \in Int /\ g \in Int /\ h \in Int
          /\ a2 \in Int /\ b2 \in Int /\ g2 \in Int /\ h2 \in Int
          /\ a2 + g2 = (a + g) - 1 /\ b2 + h2 = b + h + 1
      <4>1. a \in Int /\ b \in Int /\ g \in Int /\ h \in Int
        BY <1>2, <3>1
      <4>2. a2 \in Int /\ g2 \in Int /\ a2 + g2 = (a + g) - 1
        BY <1>7, <3>1, <3>2
      <4>3. b2 \in Int /\ h2 \in Int /\ b2 + h2 = b + h + 1
        BY <1>7, <3>1, <3>2
      <4> QED
        BY <4>1, <4>2, <4>3
    <3>4. a2 + b2 + g2 + h2 = (a2 + g2) + (b2 + h2)
      BY <3>3
    <3>5. (a2 + g2) + (b2 + h2) = a + b + g + h
      BY <3>3
    <3> QED
      BY <3>1, <3>2, <3>4, <3>5
  <2>2. Waiting(QueueList(q, x))' # {} => queue'[q].able[x] = 0
    BY <1>2, <1>3, <1>5, <1>6
  <2>3. Waiting(QueueList(q, y))' # {} => queue'[q].able[y] = 0
    BY <1>2, <1>3, <1>5, <1>6
  <2>4. queue'[q].used
    BY <1>3, <1>4
  <2> QED
    BY <1>1, <1>2, <1>7, <2>1, <2>2, <2>3, <2>4, CellsBalance
<1>9. Load(q)' = IF op.kind = "read" THEN Load(q) - 1 ELSE Load(q) + 1
  <2>1. CASE op.kind = "read"
    <3>1. x = "read"
      BY <2>1 DEF SideOf
    <3>2. queue'[q].able.read + Ready(q, "read")' = (queue[q].able.read + Ready(q, "read")) - 1
      BY <1>7, <3>1
    <3>3. Load(q)' = Load(q) - 1
      BY <3>2 DEF Load
    <3> QED
      BY <2>1, <3>3
  <2>2. CASE op.kind # "read"
    <3>1. y = "read"
      BY <2>2 DEF SideOf, Other
    <3>2. queue'[q].able.read + Ready(q, "read")' = queue[q].able.read + Ready(q, "read") + 1
      BY <1>7, <3>1
    <3>3. Load(q)' = Load(q) + 1
      BY <3>2 DEF Load
    <3> QED
      BY <2>2, <3>3
  <2> QED
    BY <2>1, <2>2
<1>10. Turned(op, queue[q], queue'[q])
  BY <1>3, <1>4 DEF Turned
<1>11. Operated(q, op)
  BY <1>3, <1>4, <1>9, <1>10 DEF Operated
<1>12. /\ CellsInv' /\ After(QueueLists) /\ \A p \in Queue : Still(MailList(p))
       /\ \A p \in Queue : p # q => Rests(p)
  BY <1>2, <1>4, <1>8, OneQueue
<1> QED
  BY <1>11, <1>12 DEF OneTurns

\* A step that leaves everybody where they are, or gives a cell to one waiter.
LEMMA SideStill ==
  ASSUME NEW q \in Queue, NEW x \in Side, Still(QueueList(q, x))
  PROVE  Ready(q, x)' = Ready(q, x) /\ Waiting(QueueList(q, x))' \subseteq Waiting(QueueList(q, x))
BY DEF Ready, Still

\* Waking a task for a cell makes one more that is on its way.
LEMMA SideServed ==
  ASSUME Links(k), NEW q \in Queue, NEW x \in Side, NEW h \in Waiting(QueueList(q, x)),
         Handed(QueueList(q, x), {h}, {})
  PROVE  Ready(q, x)' = Ready(q, x) + 1 /\ Waiting(QueueList(q, x)) # {}
<1>1. QueueList(q, x) \in PendList
  BY FlagsOfLists
<1>2. Grants(QueueList(q, x))' = Grants(QueueList(q, x)) \cup {h}
  BY DEF Handed
<1> QED
  BY <1>1, <1>2, GrantCounts DEF Ready

\* The return of a woken task makes one less.
LEMMA SideLeft ==
  ASSUME Links(k), NEW q \in Queue, NEW x \in Side, NEW t \in Grants(QueueList(q, x)),
         Handed(QueueList(q, x), {}, {t})
  PROVE  Ready(q, x)' = Ready(q, x) - 1 /\ Waiting(QueueList(q, x))' = Waiting(QueueList(q, x))
<1>1. QueueList(q, x) \in PendList
  BY FlagsOfLists
<1>2. /\ Grants(QueueList(q, x))' = Grants(QueueList(q, x)) \ {t}
      /\ Waiting(QueueList(q, x))' = Waiting(QueueList(q, x))
  BY DEF Handed
<1> QED
  BY <1>1, <1>2, GrantCounts DEF Ready

\* What a list that is empty, or whose head was woken, means for its side.
LEMMA SideEmpty ==
  ASSUME Links(k), NEW q \in Queue, NEW x \in Side, k.pend[QueueList(q, x)] = <<>>, Still(QueueList(q, x))
  PROVE  Waiting(QueueList(q, x))' = {} /\ Ready(q, x)' = Ready(q, x)
<1>1. QueueList(q, x) \in PendList
  BY FlagsOfLists
<1>2. Waiting(QueueList(q, x)) = {}
  BY <1>1, EmptyList
<1> QED
  BY <1>2, SideStill DEF Still

\* Those on their way can be counted.
LEMMA ReadyCounts ==
  ASSUME Links(k), NEW q \in Queue
  PROVE  \A x \in Side \cup {"mail"} : Ready(q, x) \in Nat
BY FlagsOfLists, GrantCounts DEF Ready

\* A queue somebody was woken for exists.
LEMMA CellsUsed ==
  ASSUME CellsInv, Links(k), NEW q \in Queue, NEW x \in Side, NEW t \in Grants(QueueList(q, x))
  PROVE  queue[q].used
<1>1. /\ CellsOK(q) /\ queue[q].able.read \in Nat /\ queue[q].able.write \in Nat
      /\ Ready(q, "read") \in Nat /\ Ready(q, "write") \in Nat
  BY ReadyCounts DEF CellsInv, QueueBlock, Side
<1>2. Ready(q, x) # 0
  <2>1. QueueList(q, x) \in PendList
    BY FlagsOfLists
  <2>2. PICK D : D = Grants(QueueList(q, x))
    OBVIOUS
  <2>3. IsFiniteSet(D) /\ t \in D /\ Ready(q, x) = Cardinality(D)
    BY <2>1, <2>2, GrantCounts DEF Ready
  <2> QED
    BY <2>3, FS_EmptySet
<1>3. Ready(q, "read") # 0 \/ Ready(q, "write") # 0
  BY <1>2 DEF Side
<1> QED
  BY <1>1, <1>3 DEF CellsOK

\* A cell that is counted is taken, by a task or by an interrupt handler.
LEMMA CellTakenMoves ==
  ASSUME TasksInv, Parked, CellsInv, NEW q \in Queue, NEW op \in Op, queue[q].used,
         queue[q].able[SideOf(op)] > 0,
         \/ Calls("queue") /\ Finish(q, op, CellTaken(q, op), k)
         \/ InterruptOperates(q, op)
  PROVE  /\ CellsInv' /\ After(QueueLists) /\ (\A p \in Queue : Still(MailList(p)))
         /\ OneTurns /\ k'.prio = k.prio
<1>1. PICK x, y : x = SideOf(op) /\ y = Other(x)
  OBVIOUS
<1>2. PICK lx, ly : lx = QueueList(q, x) /\ ly = QueueList(q, y)
  OBVIOUS
<1>3. /\ x \in Side /\ y \in Side /\ x # y /\ Links(k)
      /\ lx \in PendList /\ ly \in PendList /\ lx # ly /\ FlagOf(ly) = "PEND_QUEUE"
      /\ lx \in CellLists(q) /\ ly \in CellLists(q)
  BY <1>1, <1>2, SidesOf, FlagsOfLists, QueuesApart DEF TasksInv, CellLists
<1>4. PICK waiters : waiters = k.pend[ly]
  OBVIOUS
<1>5. /\ Operate(q, op, CellTaken(q, op), waiters)
      /\ waiters = <<>> => (Calls("queue") /\ ThenReturn(k)) \/ UNCHANGED <<k, at, wait>>
      /\ waiters # <<>> => \/ Calls("queue") /\ ThenSchedule(osTaskWake(k, Head(k.pend[ly]), FlagOf(ly)), None)
                           \/ ThenResume(osTaskWake(k, Head(k.pend[ly]), FlagOf(ly)))
  <2>1. CASE Calls("queue") /\ Finish(q, op, CellTaken(q, op), k)
    BY <1>1, <1>2, <1>3, <1>4, <2>1 DEF Finish, WaitersFor, PassedOn
  <2>2. CASE InterruptOperates(q, op)
    BY <1>1, <1>2, <1>3, <1>4, <2>2 DEF InterruptOperates, WaitersFor, PassedOn
  <2> QED
    BY <2>1, <2>2
<1>6. Ready(q, x) \in Nat /\ Ready(q, y) \in Nat
  BY <1>3, ReadyCounts
<1>7. CASE waiters = <<>>
  <2>1. After({}) /\ k'.prio = k.prio
    BY <1>3, <1>5, <1>7, CallReturnsEffect, InterruptReturnsEffect
  <2>2. After(CellLists(q)) /\ Still(lx) /\ Still(ly)
    BY <1>3, <2>1 DEF After
  <2>3. Ready(q, x)' = Ready(q, x) /\ Waiting(QueueList(q, x))' \subseteq Waiting(QueueList(q, x))
    BY <1>2, <1>3, <2>2, SideStill
  <2>4. Waiting(QueueList(q, y))' = {} /\ Ready(q, y)' = Ready(q, y)
    BY <1>2, <1>3, <1>4, <1>7, <2>2, SideEmpty
  <2> QED
    BY <1>1, <1>5, <1>6, <1>7, <2>1, <2>2, <2>3, <2>4, CellFinished
<1>8. CASE waiters # <<>>
  <2>1. /\ After({ly}) /\ k'.prio = k.prio
        /\ \E h \in Waiting(ly) : Handed(ly, {h}, {})
    BY <1>3, <1>4, <1>5, <1>8, CallHandsOverEffect, InterruptHandsOverEffect
  <2>2. After(CellLists(q)) /\ Still(lx)
    BY <1>3, <2>1 DEF After
  <2>3. Ready(q, x)' = Ready(q, x) /\ Waiting(QueueList(q, x))' \subseteq Waiting(QueueList(q, x))
    BY <1>2, <1>3, <2>2, SideStill
  <2>4. Waiting(QueueList(q, y)) # {} /\ Ready(q, y)' = Ready(q, y) + 1
    BY <1>2, <1>3, <2>1, SideServed
  <2> QED
    BY <1>1, <1>5, <1>6, <1>8, <2>1, <2>2, <2>3, <2>4, CellFinished
<1> QED
  BY <1>7, <1>8

\* The caller waits for a cell.
LEMMA CellAwaitedMoves ==
  ASSUME TasksInv, Parked, CellsInv, NEW q \in Queue, NEW op \in Op, queue[q].used, queue' = queue, out' = out,
         queue[q].able[SideOf(op)] = 0, Calls("queue"), NEW timed,
         ThenSchedule(osTaskWait(k, QueueList(q, SideOf(op)), "PEND_QUEUE", timed), Pending(q, op))
  PROVE  /\ CellsInv' /\ After(QueueLists) /\ (\A p \in Queue : Still(MailList(p)))
         /\ OneTurns /\ k'.prio = k.prio
<1>1. PICK x, y : x = SideOf(op) /\ y = Other(x)
  OBVIOUS
<1>2. PICK lx, ly : lx = QueueList(q, x) /\ ly = QueueList(q, y)
  OBVIOUS
<1>3. /\ x \in Side /\ y \in Side /\ x # y /\ Links(k)
      /\ lx \in PendList /\ ly \in PendList /\ lx # ly /\ FlagOf(lx) = "PEND_QUEUE"
      /\ lx \in CellLists(q) /\ ly \in CellLists(q)
  BY <1>1, <1>2, SidesOf, FlagsOfLists, QueuesApart DEF TasksInv, CellLists
<1>4. PICK w : w = Pending(q, op)
  OBVIOUS
<1>5. w \in Args(lx) /\ ThenSchedule(osTaskWait(k, lx, FlagOf(lx), timed), w)
  BY <1>1, <1>2, <1>3, <1>4, ArgsOf DEF Pending
<1>6. After({lx}) /\ Joined(lx, k.run, w, timed) /\ k'.prio = k.prio
  BY <1>3, <1>5, CallWaitsEffect
<1>7. After(CellLists(q)) /\ Still(ly) /\ Grants(lx)' = Grants(lx)
  BY <1>3, <1>6 DEF After, Joined
<1>8. /\ Ready(q, x)' = Ready(q, x) /\ Ready(q, y)' = Ready(q, y)
      /\ Waiting(QueueList(q, y))' \subseteq Waiting(QueueList(q, y))
  BY <1>2, <1>3, <1>7, SideStill DEF Ready
<1>9. /\ CellsOK(q) /\ queue \in [Queue -> QueueBlock]
      /\ queue[q].able[x] \in Nat /\ queue[q].able[y] \in Nat
      /\ Ready(q, x) \in Nat /\ Ready(q, y) \in Nat
  BY <1>3, ReadyCounts DEF CellsInv, QueueBlock, Side
<1>10. Waiting(QueueList(q, y))' # {} => queue'[q].able[y] = 0
  BY <1>3, <1>8, <1>9 DEF CellsOK
<1>11. /\ queue'[q].used /\ queue'[q].able[x] = 0
       /\ queue'[q].able[x] = queue[q].able[x] /\ queue'[q].able[y] = queue[q].able[y]
  BY <1>1
<1>12. CellsOK(q)'
  BY <1>1, <1>3, <1>8, <1>9, <1>10, <1>11, CellsBalance
<1>13. Ready(q, "read")' = Ready(q, "read")
  BY <1>3, <1>8 DEF Side
<1>14. Rests(q)
  BY <1>13 DEF Rests, Load
<1>15. /\ CellsInv' /\ After(QueueLists) /\ \A p \in Queue : Still(MailList(p))
       /\ \A p \in Queue : p # q => Rests(p)
  BY <1>7, <1>9, <1>12, OneQueue
<1> QED
  BY <1>6, <1>14, <1>15 DEF OneTurns

\* osQueueOperate goes on behind its LOS_Schedule.
LEMMA QueueReturnMoves ==
  ASSUME TasksInv, Parked, CellsInv, NEW q \in Queue, NEW op \in Op, QueueOperateReturns(q, op)
  PROVE  /\ CellsInv' /\ After(QueueLists) /\ (\A p \in Queue : Still(MailList(p)))
         /\ OneTurns /\ k'.prio = k.prio
<1>1. PICK x, y : x = SideOf(op) /\ y = Other(x)
  OBVIOUS
<1>2. PICK lx, ly : lx = QueueList(q, x) /\ ly = QueueList(q, y)
  OBVIOUS
<1>3. /\ x \in Side /\ y \in Side /\ x # y /\ Links(k)
      /\ lx \in PendList /\ ly \in PendList /\ lx # ly /\ FlagOf(ly) = "PEND_QUEUE"
      /\ lx \in CellLists(q) /\ ly \in CellLists(q)
  BY <1>1, <1>2, SidesOf, FlagsOfLists, QueuesApart DEF TasksInv, CellLists
<1>4. PICK w : w = Pending(q, op)
  OBVIOUS
<1>5. w \in Args(lx) /\ Checks(w)
  BY <1>1, <1>2, <1>3, <1>4, ArgsOf DEF Pending, QueueOperateReturns
<1>6. PICK waiters : waiters = k.pend[ly]
  OBVIOUS
<1>7. Ready(q, x) \in Nat /\ Ready(q, y) \in Nat
  BY <1>3, ReadyCounts
<1>8. CASE TimedOut(k.run)
  <2>1. ThenReturn(Cleared(k)) /\ queue' = queue /\ out' = out
    BY <1>8 DEF QueueOperateReturns, queueVars
  <2>2. /\ After({lx}) /\ Handed(lx, {}, {k.run}) /\ k'.prio = k.prio
        /\ k.run \in Grants(lx) <=> ~TimedOut(k.run)
    BY <1>3, <1>5, <2>1, CheckReturnsEffect
  <2>3. \A t \in {k.run} : t \notin Grants(lx)
    BY <1>8, <2>2
  <2>4. Still(lx)
    BY <2>2, <2>3, NobodyLeaves
  <2>5. After({})
    BY <2>2, <2>4 DEF After
  <2>6. \A p \in Queue, side \in Side \cup {"mail"} : Still(QueueList(p, side))
    BY <2>5, FlagsOfLists DEF After
  <2> QED
    BY <2>1, <2>2, <2>5, <2>6, CellsStill DEF After, MailList, OneTurns
<1>9. CASE ~TimedOut(k.run)
  <2>1. /\ Operate(q, op, queue[q], waiters)
        /\ waiters = <<>> => ThenReturn(k)
        /\ waiters # <<>> => ThenSchedule(osTaskWake(k, Head(k.pend[ly]), FlagOf(ly)), None)
    BY <1>1, <1>2, <1>3, <1>6, <1>9 DEF QueueOperateReturns, Finish, WaitersFor, PassedOn
  <2>4. queue[q].used
    <3>1. k.run \in Grants(QueueList(q, x))
      BY <1>2, <1>3, <1>5, <1>9, CallersRun, RunnersFacts
    <3> QED
      BY <1>3, <3>1, CellsUsed
  <2>2. CASE waiters = <<>>
    <3>1. /\ After({lx}) /\ Handed(lx, {}, {k.run}) /\ k'.prio = k.prio
          /\ k.run \in Grants(lx) <=> ~TimedOut(k.run)
      BY <1>3, <1>5, <2>1, <2>2, CheckReturnsEffect
    <3>2. After(CellLists(q)) /\ Still(ly)
      BY <1>3, <3>1 DEF After
    <3>3. Ready(q, x)' = Ready(q, x) - 1 /\ Waiting(QueueList(q, x))' = Waiting(QueueList(q, x))
      BY <1>2, <1>3, <1>9, <3>1, SideLeft
    <3>4. Waiting(QueueList(q, y))' = {} /\ Ready(q, y)' = Ready(q, y)
      BY <1>2, <1>3, <1>6, <2>2, <3>2, SideEmpty
    <3> QED
      BY <1>1, <1>7, <2>1, <2>2, <2>4, <3>1, <3>2, <3>3, <3>4, CellFinished
  <2>3. CASE waiters # <<>>
    <3>1. /\ After({lx, ly}) /\ Handed(lx, {}, {k.run}) /\ k'.prio = k.prio
          /\ k.run \in Grants(lx) <=> ~TimedOut(k.run)
          /\ \E h \in Waiting(ly) : Handed(ly, {h}, {})
      BY <1>3, <1>5, <1>6, <2>1, <2>3, CheckHandsOverEffect
    <3>2. After(CellLists(q))
      BY <1>3, <3>1 DEF After
    <3>3. Ready(q, x)' = Ready(q, x) - 1 /\ Waiting(QueueList(q, x))' = Waiting(QueueList(q, x))
      BY <1>2, <1>3, <1>9, <3>1, SideLeft
    <3>4. Waiting(QueueList(q, y)) # {} /\ Ready(q, y)' = Ready(q, y) + 1
      BY <1>2, <1>3, <3>1, SideServed
    <3> QED
      BY <1>1, <1>7, <2>1, <2>3, <2>4, <3>1, <3>2, <3>3, <3>4, CellFinished
  <2> QED
    BY <2>2, <2>3
<1> QED
  BY <1>8, <1>9

\* A queue is created, or deleted while nobody waits and no cell is on its way.
LEMMA QueueLifeMoves ==
  ASSUME TasksInv, Parked, CellsInv, NEW q \in Queue, LOS_QueueCreate(q) \/ LOS_QueueDelete(q)
  PROVE  /\ CellsInv' /\ After(QueueLists) /\ (\A p \in Queue : Still(MailList(p)))
         /\ OneTurns /\ k'.prio = k.prio
<1>1. /\ Calls("life") /\ ThenReturn(k) /\ out' = out
      /\ queue' \in {[queue EXCEPT ![q] = Fresh], [queue EXCEPT ![q] = [Fresh EXCEPT !.used = FALSE]]}
      /\ queue[q].used => /\ \A side \in Side : k.pend[QueueList(q, side)] = <<>>
                          /\ queue[q].able.read + queue[q].able.write = usQueueLen
  BY DEF LOS_QueueCreate, LOS_QueueDelete
<1>2. QueueList(q, "read") \in PendList /\ Links(k) /\ "read" \in Side
  BY FlagsOfLists DEF TasksInv, Side
<1>3. After({}) /\ k'.prio = k.prio
  BY <1>1, <1>2, CallReturnsEffect
<1>4. \A side \in Side : Still(QueueList(q, side))
  BY <1>3, FlagsOfLists DEF After
<1>5. /\ CellsOK(q) /\ queue \in [Queue -> QueueBlock]
      /\ queue[q].able.read \in Nat /\ queue[q].able.write \in Nat
      /\ Ready(q, "read") \in Nat /\ Ready(q, "write") \in Nat
  BY <1>2, ReadyCounts DEF CellsInv, QueueBlock, Side
<1>6. queue[q].able.read + queue[q].able.write = usQueueLen
  BY <1>1, <1>5 DEF CellsOK
<1>7. Ready(q, "read") = 0 /\ Ready(q, "write") = 0
  BY <1>5, <1>6, QueueAssumption DEF CellsOK
<1>8. Ready(q, "read")' = 0 /\ Ready(q, "write")' = 0
  BY <1>4, <1>7, SideStill DEF Side
<1>9. \A side \in Side : Waiting(QueueList(q, side))' = {}
  <2>1. ASSUME NEW side \in Side PROVE Waiting(QueueList(q, side)) = {}
    BY <1>1, <1>2, <1>5, FlagsOfLists, EmptyList DEF CellsOK
  <2> QED
    BY <1>4, <2>1, SideStill
<1>10. /\ Fresh \in QueueBlock /\ [Fresh EXCEPT !.used = FALSE] \in QueueBlock
       /\ \A x \in {Fresh, [Fresh EXCEPT !.used = FALSE]} :
            x.able = [read |-> 0, write |-> usQueueLen] /\ x.head = 0 /\ x.tail = 0
  <2>1. PICK cells, able : cells = [i \in 0..usQueueLen - 1 |-> None] /\ able = [read |-> 0, write |-> usQueueLen]
    OBVIOUS
  <2>2. /\ cells \in [0..usQueueLen - 1 -> Msg \cup {None}] /\ able \in [read : Nat, write : Nat]
        /\ 0 \in 0..usQueueLen - 1
    BY <2>1, QueueAssumption
  <2>3. Fresh = [used |-> TRUE, cells |-> cells, head |-> 0, tail |-> 0, able |-> able]
    BY <2>1 DEF Fresh
  <2>4. PICK x : x = Fresh
    OBVIOUS
  <2>5. x \in QueueBlock /\ x.able = able /\ x.head = 0 /\ x.tail = 0
    BY <2>2, <2>3, <2>4 DEF QueueBlock
  <2>6. PICK y : y = [x EXCEPT !.used = FALSE]
    OBVIOUS
  <2>7. y \in QueueBlock /\ y.able = able /\ y.head = 0 /\ y.tail = 0
    BY <2>5, <2>6 DEF QueueBlock
  <2> QED
    BY <2>1, <2>4, <2>5, <2>6, <2>7
<1>11. /\ queue' \in [Queue -> QueueBlock] /\ (\A p \in Queue : p # q => queue'[p] = queue[p])
       /\ queue'[q].able = [read |-> 0, write |-> usQueueLen] /\ queue'[q].head = 0 /\ queue'[q].tail = 0
  BY <1>1, <1>5, <1>10
<1>12. CellsOK(q)'
  BY <1>8, <1>9, <1>11, QueueAssumption DEF CellsOK
<1>13. After(CellLists(q))
  BY <1>3 DEF After
<1>14. Emptied(q)
  BY <1>8, <1>11 DEF Emptied, Load
<1>15. /\ CellsInv' /\ After(QueueLists) /\ \A p \in Queue : Still(MailList(p))
       /\ \A p \in Queue : p # q => Rests(p)
  BY <1>5, <1>11, <1>12, <1>13, OneQueue
<1> QED
  BY <1>1, <1>3, <1>14, <1>15 DEF OneTurns

-----------------------------------------------------------------------------
(* Queues: mail blocks                                                     *)

\* As many things as f says, each of a task.
Things(f) == UNION {{t} \X (1..f[t]) : t \in Task}

\* What tasks hold as pairs of a task and a number.
LEMMA ThingsAre ==
  ASSUME NEW f \in [Task -> Nat], NEW p
  PROVE  p \in Things(f) <=> \E t \in Task, i \in Nat : i \in 1..f[t] /\ p = <<t, i>>
<1>1. \A t \in Task : \A i \in 1..f[t] : i \in Nat
  OBVIOUS
<1>2. ASSUME NEW t \in Task, p \in {t} \X (1..f[t]) PROVE \E i \in Nat : i \in 1..f[t] /\ p = <<t, i>>
  BY <1>1, <1>2
<1>3. ASSUME NEW t \in Task, NEW i \in 1..f[t], p = <<t, i>> PROVE p \in {t} \X (1..f[t])
  BY <1>3
<1> QED
  BY <1>2, <1>3 DEF Things

\* One more for one task is one more in all.
LEMMA MoreThings ==
  ASSUME NEW f \in [Task -> Nat], IsFiniteSet(Things(f)), NEW t \in Task, NEW g, g = [f EXCEPT ![t] = f[t] + 1]
  PROVE  IsFiniteSet(Things(g)) /\ Cardinality(Things(g)) = Cardinality(Things(f)) + 1
<1>1. PICK p : p = <<t, f[t] + 1>>
  OBVIOUS
<1>2. p \notin Things(f)
  <2>1. ASSUME NEW u \in Task, NEW i \in 1..f[u], p = <<u, i>> PROVE FALSE
    <3>1. u = t /\ i = f[t] + 1
      BY <1>1, <2>1
    <3> QED
      BY <3>1
  <2> QED
    BY <2>1, ThingsAre
<1>3. g \in [Task -> Nat] /\ \A u \in Task : g[u] = IF u = t THEN f[t] + 1 ELSE f[u]
  OBVIOUS
<1>8. g \in [Task -> Nat]
  BY <1>3
<1>4. Things(g) \subseteq Things(f) \cup {p}
  <2>1. ASSUME NEW x \in Things(g) PROVE x \in Things(f) \cup {p}
    <3>1. PICK u \in Task, i \in Nat : i \in 1..g[u] /\ x = <<u, i>>
      <4>1. PICK u \in Task : x \in {u} \X (1..g[u])
        BY DEF Things
      <4>2. g[u] \in Nat
        BY <1>8
      <4> QED
        BY <4>1, <4>2
    <3>2. CASE i \in 1..f[u]
      BY <3>1, <3>2, ThingsAre
    <3>3. CASE i \notin 1..f[u]
      <4>1. u = t /\ i = f[t] + 1
        BY <1>3, <3>1, <3>3
      <4> QED
        BY <1>1, <3>1, <4>1
    <3> QED
      BY <3>2, <3>3
  <2> QED
    BY <2>1
<1>5. Things(f) \cup {p} \subseteq Things(g)
  <2>1. ASSUME NEW x \in Things(f) PROVE x \in Things(g)
    <3>1. PICK u \in Task, i \in Nat : i \in 1..f[u] /\ x = <<u, i>>
      BY ThingsAre
    <3>2. i \in 1..g[u]
      BY <1>3, <3>1
    <3> QED
      BY <1>3, <3>1, <3>2, ThingsAre
  <2>2. p \in Things(g)
    <3>1. f[t] + 1 \in 1..g[t]
      BY <1>3
    <3> QED
      BY <1>1, <1>3, <3>1, ThingsAre
  <2> QED
    BY <2>1, <2>2
<1>6. Things(g) = Things(f) \cup {p}
  BY <1>4, <1>5
<1>7. /\ IsFiniteSet(Things(f) \cup {p})
      /\ Cardinality(Things(f) \cup {p}) = Cardinality(Things(f)) + 1
  BY <1>2, FS_AddElement
<1> QED
  BY <1>6, <1>7

\* One less for one task is one less in all.
LEMMA FewerThings ==
  ASSUME NEW f \in [Task -> Nat], IsFiniteSet(Things(f)), NEW t \in Task, f[t] > 0,
         NEW g, g = [f EXCEPT ![t] = f[t] - 1]
  PROVE  IsFiniteSet(Things(g)) /\ Cardinality(Things(g)) = Cardinality(Things(f)) - 1
<1>1. g \in [Task -> Nat] /\ g[t] = f[t] - 1 /\ \A u \in Task : u # t => g[u] = f[u]
  OBVIOUS
<1>2. f = [g EXCEPT ![t] = g[t] + 1]
  <2>1. PICK h : h = [g EXCEPT ![t] = g[t] + 1]
    OBVIOUS
  <2>2. h \in [Task -> Nat] /\ \A u \in Task : h[u] = f[u]
    BY <1>1, <2>1
  <2> QED
    BY <2>1, <2>2
<1>7. g \in [Task -> Nat]
  BY <1>1
<1>3. Things(g) \subseteq Things(f)
  <2>1. ASSUME NEW x \in Things(g) PROVE x \in Things(f)
    <3>1. PICK u \in Task, i \in Nat : i \in 1..g[u] /\ x = <<u, i>>
      <4>1. PICK u \in Task : x \in {u} \X (1..g[u])
        BY DEF Things
      <4>2. g[u] \in Nat
        BY <1>7
      <4> QED
        BY <4>1, <4>2
    <3>2. i \in 1..f[u]
      BY <1>1, <3>1
    <3> QED
      BY <3>1, <3>2, ThingsAre
  <2> QED
    BY <2>1
<1>4. IsFiniteSet(Things(g))
  BY <1>3, FS_Subset
<1>5. Cardinality(Things(f)) = Cardinality(Things(g)) + 1
  BY <1>1, <1>2, <1>4, MoreThings
<1>6. Cardinality(Things(g)) \in Nat
  BY <1>4, FS_CardinalityType
<1> QED
  BY <1>4, <1>5, <1>6

\* Who has something is counted.
LEMMA SomeThings ==
  ASSUME NEW f \in [Task -> Nat], IsFiniteSet(Things(f)), NEW t \in Task, f[t] > 0
  PROVE  Cardinality(Things(f)) > 0
<1>1. <<t, 1>> \in Things(f)
  BY ThingsAre
<1>2. Cardinality(Things(f)) \in Nat /\ Cardinality(Things(f)) # 0
  BY <1>1, FS_CardinalityType, FS_EmptySet
<1> QED
  BY <1>2

\* Nobody has anything when all counts are 0.
LEMMA NoThings ==
  ASSUME NEW f \in [Task -> Nat], \A t \in Task : f[t] = 0
  PROVE  Things(f) = {}
<1>1. ASSUME NEW x \in Things(f) PROVE FALSE
  <2>1. PICK u \in Task, i \in Nat : i \in 1..f[u] /\ x = <<u, i>>
    BY ThingsAre
  <2> QED
    BY <2>1
<1> QED
  BY <1>1

\* A step that is not about mail blocks.
LEMMA BlocksStill ==
  ASSUME BlocksInv, pool' = pool, mails' = mails, \A q \in Queue : Still(MailList(q))
  PROVE  BlocksInv'
<1>1. ASSUME NEW q \in Queue PROVE BlocksOK(q)'
  <2>1. BlocksOK(q) /\ Ready(q, "mail")' = Ready(q, "mail")
    BY DEF BlocksInv, Ready, MailList, Still
  <2>2. InUse(q)' = InUse(q)
    BY DEF InUse
  <2> QED
    BY <2>1, <2>2 DEF BlocksOK
<1> QED
  BY <1>1 DEF BlocksInv

\* A step that is about the blocks of one queue.
LEMMA OneMailbox ==
  ASSUME BlocksInv, NEW q \in Queue, After({MailList(q)}),
         pool' \in [Queue -> Nat], mails' \in [Queue -> [Task -> Nat]],
         \A p \in Queue : p # q => pool'[p] = pool[p] /\ mails'[p] = mails[p],
         BlocksOK(q)'
  PROVE  /\ BlocksInv' /\ After(QueueLists)
         /\ \A p \in Queue, side \in Side : Still(QueueList(p, side))
<1>1. \A p \in Queue, side \in Side \cup {"mail"} : QueueList(p, side) \in PendList
  BY FlagsOfLists
<1>2. ASSUME NEW p \in Queue, p # q PROVE BlocksOK(p)'
  <2>1. Still(MailList(p))
    BY <1>1, <1>2, QueuesApart DEF After, MailList
  <2>2. BlocksOK(p) /\ Ready(p, "mail")' = Ready(p, "mail")
    BY <2>1 DEF BlocksInv, Ready, MailList, Still
  <2>3. InUse(p)' = InUse(p) /\ pool'[p] = pool[p]
    BY <1>2 DEF InUse
  <2> QED
    BY <2>2, <2>3 DEF BlocksOK
<1>3. After(QueueLists)
  <2>1. \A l \in PendList : l \notin QueueLists => l \notin {MailList(q)}
    BY DEF QueueLists, MailList
  <2> QED
    BY <2>1 DEF After
<1>4. ASSUME NEW p \in Queue, NEW side \in Side PROVE Still(QueueList(p, side))
  <2>1. QueueList(p, side) \notin {MailList(q)}
    BY SidesOf, QueuesApart DEF MailList
  <2> QED
    BY <1>1, <2>1 DEF After
<1> QED
  BY <1>2, <1>3, <1>4 DEF BlocksInv

\* The blocks in use, after a block was taken or given back.
LEMMA MailTakenCounts ==
  ASSUME BlocksInv, NEW q \in Queue, NEW t \in Task,
         mails' = [mails EXCEPT ![q][t] = mails[q][t] + 1]
  PROVE  /\ mails' \in [Queue -> [Task -> Nat]]
         /\ \A p \in Queue : p # q => mails'[p] = mails[p]
         /\ IsFiniteSet(InUse(q))'
         /\ Cardinality(InUse(q))' = Cardinality(InUse(q)) + 1
<1>1. PICK f : f = mails[q]
  OBVIOUS
<1>2. f \in [Task -> Nat] /\ mails \in [Queue -> [Task -> Nat]]
  BY <1>1 DEF BlocksInv
<1>3. PICK g : g = [f EXCEPT ![t] = f[t] + 1]
  OBVIOUS
<1>4. g \in [Task -> Nat] /\ mails' = [mails EXCEPT ![q] = g]
  <2>1. g \in [Task -> Nat]
    BY <1>2, <1>3
  <2>2. mails' = [mails EXCEPT ![q] = [f EXCEPT ![t] = f[t] + 1]]
    BY <1>1
  <2> QED
    BY <1>3, <2>1, <2>2
<1>5. mails'[q] = g /\ mails' \in [Queue -> [Task -> Nat]] /\ \A p \in Queue : p # q => mails'[p] = mails[p]
  BY <1>2, <1>4
<1>6. InUse(q) = Things(f) /\ InUse(q)' = Things(g) /\ IsFiniteSet(Things(f))
  <2>1. InUse(q) = Things(f)
    BY <1>1 DEF InUse, Things
  <2>2. InUse(q)' = Things(g)
    BY <1>5 DEF InUse, Things
  <2>3. IsFiniteSet(InUse(q))
    BY DEF BlocksInv, BlocksOK
  <2> QED
    BY <2>1, <2>2, <2>3
<1>7. IsFiniteSet(Things(g)) /\ Cardinality(Things(g)) = Cardinality(Things(f)) + 1
  BY <1>2, <1>3, <1>6, MoreThings
<1> QED
  BY <1>5, <1>6, <1>7

\* A block that is given back leaves one less in use (osQueueMailFree).
LEMMA MailGivenCounts ==
  ASSUME BlocksInv, NEW q \in Queue, NEW t \in Task, mails[q][t] > 0,
         mails' = [mails EXCEPT ![q][t] = mails[q][t] + (-1)]
  PROVE  /\ mails' \in [Queue -> [Task -> Nat]]
         /\ \A p \in Queue : p # q => mails'[p] = mails[p]
         /\ IsFiniteSet(InUse(q))'
         /\ Cardinality(InUse(q))' = Cardinality(InUse(q)) - 1
<1>1. PICK f : f = mails[q]
  OBVIOUS
<1>2. f \in [Task -> Nat] /\ mails \in [Queue -> [Task -> Nat]] /\ f[t] > 0 /\ f[t] + (-1) = f[t] - 1
  BY <1>1 DEF BlocksInv
<1>3. PICK g : g = [f EXCEPT ![t] = f[t] - 1]
  OBVIOUS
<1>4. g \in [Task -> Nat] /\ mails' = [mails EXCEPT ![q] = g]
  <2>1. g \in [Task -> Nat]
    BY <1>2, <1>3
  <2>2. mails' = [mails EXCEPT ![q] = [f EXCEPT ![t] = f[t] + (-1)]]
    BY <1>1
  <2> QED
    BY <1>2, <1>3, <2>1, <2>2
<1>5. mails'[q] = g /\ mails' \in [Queue -> [Task -> Nat]] /\ \A p \in Queue : p # q => mails'[p] = mails[p]
  BY <1>2, <1>4
<1>6. InUse(q) = Things(f) /\ InUse(q)' = Things(g) /\ IsFiniteSet(Things(f))
  <2>1. InUse(q) = Things(f)
    BY <1>1 DEF InUse, Things
  <2>2. InUse(q)' = Things(g)
    BY <1>5 DEF InUse, Things
  <2>3. IsFiniteSet(InUse(q))
    BY DEF BlocksInv, BlocksOK
  <2> QED
    BY <2>1, <2>2, <2>3
<1>7. IsFiniteSet(Things(g)) /\ Cardinality(Things(g)) = Cardinality(Things(f)) - 1
  BY <1>2, <1>3, <1>6, FewerThings
<1> QED
  BY <1>5, <1>6, <1>7

\* A block is taken, waited for or given back.
LEMMA MailMoves ==
  ASSUME TasksInv, Parked, BlocksInv, NEW q \in Queue,
         \/ \E timeout \in Timeout : osQueueMailAlloc(q, timeout)
         \/ MailAllocReturns(q) \/ osQueueMailFree(q)
  PROVE  /\ BlocksInv' /\ After(QueueLists) /\ k'.prio = k.prio
         /\ \A p \in Queue, side \in Side : Still(QueueList(p, side))
<1>1. PICK l, r : l = MailList(q) /\ r = k.run
  OBVIOUS
<1>2. /\ l \in PendList /\ FlagOf(l) = "PEND_QUEUE" /\ For(l, None) \in Args(l) /\ Links(k)
      /\ pool \in [Queue -> Nat] /\ mails \in [Queue -> [Task -> Nat]]
      /\ pool[q] \in Nat /\ BlocksOK(q)
      /\ l = QueueList(q, "mail")
  BY <1>1, FlagsOfLists, ArgsOf DEF TasksInv, BlocksInv, MailList
<1>3. Ready(q, "mail") \in Nat /\ Cardinality(InUse(q)) \in Nat /\ Ready(q, "mail") = Cardinality(Grants(l))
  BY <1>2, ReadyCounts, FS_CardinalityType DEF BlocksOK, Ready
<1>5. CASE Calls("mail") /\ pool[q] > 0 /\ pool' = [pool EXCEPT ![q] = pool[q] - 1] /\ Mailed(q, 1) /\ ThenReturn(k)
  <2>1. After({}) /\ k'.prio = k.prio
    BY <1>2, <1>5, CallReturnsEffect
  <2>2. After({l}) /\ Still(l)
    BY <1>2, <2>1, AfterNothing
  <2>3. Ready(q, "mail")' = Ready(q, "mail")
    BY <1>2, <2>2 DEF Ready, Still
  <2>4. r \in Task /\ mails' = [mails EXCEPT ![q][r] = mails[q][r] + 1]
    BY <1>1, <1>5 DEF Calls, Mailed
  <2>5. /\ mails' \in [Queue -> [Task -> Nat]]
        /\ \A p \in Queue : p # q => mails'[p] = mails[p]
        /\ IsFiniteSet(InUse(q))'
        /\ Cardinality(InUse(q))' = Cardinality(InUse(q)) + 1
    BY <2>4, MailTakenCounts
  <2>6. /\ pool' \in [Queue -> Nat] /\ pool'[q] = pool[q] - 1
        /\ \A p \in Queue : p # q => pool'[p] = pool[p]
    BY <1>2, <1>5
  <2>7. BlocksOK(q)'
    BY <1>2, <1>3, <2>3, <2>5, <2>6 DEF BlocksOK
  <2> QED
    BY <1>1, <2>1, <2>2, <2>5, <2>6, <2>7, OneMailbox
<1>6. ASSUME NEW timed, Calls("mail"), UNCHANGED <<pool, mails>>,
             ThenSchedule(osTaskWait(k, l, "PEND_QUEUE", timed), For(l, None))
      PROVE  /\ BlocksInv' /\ After(QueueLists) /\ k'.prio = k.prio
             /\ \A p \in Queue, side \in Side : Still(QueueList(p, side))
  <2>1. ThenSchedule(osTaskWait(k, l, FlagOf(l), timed), For(l, None))
    BY <1>2, <1>6
  <2>2. After({l}) /\ Joined(l, k.run, For(l, None), timed) /\ k'.prio = k.prio
    BY <1>2, <1>6, <2>1, CallWaitsEffect
  <2>3. Ready(q, "mail")' = Ready(q, "mail")
    BY <1>2, <2>2 DEF Ready, Joined
  <2>4. BlocksOK(q)'
    BY <1>2, <1>6, <2>3 DEF BlocksOK, InUse
  <2> QED
    BY <1>1, <1>2, <1>6, <2>2, <2>4, OneMailbox
<1>7. CASE MailAllocReturns(q)
  <2>1. Checks(For(l, None)) /\ ThenReturn(Cleared(k)) /\ pool' = pool
    BY <1>1, <1>7 DEF MailAllocReturns
  <2>2. /\ After({l}) /\ Handed(l, {}, {r}) /\ k'.prio = k.prio /\ r \in Task
        /\ r \in Grants(l) <=> ~TimedOut(r)
    BY <1>1, <1>2, <2>1, CheckReturnsEffect
  <2>3. Grants(l)' = Grants(l) \ {r}
    BY <2>2 DEF Handed
  <2>4. CASE TimedOut(r)
    <3>1. mails' = mails
      BY <1>1, <1>7, <2>4 DEF MailAllocReturns
    <3>2. Grants(l)' = Grants(l)
      BY <2>2, <2>3, <2>4
    <3>3. Ready(q, "mail")' = Ready(q, "mail") /\ InUse(q)' = InUse(q)
      BY <1>2, <3>1, <3>2 DEF Ready, InUse
    <3>4. BlocksOK(q)'
      BY <1>2, <2>1, <3>3 DEF BlocksOK
    <3> QED
      BY <1>1, <1>2, <2>1, <2>2, <3>1, <3>4, OneMailbox
  <2>5. CASE ~TimedOut(r)
    <3>1. mails' = [mails EXCEPT ![q][r] = mails[q][r] + 1]
      BY <1>1, <1>7, <2>5 DEF MailAllocReturns, Mailed
    <3>2. /\ mails' \in [Queue -> [Task -> Nat]]
          /\ \A p \in Queue : p # q => mails'[p] = mails[p]
          /\ IsFiniteSet(InUse(q))'
          /\ Cardinality(InUse(q))' = Cardinality(InUse(q)) + 1
      BY <2>2, <3>1, MailTakenCounts
    <3>3. Ready(q, "mail")' = Ready(q, "mail") - 1
      BY <1>2, <2>2, <2>3, <2>5, GrantCounts DEF Ready
    <3>4. BlocksOK(q)'
      BY <1>2, <1>3, <2>1, <3>2, <3>3 DEF BlocksOK
    <3> QED
      BY <1>1, <1>2, <2>1, <2>2, <3>2, <3>4, OneMailbox
  <2> QED
    BY <2>4, <2>5
<1>8. CASE osQueueMailFree(q)
  <2>1. /\ Calls("mail") /\ r \in Task /\ mails[q][r] > 0 /\ mails' = [mails EXCEPT ![q][r] = mails[q][r] + (-1)]
        /\ k.pend[l] = <<>> => pool' = [pool EXCEPT ![q] = pool[q] + 1] /\ ThenReturn(k)
        /\ k.pend[l] # <<>> => pool' = pool /\ ThenSchedule(osTaskWake(k, Head(k.pend[l]), FlagOf(l)), None)
    BY <1>1, <1>2, <1>8 DEF osQueueMailFree, Calls, Mailed
  <2>2. /\ mails' \in [Queue -> [Task -> Nat]]
        /\ \A p \in Queue : p # q => mails'[p] = mails[p]
        /\ IsFiniteSet(InUse(q))'
        /\ Cardinality(InUse(q))' = Cardinality(InUse(q)) - 1
    BY <2>1, MailGivenCounts
  <2>3. CASE k.pend[l] = <<>>
    <3>1. After({}) /\ k'.prio = k.prio
      BY <1>2, <2>1, <2>3, CallReturnsEffect
    <3>2. After({l}) /\ Still(l)
      BY <1>2, <3>1, AfterNothing
    <3>3. Ready(q, "mail")' = Ready(q, "mail")
      BY <1>2, <3>2 DEF Ready, Still
    <3>4. /\ pool' \in [Queue -> Nat] /\ pool'[q] = pool[q] + 1
          /\ \A p \in Queue : p # q => pool'[p] = pool[p]
      BY <1>2, <2>1, <2>3
    <3>5. BlocksOK(q)'
      BY <1>2, <1>3, <2>2, <3>3, <3>4 DEF BlocksOK
    <3> QED
      BY <1>1, <2>2, <3>1, <3>2, <3>4, <3>5, OneMailbox
  <2>4. CASE k.pend[l] # <<>>
    <3>1. /\ After({l}) /\ k'.prio = k.prio
          /\ \E h \in Waiting(l) : Handed(l, {h}, {})
      BY <1>2, <2>1, <2>4, CallHandsOverEffect
    <3>2. PICK h \in Waiting(l) : Grants(l)' = Grants(l) \cup {h}
      BY <3>1 DEF Handed
    <3>3. Ready(q, "mail")' = Ready(q, "mail") + 1
      BY <1>2, <3>2, GrantCounts DEF Ready
    <3>4. BlocksOK(q)'
      BY <1>2, <1>3, <2>1, <2>2, <2>4, <3>3 DEF BlocksOK
    <3> QED
      BY <1>1, <1>2, <2>1, <2>2, <2>4, <3>1, <3>4, OneMailbox
  <2> QED
    BY <2>3, <2>4
<1>9. ASSUME NEW timeout, osQueueMailAlloc(q, timeout)
      PROVE  /\ BlocksInv' /\ After(QueueLists) /\ k'.prio = k.prio
             /\ \A p \in Queue, side \in Side : Still(QueueList(p, side))
  <2>1. \/ Calls("mail") /\ pool[q] > 0 /\ pool' = [pool EXCEPT ![q] = pool[q] - 1] /\ Mailed(q, 1) /\ ThenReturn(k)
        \/ /\ Calls("mail") /\ UNCHANGED <<pool, mails>>
           /\ ThenSchedule(osTaskWait(k, l, "PEND_QUEUE", timeout = "ticks"), For(l, None))
    BY <1>1, <1>9 DEF osQueueMailAlloc
  <2> QED
    BY <1>5, <1>6, <2>1
<1> QED
  BY <1>7, <1>8, <1>9

\* Every step of the queues keeps the balance of cells and of blocks, and
\* touches no other list.
LEMMA QueueMoves ==
  ASSUME TasksInv, Parked, CellsInv, BlocksInv, QueueNext
  PROVE  CellsInv' /\ BlocksInv' /\ After(QueueLists) /\ OneTurns /\ k'.prio = k.prio
<1>1. PICK q \in Queue :
        \/ \E op \in Op : \/ \E timeout \in Timeout : osQueueOperate(q, op, timeout)
                          \/ QueueOperateReturns(q, op)
                          \/ InterruptOperates(q, op)
        \/ LOS_QueueCreate(q) \/ LOS_QueueDelete(q)
        \/ \E timeout \in Timeout : osQueueMailAlloc(q, timeout)
        \/ MailAllocReturns(q)
        \/ osQueueMailFree(q)
  <2>1. app.timeouts \subseteq Timeout /\ OpOf(app) \subseteq Op
    BY TasksAssumption DEF TasksInv, OpOf
  <2> QED
    BY <2>1 DEF QueueNext
<1>2. ASSUME CellsInv' /\ After(QueueLists) /\ (\A p \in Queue : Still(MailList(p))) /\ OneTurns /\ k'.prio = k.prio,
             pool' = pool, mails' = mails
      PROVE  CellsInv' /\ BlocksInv' /\ After(QueueLists) /\ OneTurns /\ k'.prio = k.prio
  BY <1>2, BlocksStill
<1>3. ASSUME NEW op \in Op, NEW timeout, osQueueOperate(q, op, timeout)
      PROVE  CellsInv' /\ BlocksInv' /\ After(QueueLists) /\ OneTurns /\ k'.prio = k.prio
  <2>1. Calls("queue") /\ queue[q].used
    BY <1>3 DEF osQueueOperate
  <2>2. CASE queue[q].able[SideOf(op)] > 0 /\ Finish(q, op, CellTaken(q, op), k)
    <3>1. pool' = pool /\ mails' = mails
      BY <2>2 DEF Finish, Operate
    <3> QED
      BY <1>2, <2>1, <2>2, <3>1, CellTakenMoves
  <2>3. CASE queue[q].able[SideOf(op)] = 0
    <3>1. PICK timed : timed = (timeout = "ticks")
      OBVIOUS
    <3>2. /\ ThenSchedule(osTaskWait(k, QueueList(q, SideOf(op)), "PEND_QUEUE", timed), Pending(q, op))
          /\ queue' = queue /\ out' = out /\ pool' = pool /\ mails' = mails
      BY <1>3, <2>3, <3>1 DEF osQueueOperate, queueVars
    <3> QED
      BY <1>2, <2>1, <2>3, <3>2, CellAwaitedMoves
  <2> QED
    BY <1>3, <2>2, <2>3 DEF osQueueOperate
<1>4. ASSUME NEW op \in Op, QueueOperateReturns(q, op)
      PROVE  CellsInv' /\ BlocksInv' /\ After(QueueLists) /\ OneTurns /\ k'.prio = k.prio
  <2>1. pool' = pool /\ mails' = mails
    BY <1>4 DEF QueueOperateReturns, Finish, Operate, queueVars
  <2> QED
    BY <1>2, <1>4, <2>1, QueueReturnMoves
<1>5. ASSUME NEW op \in Op, InterruptOperates(q, op)
      PROVE  CellsInv' /\ BlocksInv' /\ After(QueueLists) /\ OneTurns /\ k'.prio = k.prio
  <2>1. pool' = pool /\ mails' = mails /\ queue[q].used /\ queue[q].able[SideOf(op)] > 0
    BY <1>5 DEF InterruptOperates, Operate
  <2> QED
    BY <1>2, <1>5, <2>1, CellTakenMoves
<1>6. CASE LOS_QueueCreate(q) \/ LOS_QueueDelete(q)
  <2>1. pool' = pool /\ mails' = mails
    BY <1>6 DEF LOS_QueueCreate, LOS_QueueDelete
  <2> QED
    BY <1>2, <1>6, <2>1, QueueLifeMoves
<1>7. CASE \/ \E timeout \in Timeout : osQueueMailAlloc(q, timeout)
           \/ MailAllocReturns(q) \/ osQueueMailFree(q)
  <2>1. queue' = queue /\ out' = out
    BY <1>7 DEF osQueueMailAlloc, MailAllocReturns, osQueueMailFree
  <2> QED
    BY <1>7, <2>1, MailMoves, CellsStill DEF OneTurns
<1> QED
  BY <1>1, <1>3, <1>4, <1>5, <1>6, <1>7

-----------------------------------------------------------------------------
(* Read-write locks                                                        *)

LockLists(l) == {ReadList(l), WriteList(l)}
RWLists == {ReadList(l) : l \in RWLock} \cup {WriteList(l) : l \in RWLock}
Shares == [Task -> [RWLock -> [read : Nat, write : Nat]]]
LockBlocks == [RWLock -> [used : BOOLEAN, readers : Nat, writes : Nat, owner : Task \cup {None}]]

\* The two lists of each read-write lock are lists of their own.
LEMMA LocksApart ==
  \A l, m \in RWLock : /\ ReadList(l) # WriteList(m)
                       /\ ReadList(l) = ReadList(m) => l = m
                       /\ WriteList(l) = WriteList(m) => l = m
BY DEF ReadList, WriteList

\* The read locks the calls have returned are things of the tasks.
LEMMA SharesAreThings ==
  ASSUME share \in Shares, NEW l \in RWLock, NEW f, f = [t \in Task |-> share[t][l].read]
  PROVE  f \in [Task -> Nat] /\ ReadShares(l) = Things(f)
<1>1. f \in [Task -> Nat]
  BY DEF Shares
<1>2. \A t \in Task : f[t] = share[t][l].read
  OBVIOUS
<1> QED
  BY <1>1, <1>2 DEF ReadShares, Things

\* A step that is not about a lock.
LEMMA LockKept ==
  ASSUME NEW m \in RWLock, RWOK(m), rw'[m] = rw[m], \A t \in Task : share'[t][m] = share[t][m],
         Still(ReadList(m)), Still(WriteList(m)), app' = app
  PROVE  RWOK(m)'
<1>1. /\ Grants(ReadList(m))' = Grants(ReadList(m)) /\ Grants(WriteList(m))' = Grants(WriteList(m))
      /\ Waiting(ReadList(m))' \subseteq Waiting(ReadList(m))
      /\ Waiting(WriteList(m))' \subseteq Waiting(WriteList(m))
      /\ Untimed(WriteList(m)) => Waiting(WriteList(m))' = Waiting(WriteList(m)) /\ Untimed(WriteList(m))'
  BY DEF Still
<1>2. ReadShares(m)' = ReadShares(m)
  BY DEF ReadShares
<1>3. ReadersOK(m)'
  BY <1>1, <1>2 DEF RWOK, ReadersOK
<1>4. WriterOK(m)'
  BY <1>1 DEF RWOK, WriterOK
<1>5. LockWaitersOK(m)'
  BY <1>1 DEF RWOK, LockWaitersOK
<1> QED
  BY <1>3, <1>4, <1>5 DEF RWOK

\* A step that changes no lock and leaves its waiters alone keeps the invariant.
LEMMA LocksStill ==
  ASSUME RWInv, UNCHANGED rwVars, app' = app, \A l \in RWLock : Still(ReadList(l)) /\ Still(WriteList(l))
  PROVE  RWInv'
<1>1. rw' = rw /\ share' = share
  BY DEF rwVars
<1>2. ASSUME NEW l \in RWLock PROVE RWOK(l)'
  BY <1>1, LockKept DEF RWInv
<1> QED
  BY <1>1, <1>2 DEF RWInv

\* A step that is about one lock.
LEMMA OneLock ==
  ASSUME RWInv, NEW l \in RWLock, After(LockLists(l)), app' = app, share' \in Shares, rw' \in LockBlocks,
         \A m \in RWLock : m # l => rw'[m] = rw[m] /\ \A t \in Task : share'[t][m] = share[t][m],
         RWOK(l)'
  PROVE  RWInv' /\ After(RWLists)
<1>1. ASSUME NEW m \in RWLock, m # l PROVE RWOK(m)'
  <2>1. /\ ReadList(m) \in PendList /\ ReadList(m) \notin LockLists(l)
        /\ WriteList(m) \in PendList /\ WriteList(m) \notin LockLists(l)
    BY <1>1, FlagsOfLists, LocksApart DEF LockLists
  <2>2. Still(ReadList(m)) /\ Still(WriteList(m))
    BY <2>1 DEF After
  <2>3. RWOK(m)
    BY DEF RWInv
  <2> QED
    BY <1>1, <2>2, <2>3, LockKept
<1>2. After(RWLists)
  <2>1. \A m \in PendList : m \notin RWLists => m \notin LockLists(l)
    BY DEF RWLists, LockLists
  <2> QED
    BY <2>1 DEF After
<1> QED
  BY <1>1, <1>2 DEF RWInv, Shares, LockBlocks

\* What changes in the history when a lock is taken or given back.
SharesChange(t, l, kind, n) ==
  /\ share' \in Shares
  /\ \A u \in Task, m \in RWLock : u # t \/ m # l => share'[u][m] = share[u][m]
  /\ kind = "read" => share'[t][l].read = n /\ share'[t][l].write = share[t][l].write
  /\ kind = "write" => share'[t][l].write = n /\ share'[t][l].read = share[t][l].read

\* The count that a call changes is the one of its task and lock alone.
LEMMA SharesSet ==
  ASSUME share \in Shares, NEW t \in Task, NEW l \in RWLock, NEW kind \in {"read", "write"}, NEW n \in Nat,
         share' = [share EXCEPT ![t][l][kind] = n]
  PROVE  SharesChange(t, l, kind, n)
<1>1. PICK f : f = share[t]
  OBVIOUS
<1>2. PICK e : e = f[l]
  OBVIOUS
<1>3. f \in [RWLock -> [read : Nat, write : Nat]] /\ e \in [read : Nat, write : Nat]
  BY <1>1, <1>2 DEF Shares
<1>4. PICK d : d = [e EXCEPT ![kind] = n]
  OBVIOUS
<1>5. /\ d \in [read : Nat, write : Nat]
      /\ kind = "read" => d.read = n /\ d.write = e.write
      /\ kind = "write" => d.write = n /\ d.read = e.read
  BY <1>3, <1>4
<1>6. PICK g : g = [f EXCEPT ![l] = d]
  OBVIOUS
<1>7. g \in [RWLock -> [read : Nat, write : Nat]] /\ g[l] = d /\ \A m \in RWLock : m # l => g[m] = f[m]
  BY <1>3, <1>5, <1>6
<1>8. share' = [share EXCEPT ![t] = g]
  <2>1. share' = [share EXCEPT ![t] = [f EXCEPT ![l] = [e EXCEPT ![kind] = n]]]
    BY <1>1, <1>2
  <2> QED
    BY <1>4, <1>6, <2>1
<1>9. share' \in Shares /\ share'[t] = g /\ \A u \in Task : u # t => share'[u] = share[u]
  BY <1>7, <1>8 DEF Shares
<1> QED
  BY <1>1, <1>2, <1>5, <1>7, <1>9 DEF SharesChange

\* A read lock that is returned to its caller is one more read share.
LEMMA ReadTaken ==
  ASSUME share \in Shares, NEW t \in Task, NEW l \in RWLock, IsFiniteSet(ReadShares(l)),
         SharesChange(t, l, "read", share[t][l].read + 1)
  PROVE  IsFiniteSet(ReadShares(l))' /\ Cardinality(ReadShares(l))' = Cardinality(ReadShares(l)) + 1
<1>1. PICK f : f = [u \in Task |-> share[u][l].read]
  OBVIOUS
<1>2. PICK g : g = [u \in Task |-> share'[u][l].read]
  OBVIOUS
<1>3. f \in [Task -> Nat] /\ ReadShares(l) = Things(f) /\ f[t] = share[t][l].read
  BY <1>1, SharesAreThings
<1>4. ReadShares(l)' = Things(g)
  <2>1. \A u \in Task : g[u] = share'[u][l].read
    BY <1>2
  <2> QED
    BY <2>1 DEF ReadShares, Things
<1>5. g = [f EXCEPT ![t] = f[t] + 1]
  <2>1. \A u \in Task : u # t => share'[u][l] = share[u][l]
    BY DEF SharesChange
  <2>2. share'[t][l].read = f[t] + 1
    BY <1>3 DEF SharesChange
  <2> QED
    BY <1>1, <1>2, <1>3, <2>1, <2>2
<1>6. IsFiniteSet(Things(g)) /\ Cardinality(Things(g)) = Cardinality(Things(f)) + 1
  BY <1>3, <1>5, MoreThings
<1> QED
  BY <1>3, <1>4, <1>6

\* Unlocking takes one away.
LEMMA ReadGiven ==
  ASSUME share \in Shares, NEW t \in Task, NEW l \in RWLock, IsFiniteSet(ReadShares(l)), share[t][l].read > 0,
         SharesChange(t, l, "read", share[t][l].read - 1)
  PROVE  /\ IsFiniteSet(ReadShares(l))' /\ Cardinality(ReadShares(l))' = Cardinality(ReadShares(l)) - 1
         /\ Cardinality(ReadShares(l)) > 0
<1>1. PICK f : f = [u \in Task |-> share[u][l].read]
  OBVIOUS
<1>2. PICK g : g = [u \in Task |-> share'[u][l].read]
  OBVIOUS
<1>3. f \in [Task -> Nat] /\ ReadShares(l) = Things(f) /\ f[t] = share[t][l].read
  BY <1>1, SharesAreThings
<1>4. ReadShares(l)' = Things(g)
  <2>1. \A u \in Task : g[u] = share'[u][l].read
    BY <1>2
  <2> QED
    BY <2>1 DEF ReadShares, Things
<1>5. g = [f EXCEPT ![t] = f[t] - 1]
  <2>1. \A u \in Task : u # t => share'[u][l] = share[u][l]
    BY DEF SharesChange
  <2>2. share'[t][l].read = f[t] - 1
    BY <1>3 DEF SharesChange
  <2> QED
    BY <1>1, <1>2, <1>3, <2>1, <2>2
<1>6. f[t] > 0 /\ IsFiniteSet(Things(f))
  BY <1>3
<1>7. IsFiniteSet(Things(g)) /\ Cardinality(Things(g)) = Cardinality(Things(f)) - 1
  BY <1>3, <1>5, <1>6, FewerThings
<1>8. Cardinality(Things(f)) > 0
  BY <1>3, <1>6, SomeThings
<1> QED
  BY <1>3, <1>4, <1>7, <1>8

\* Write locks are no read shares.
LEMMA WriteCounted ==
  ASSUME NEW t \in Task, NEW l \in RWLock, NEW n, SharesChange(t, l, "write", n)
  PROVE  ReadShares(l)' = ReadShares(l)
<1>1. \A u \in Task : share'[u][l].read = share[u][l].read
  <2>1. ASSUME NEW u \in Task PROVE share'[u][l].read = share[u][l].read
    <3>1. CASE u = t
      BY <3>1 DEF SharesChange
    <3>2. CASE u # t
      <4>1. share'[u][l] = share[u][l]
        BY <3>2 DEF SharesChange
      <4> QED
        BY <4>1
    <3> QED
      BY <3>1, <3>2
  <2> QED
    BY <2>1
<1> QED
  BY <1>1 DEF ReadShares

\* A list is as long as those who wait in it are many.
LEMMA ListCounts ==
  ASSUME Links(k), NEW l \in PendList
  PROVE  IsFiniteSet(Waiting(l)) /\ Cardinality(Waiting(l)) = Len(k.pend[l])
<1>1. PICK list, W : list = k.pend[l] /\ W = Waiting(l)
  OBVIOUS
<1>2. list \in Seq(Task) /\ Distinct(list)
  BY <1>1 DEF Links, PendOK, KState
<1>3. Len(list) \in Nat /\ DOMAIN list = 1..Len(list)
  BY <1>2
<1>4. \A i \in 1..Len(list) : list[i] \in W
  BY <1>1, <1>2, <1>3 DEF Waiting, OnList
<1>5. \A t \in W : \E i \in 1..Len(list) : list[i] = t
  BY <1>1, <1>3 DEF Waiting, OnList
<1>6. \A i, j \in 1..Len(list) : list[i] = list[j] => i = j
  BY <1>2, <1>3 DEF Distinct
<1>7. list \in Bijection(1..Len(list), W)
  <2>1. list \in [1..Len(list) -> W]
    BY <1>2, <1>3, <1>4
  <2> QED
    BY <1>5, <1>6, <2>1 DEF Bijection, Injection, Surjection, IsInjective
<1>8. ExistsBijection(1..Len(list), W)
  BY <1>7 DEF ExistsBijection
<1>9. IsFiniteSet(W) /\ Cardinality(W) = Len(list)
  BY <1>3, <1>8, FS_CountingElements, FS_NatBijection
<1> QED
  BY <1>1, <1>9

LockBlock == [used : BOOLEAN, readers : Nat, writes : Nat, owner : Task \cup {None}]

\* What the proofs about the calls of one lock have in common.
LEMMA LockFacts ==
  ASSUME TasksInv, RWInv, NEW l \in RWLock
  PROVE  /\ Links(k) /\ ReadList(l) \in PendList /\ WriteList(l) \in PendList
         /\ FlagOf(ReadList(l)) = "PEND" /\ FlagOf(WriteList(l)) = "PEND"
         /\ For(ReadList(l), None) \in Args(ReadList(l)) /\ For(WriteList(l), None) \in Args(WriteList(l))
         /\ share \in Shares /\ rw \in LockBlocks /\ rw[l] \in LockBlock
         /\ ReadersOK(l) /\ WriterOK(l) /\ LockWaitersOK(l)
         /\ Cardinality(ReadShares(l)) \in Nat
         /\ Cardinality(Grants(ReadList(l))) \in Nat
<1>1. /\ Links(k) /\ ReadList(l) \in PendList /\ WriteList(l) \in PendList
      /\ FlagOf(ReadList(l)) = "PEND" /\ FlagOf(WriteList(l)) = "PEND"
  BY FlagsOfLists DEF TasksInv
<1>2. For(ReadList(l), None) \in Args(ReadList(l)) /\ For(WriteList(l), None) \in Args(WriteList(l))
  BY ArgsOf
<1>3. share \in Shares /\ rw \in LockBlocks
  BY DEF RWInv, Shares, LockBlocks
<1>4. rw[l] \in LockBlock
  BY <1>3 DEF LockBlocks, LockBlock
<1>5. ReadersOK(l) /\ WriterOK(l) /\ LockWaitersOK(l)
  BY DEF RWInv, RWOK
<1>6. Cardinality(ReadShares(l)) \in Nat
  BY <1>5, FS_CardinalityType DEF ReadersOK
<1>7. Cardinality(Grants(ReadList(l))) \in Nat
  BY <1>1, GrantCounts
<1> QED
  BY <1>1, <1>2, <1>3, <1>4, <1>5, <1>6, <1>7

\* A call that only touches the control block and the history.
LockListsStill(l) ==
  /\ Grants(ReadList(l))' = Grants(ReadList(l)) /\ Grants(WriteList(l))' = Grants(WriteList(l))
  /\ Waiting(ReadList(l))' \subseteq Waiting(ReadList(l))
  /\ Waiting(WriteList(l))' \subseteq Waiting(WriteList(l))
  /\ Untimed(WriteList(l)) => Waiting(WriteList(l))' = Waiting(WriteList(l)) /\ Untimed(WriteList(l))'

\* A call that returns at once moves nobody.
LEMMA LockCallReturns ==
  ASSUME TasksInv, Parked, NEW l \in RWLock, NEW f, Calls(f), ThenReturn(k)
  PROVE  After({}) /\ After(LockLists(l)) /\ LockListsStill(l) /\ k'.prio = k.prio
<1>1. ReadList(l) \in PendList /\ WriteList(l) \in PendList
  BY FlagsOfLists
<1>2. After({}) /\ k'.prio = k.prio
  BY <1>1, CallReturnsEffect
<1>3. After(LockLists(l)) /\ Still(ReadList(l)) /\ Still(WriteList(l))
  BY <1>1, <1>2 DEF After
<1> QED
  BY <1>2, <1>3 DEF LockListsStill, Still

\* A lock is created open, and deleted only when it is open and nobody waits.
LEMMA LockLifeMoves ==
  ASSUME TasksInv, Parked, RWInv, app' = app, NEW l \in RWLock, LOS_RWLockCreate(l) \/ LOS_RWLockDelete(l)
  PROVE  RWInv' /\ After(RWLists) /\ k'.prio = k.prio
<1>1. /\ rw \in LockBlocks /\ rw[l] \in LockBlock /\ share \in Shares
      /\ ReadersOK(l) /\ WriterOK(l) /\ LockWaitersOK(l)
  BY LockFacts
<1>2. After(LockLists(l)) /\ LockListsStill(l) /\ k'.prio = k.prio
  BY LockCallReturns DEF LOS_RWLockCreate, LOS_RWLockDelete
<1>3. share' = share
  BY DEF LOS_RWLockCreate, LOS_RWLockDelete
<1>4. rw[l].readers = 0 /\ rw[l].writes = 0 /\ rw[l].owner = None
  BY <1>1 DEF LOS_RWLockCreate, LOS_RWLockDelete, LockWaitersOK, WriterOK
<1>5. /\ rw' \in LockBlocks /\ \A m \in RWLock : m # l => rw'[m] = rw[m]
      /\ rw'[l].readers = 0 /\ rw'[l].writes = 0 /\ rw'[l].owner = None
  <2>1. CASE LOS_RWLockCreate(l)
    <3>1. rw' = [rw EXCEPT ![l] = Unlocked]
      BY <2>1 DEF LOS_RWLockCreate
    <3> QED
      BY <1>1, <3>1 DEF LockBlocks, Unlocked
  <2>2. CASE LOS_RWLockDelete(l)
    <3>1. rw' = [rw EXCEPT ![l] = [rw[l] EXCEPT !.used = FALSE]]
      BY <2>2 DEF LOS_RWLockDelete
    <3>2. PICK b : b = [rw[l] EXCEPT !.used = FALSE]
      OBVIOUS
    <3>3. b \in LockBlock /\ b.readers = 0 /\ b.writes = 0 /\ b.owner = None
      BY <1>1, <1>4, <3>2 DEF LockBlock
    <3> QED
      BY <1>1, <3>1, <3>2, <3>3 DEF LockBlocks, LockBlock
  <2> QED
    BY <2>1, <2>2
<1>6. ReadersOK(l)'
  <2>1. ReadShares(l)' = ReadShares(l)
    BY <1>3 DEF ReadShares
  <2> QED
    BY <1>1, <1>2, <1>4, <1>5, <2>1 DEF ReadersOK, LockListsStill
<1>7. WriterOK(l)'
  BY <1>1, <1>2, <1>3, <1>4, <1>5 DEF WriterOK, LockListsStill
<1>8. LockWaitersOK(l)'
  BY <1>1, <1>2, <1>4, <1>5 DEF LockWaitersOK, LockListsStill
<1>9. RWOK(l)'
  BY <1>6, <1>7, <1>8 DEF RWOK
<1> QED
  BY <1>1, <1>2, <1>3, <1>5, <1>9, OneLock

\* What the control block of a lock becomes.
LockSet(l, b) ==
  /\ rw' \in LockBlocks
  /\ \A m \in RWLock : m # l => rw'[m] = rw[m]
  /\ rw'[l] = b

\* The block that a call writes is the one of its lock alone.
LEMMA SetLock ==
  ASSUME rw \in LockBlocks, NEW l \in RWLock, NEW b \in LockBlock, rw' = [rw EXCEPT ![l] = b]
  PROVE  LockSet(l, b)
BY DEF LockSet, LockBlocks, LockBlock

\* Who has the history of one lock changed.
LEMMA OneLockShares ==
  ASSUME TasksInv, RWInv, app' = app, NEW l \in RWLock, After(LockLists(l)), NEW b, LockSet(l, b),
         NEW t \in Task, NEW kind, NEW n, SharesChange(t, l, kind, n),
         RWOK(l)'
  PROVE  RWInv' /\ After(RWLists)
<1>1. \A m \in RWLock : m # l => rw'[m] = rw[m] /\ \A u \in Task : share'[u][m] = share[u][m]
  BY DEF LockSet, SharesChange
<1> QED
  BY <1>1, OneLock DEF LockSet, SharesChange

\* So it is enough to look at the lock the call is about.
LEMMA OneLockOnly ==
  ASSUME TasksInv, RWInv, app' = app, NEW l \in RWLock, After(LockLists(l)), NEW b, LockSet(l, b),
         share' = share, RWOK(l)'
  PROVE  RWInv' /\ After(RWLists)
<1>1. \A m \in RWLock : m # l => rw'[m] = rw[m] /\ \A u \in Task : share'[u][m] = share[u][m]
  BY DEF LockSet
<1>2. share' \in Shares
  BY LockFacts
<1> QED
  BY <1>1, <1>2, OneLock DEF LockSet

\* Nobody joins a list of the lock but the caller of a wait, and nobody leaves.
LEMMA LockCallWaits ==
  ASSUME TasksInv, Parked, RWInv, NEW l \in RWLock, NEW list \in LockLists(l), Calls("rwlock"), NEW timeout,
         RWWait(list, timeout)
  PROVE  /\ After(LockLists(l)) /\ k'.prio = k.prio /\ rw' = rw /\ share' = share
         /\ Joined(list, k.run, For(list, None), timeout = "ticks")
         /\ \A m \in LockLists(l) : m # list => Still(m)
<1>1. /\ list \in PendList /\ FlagOf(list) = "PEND" /\ For(list, None) \in Args(list)
      /\ ReadList(l) \in PendList /\ WriteList(l) \in PendList
  BY LockFacts DEF LockLists
<1>2. PICK timed : timed = (timeout = "ticks")
  OBVIOUS
<1>3. ThenSchedule(osTaskWait(k, list, FlagOf(list), timed), For(list, None)) /\ rw' = rw /\ share' = share
  BY <1>1, <1>2 DEF RWWait, rwVars
<1>4. After({list}) /\ Joined(list, k.run, For(list, None), timed) /\ k'.prio = k.prio
  BY <1>1, <1>3, CallWaitsEffect
<1>5. After(LockLists(l)) /\ \A m \in LockLists(l) : m # list => Still(m)
  BY <1>1, <1>4 DEF After, LockLists
<1> QED
  BY <1>2, <1>3, <1>4, <1>5

\* A reader is let in when no writer has the lock or waits (LOS_RWReadLock).
LEMMA ReadLockMoves ==
  ASSUME TasksInv, Parked, RWInv, app' = app, NEW l \in RWLock, NEW timeout, LOS_RWReadLock(l, timeout)
  PROVE  RWInv' /\ After(RWLists) /\ k'.prio = k.prio
<1>1. /\ rw \in LockBlocks /\ rw[l] \in LockBlock /\ share \in Shares /\ Links(k)
      /\ ReadersOK(l) /\ WriterOK(l) /\ LockWaitersOK(l)
      /\ ReadList(l) \in PendList /\ WriteList(l) \in PendList
      /\ Cardinality(ReadShares(l)) \in Nat /\ Cardinality(Grants(ReadList(l))) \in Nat
  BY LockFacts
<1>2. Calls("rwlock") /\ rw[l].used /\ k.run \in Task
  BY DEF LOS_RWReadLock, Calls
<1>3. CanRead(l) => rw[l].writes = 0 /\ Waiting(WriteList(l)) = {}
  BY <1>1, EmptyList DEF CanRead
<1>4. ~CanRead(l) => rw[l].writes > 0 \/ Waiting(WriteList(l)) # {}
  BY <1>1, EmptyList DEF CanRead, LockBlock
<1>5. CASE /\ CanRead(l) /\ rw' = [rw EXCEPT ![l].readers = rw[l].readers + 1]
           /\ Shared("read", l, 1) /\ ThenReturn(k)
  <2>1. After(LockLists(l)) /\ LockListsStill(l) /\ k'.prio = k.prio
    BY <1>2, <1>5, LockCallReturns
  <2>2. PICK b : b = [rw[l] EXCEPT !.readers = rw[l].readers + 1]
    OBVIOUS
  <2>3. /\ b \in LockBlock /\ b.readers = rw[l].readers + 1 /\ b.used /\ b.writes = 0 /\ b.owner = rw[l].owner
    BY <1>1, <1>2, <1>3, <1>5, <2>2 DEF LockBlock
  <2>4. rw' = [rw EXCEPT ![l] = b]
    BY <1>5, <2>2
  <2>5. LockSet(l, b)
    BY <1>1, <2>3, <2>4, SetLock
  <2>6. SharesChange(k.run, l, "read", share[k.run][l].read + 1)
    <3>1. share' = [share EXCEPT ![k.run][l]["read"] = share[k.run][l].read + 1] /\ share[k.run][l].read + 1 \in Nat
      BY <1>1, <1>2, <1>5 DEF Shared, Shares
    <3> QED
      BY <1>1, <1>2, <3>1, SharesSet
  <2>7. IsFiniteSet(ReadShares(l))' /\ Cardinality(ReadShares(l))' = Cardinality(ReadShares(l)) + 1
    BY <1>1, <1>2, <2>6, ReadTaken DEF ReadersOK
  <2>8. ReadersOK(l)'
    <3>1. rw'[l].readers = rw[l].readers + 1 /\ rw[l].readers = Cardinality(ReadShares(l)) + Cardinality(Grants(ReadList(l)))
      BY <1>1, <2>3, <2>5 DEF LockSet, ReadersOK
    <3>2. Cardinality(Grants(ReadList(l)))' = Cardinality(Grants(ReadList(l)))
      BY <2>1 DEF LockListsStill
    <3> QED
      BY <1>1, <2>7, <3>1, <3>2 DEF ReadersOK
  <2>9. WriterOK(l)'
    <3>1. /\ rw'[l].writes = 0 /\ rw'[l].owner = None /\ Grants(WriteList(l))' = {}
      BY <1>1, <1>3, <1>5, <2>1, <2>3, <2>5 DEF LockSet, WriterOK, LockListsStill
    <3>2. \A u \in Task : share'[u][l].write = 0
      BY <1>1, <1>3, <1>5, <2>6 DEF SharesChange, WriterOK
    <3> QED
      BY <3>1, <3>2 DEF WriterOK
  <2>10. LockWaitersOK(l)'
    <3>1. rw'[l].used
      BY <2>3, <2>5 DEF LockSet
    <3>2. Waiting(WriteList(l))' = {}
      BY <1>3, <1>5, <2>1 DEF LockListsStill
    <3>3. "giveup" \notin app'.calls => Untimed(WriteList(l))' /\ Waiting(ReadList(l))' = {}
      BY <1>1, <1>3, <1>5, <2>1 DEF LockListsStill, LockWaitersOK
    <3> QED
      BY <3>1, <3>2, <3>3 DEF LockWaitersOK
  <2>11. RWOK(l)'
    BY <2>8, <2>9, <2>10 DEF RWOK
  <2> QED
    BY <1>2, <2>1, <2>5, <2>6, <2>11, OneLockShares
<1>6. CASE ~CanRead(l) /\ RWWait(ReadList(l), timeout)
  <2>1. /\ After(LockLists(l)) /\ k'.prio = k.prio /\ rw' = rw /\ share' = share
        /\ Grants(ReadList(l))' = Grants(ReadList(l)) /\ Still(WriteList(l))
    <3>1. ReadList(l) \in LockLists(l) /\ WriteList(l) \in LockLists(l) /\ WriteList(l) # ReadList(l)
      BY LocksApart DEF LockLists
    <3> QED
      BY <1>2, <1>6, <3>1, LockCallWaits DEF Joined
  <2>2. ReadersOK(l)' /\ WriterOK(l)'
    <3>1. ReadShares(l)' = ReadShares(l) /\ Grants(WriteList(l))' = Grants(WriteList(l))
      BY <2>1 DEF ReadShares, Still
    <3> QED
      BY <1>1, <2>1, <3>1 DEF ReadersOK, WriterOK
  <2>3. LockWaitersOK(l)'
    BY <1>1, <1>2, <1>4, <1>6, <2>1 DEF LockWaitersOK, Still
  <2>4. RWOK(l)'
    BY <2>2, <2>3 DEF RWOK
  <2>5. LockSet(l, rw[l])
    BY <1>1, <2>1 DEF LockSet
  <2> QED
    BY <2>1, <2>4, <2>5, OneLockOnly
<1> QED
  BY <1>5, <1>6 DEF LOS_RWReadLock

\* A writer is let in when the lock is open or its own (LOS_RWWriteLock).
LEMMA WriteLockMoves ==
  ASSUME TasksInv, Parked, RWInv, app' = app, NEW l \in RWLock, NEW timeout, LOS_RWWriteLock(l, timeout)
  PROVE  RWInv' /\ After(RWLists) /\ k'.prio = k.prio
<1>1. /\ rw \in LockBlocks /\ rw[l] \in LockBlock /\ share \in Shares /\ Links(k)
      /\ ReadersOK(l) /\ WriterOK(l) /\ LockWaitersOK(l)
      /\ ReadList(l) \in PendList /\ WriteList(l) \in PendList
      /\ Cardinality(ReadShares(l)) \in Nat /\ Cardinality(Grants(ReadList(l))) \in Nat
  BY LockFacts
<1>2. Calls("rwlock") /\ rw[l].used /\ k.run \in Task
  BY DEF LOS_RWWriteLock, Calls
<1>3. PICK r : r = k.run
  OBVIOUS
<1>4. CASE /\ CanWrite(l) /\ rw' = [rw EXCEPT ![l].writes = rw[l].writes + 1, ![l].owner = k.run]
           /\ Shared("write", l, 1) /\ ThenReturn(k)
  <2>1. After(LockLists(l)) /\ LockListsStill(l) /\ k'.prio = k.prio
    BY <1>2, <1>4, LockCallReturns
  <2>2. r \notin Grants(WriteList(l))
    <3>1. Running /\ at[k.run] = "app"
      BY <1>2, CallersRun
    <3> QED
      BY <1>1, <1>3, <3>1, RunnersFacts
  <2>3. /\ rw[l].readers = 0 /\ rw[l].writes = share[r][l].write
        /\ \A t \in Task \ {r} : t \notin Grants(WriteList(l)) /\ share[t][l].write = 0
    <3>1. CASE rw[l].readers = 0 /\ rw[l].owner = None
      <4>1. rw[l].writes = 0
        BY <1>1, <3>1, TasksAssumption DEF WriterOK, LockBlock
      <4> QED
        BY <1>1, <1>2, <1>3, <3>1, <4>1 DEF WriterOK
    <3>2. CASE rw[l].owner = r
      <4>1. rw[l].writes > 0
        BY <1>1, <1>2, <1>3, <3>2, TasksAssumption DEF WriterOK, LockBlock
      <4> QED
        BY <1>1, <2>2, <3>2, <4>1 DEF WriterOK
    <3> QED
      BY <1>3, <1>4, <3>1, <3>2 DEF CanWrite
  <2>4. PICK n : n = share[r][l].write + 1
    OBVIOUS
  <2>5. n \in Nat /\ n > 0 /\ rw[l].writes + 1 = n /\ r \in Task
    BY <1>1, <1>2, <1>3, <2>3, <2>4 DEF Shares
  <2>6. PICK b : b = [rw[l] EXCEPT !.writes = n, !.owner = r]
    OBVIOUS
  <2>7. /\ b \in LockBlock /\ b.readers = 0 /\ b.used /\ b.writes = n /\ b.owner = r
    BY <1>1, <1>2, <2>3, <2>5, <2>6 DEF LockBlock
  <2>8. rw' = [rw EXCEPT ![l] = b]
    BY <1>3, <1>4, <2>5, <2>6
  <2>9. LockSet(l, b)
    BY <1>1, <2>7, <2>8, SetLock
  <2>10. SharesChange(r, l, "write", n)
    <3>1. share' = [share EXCEPT ![r][l]["write"] = n]
      BY <1>3, <1>4, <2>4 DEF Shared
    <3> QED
      BY <1>1, <2>5, <3>1, SharesSet
  <2>11. ReadersOK(l)'
    <3>1. ReadShares(l)' = ReadShares(l)
      BY <2>5, <2>10, WriteCounted
    <3>2. rw'[l].readers = rw[l].readers
      BY <2>3, <2>7, <2>9 DEF LockSet
    <3> QED
      BY <1>1, <2>1, <3>1, <3>2 DEF ReadersOK, LockListsStill
  <2>12. WriterOK(l)'
    <3>1. rw'[l].writes = n /\ rw'[l].owner = r /\ rw'[l].readers = 0 /\ Grants(WriteList(l))' = Grants(WriteList(l))
      BY <2>1, <2>7, <2>9 DEF LockSet, LockListsStill
    <3>2. share'[r][l].write = n /\ \A t \in Task \ {r} : share'[t][l].write = 0
      BY <2>3, <2>10 DEF SharesChange
    <3> QED
      BY <2>2, <2>3, <2>5, <3>1, <3>2 DEF WriterOK
  <2>13. LockWaitersOK(l)'
    <3>1. rw'[l].used /\ rw'[l].writes > 0
      BY <2>5, <2>7, <2>9 DEF LockSet
    <3> QED
      BY <1>1, <2>1, <3>1 DEF LockListsStill, LockWaitersOK
  <2>14. RWOK(l)'
    BY <2>11, <2>12, <2>13 DEF RWOK
  <2> QED
    BY <2>1, <2>5, <2>9, <2>10, <2>14, OneLockShares
<1>5. CASE ~CanWrite(l) /\ RWWait(WriteList(l), timeout)
  <2>1. /\ After(LockLists(l)) /\ k'.prio = k.prio /\ rw' = rw /\ share' = share
        /\ Joined(WriteList(l), k.run, For(WriteList(l), None), timeout = "ticks") /\ Still(ReadList(l))
    <3>1. ReadList(l) \in LockLists(l) /\ WriteList(l) \in LockLists(l) /\ WriteList(l) # ReadList(l)
      BY LocksApart DEF LockLists
    <3> QED
      BY <1>2, <1>5, <3>1, LockCallWaits
  <2>2. ReadersOK(l)' /\ WriterOK(l)'
    <3>1. /\ ReadShares(l)' = ReadShares(l)
          /\ Grants(WriteList(l))' = Grants(WriteList(l)) /\ Grants(ReadList(l))' = Grants(ReadList(l))
      BY <2>1 DEF ReadShares, Still, Joined
    <3> QED
      BY <1>1, <2>1, <3>1 DEF ReadersOK, WriterOK
  <2>3. LockWaitersOK(l)'
    <3>1. rw[l].readers > 0 \/ rw[l].writes > 0
      BY <1>1, <1>5 DEF CanWrite, WriterOK, LockBlock
    <3>2. "giveup" \notin app.calls => timeout # "ticks"
      BY DEF LOS_RWWriteLock
    <3>3. "giveup" \notin app.calls => Untimed(WriteList(l))'
      BY <1>1, <2>1, <3>2 DEF LockWaitersOK, Joined
    <3>4. Waiting(WriteList(l))' # {} /\ Waiting(ReadList(l))' \subseteq Waiting(ReadList(l))
      BY <2>1 DEF Joined, Still
    <3> QED
      BY <1>2, <2>1, <3>1, <3>3, <3>4 DEF LockWaitersOK
  <2>4. RWOK(l)'
    BY <2>2, <2>3 DEF RWOK
  <2>5. LockSet(l, rw[l])
    BY <1>1, <2>1 DEF LockSet
  <2> QED
    BY <2>1, <2>4, <2>5, OneLockOnly
<1> QED
  BY <1>4, <1>5 DEF LOS_RWWriteLock

\* The call of a reader or of a writer is over.
LEMMA LockReturnMoves ==
  ASSUME TasksInv, Parked, RWInv, app' = app, NEW l \in RWLock, NEW kind \in {"read", "write"}, RWLockReturns(kind, l)
  PROVE  RWInv' /\ After(RWLists) /\ k'.prio = k.prio
<1>1. /\ rw \in LockBlocks /\ rw[l] \in LockBlock /\ share \in Shares /\ Links(k)
      /\ ReadersOK(l) /\ WriterOK(l) /\ LockWaitersOK(l)
      /\ ReadList(l) \in PendList /\ WriteList(l) \in PendList
      /\ Cardinality(ReadShares(l)) \in Nat /\ Cardinality(Grants(ReadList(l))) \in Nat
  BY LockFacts
<1>2. PICK list, r : list = <<"rwlock", l, kind>> /\ r = k.run
  OBVIOUS
<1>3. /\ list \in LockLists(l) /\ list \in PendList /\ For(list, None) \in Args(list)
      /\ kind = "read" => list = ReadList(l)
      /\ kind = "write" => list = WriteList(l)
  <2>1. kind = "read" => list = ReadList(l)
    BY <1>2 DEF ReadList
  <2>2. kind = "write" => list = WriteList(l)
    BY <1>2 DEF WriteList
  <2> QED
    BY <2>1, <2>2, LockFacts DEF LockLists
<1>4. /\ Checks(For(list, None)) /\ ThenReturn(Cleared(k)) /\ rw' = rw
      /\ IF TimedOut(r) THEN share' = share ELSE Shared(kind, l, 1)
  BY <1>2 DEF RWLockReturns
<1>5. /\ After({list}) /\ Handed(list, {}, {r}) /\ k'.prio = k.prio /\ r \in Task
      /\ r \in Grants(list) <=> ~TimedOut(r)
  BY <1>2, <1>3, <1>4, CheckReturnsEffect
<1>6. After(LockLists(l)) /\ \A m \in LockLists(l) : m # list => Still(m)
  BY <1>1, <1>3, <1>5 DEF After, LockLists
<1>7. LockSet(l, rw[l])
  BY <1>1, <1>4 DEF LockSet
<1>8. /\ \A m \in LockLists(l) : Waiting(m)' \subseteq Waiting(m)
      /\ Untimed(WriteList(l)) => Waiting(WriteList(l))' = Waiting(WriteList(l)) /\ Untimed(WriteList(l))'
  <2>1. WriteList(l) \in LockLists(l)
    BY DEF LockLists
  <2>2. /\ Waiting(list)' = Waiting(list)
        /\ Untimed(list) => Untimed(list)'
    BY <1>5 DEF Handed
  <2> QED
    BY <1>6, <2>1, <2>2 DEF Still
<1>9. LockWaitersOK(l)'
  <2>1. Waiting(ReadList(l))' \subseteq Waiting(ReadList(l)) /\ Waiting(WriteList(l))' \subseteq Waiting(WriteList(l))
    BY <1>8 DEF LockLists
  <2> QED
    BY <1>1, <1>4, <1>8, <2>1 DEF LockWaitersOK
<1>10. CASE TimedOut(r)
  <2>1. share' = share /\ Grants(list)' = Grants(list)
    BY <1>4, <1>5, <1>10 DEF Handed
  <2>2. \A m \in LockLists(l) : Grants(m)' = Grants(m)
    BY <1>6, <2>1 DEF Still
  <2>3. ReadersOK(l)' /\ WriterOK(l)'
    <3>1. /\ ReadShares(l)' = ReadShares(l)
          /\ Grants(WriteList(l))' = Grants(WriteList(l)) /\ Grants(ReadList(l))' = Grants(ReadList(l))
      BY <2>1, <2>2 DEF ReadShares, LockLists
    <3> QED
      BY <1>1, <1>4, <2>1, <3>1 DEF ReadersOK, WriterOK
  <2>4. RWOK(l)'
    BY <1>9, <2>3 DEF RWOK
  <2> QED
    BY <1>5, <1>6, <1>7, <2>1, <2>4, OneLockOnly
<1>11. CASE ~TimedOut(r)
  <2>1. PICK n : n = share[r][l][kind] + 1
    OBVIOUS
  <2>2. n \in Nat
    BY <1>1, <1>5, <2>1 DEF Shares
  <2>3. SharesChange(r, l, kind, n)
    <3>1. share' = [share EXCEPT ![r][l][kind] = n]
      BY <1>2, <1>4, <1>11, <2>1 DEF Shared
    <3> QED
      BY <1>1, <1>5, <2>2, <3>1, SharesSet
  <2>4. r \in Grants(list) /\ Grants(list)' = Grants(list) \ {r}
    BY <1>5, <1>11 DEF Handed
  <2>5. CASE kind = "read"
    <3>1. /\ list = ReadList(l) /\ n = share[r][l].read + 1 /\ SharesChange(r, l, "read", share[r][l].read + 1)
          /\ Still(WriteList(l))
      BY <1>3, <1>6, <2>1, <2>3, <2>5, LocksApart DEF LockLists
    <3>2. IsFiniteSet(ReadShares(l))' /\ Cardinality(ReadShares(l))' = Cardinality(ReadShares(l)) + 1
      BY <1>1, <1>5, <3>1, ReadTaken DEF ReadersOK
    <3>3. Cardinality(Grants(ReadList(l)))' = Cardinality(Grants(ReadList(l))) - 1
      BY <1>1, <2>4, <3>1, GrantCounts
    <3>4. ReadersOK(l)'
      <4>1. rw[l].readers = Cardinality(ReadShares(l)) + Cardinality(Grants(ReadList(l))) /\ rw'[l].readers = rw[l].readers
        BY <1>1, <1>4 DEF ReadersOK
      <4> QED
        BY <1>1, <3>2, <3>3, <4>1 DEF ReadersOK
    <3>5. WriterOK(l)'
      <4>1. \A u \in Task : share'[u][l].write = share[u][l].write
        BY <1>5, <2>3, <2>5 DEF SharesChange
      <4>2. Grants(WriteList(l))' = Grants(WriteList(l))
        BY <3>1 DEF Still
      <4> QED
        BY <1>1, <1>4, <4>1, <4>2 DEF WriterOK
    <3>6. RWOK(l)'
      BY <1>9, <3>4, <3>5 DEF RWOK
    <3> QED
      BY <1>5, <1>6, <1>7, <2>3, <3>6, OneLockShares
  <2>6. CASE kind = "write"
    <3>1. list = WriteList(l) /\ SharesChange(r, l, "write", n) /\ n = share[r][l].write + 1 /\ Still(ReadList(l))
      BY <1>3, <1>6, <2>1, <2>3, <2>6, LocksApart DEF LockLists
    <3>2. ReadersOK(l)'
      <4>1. ReadShares(l)' = ReadShares(l) /\ Grants(ReadList(l))' = Grants(ReadList(l))
        BY <1>5, <3>1, WriteCounted DEF Still
      <4> QED
        BY <1>1, <1>4, <4>1 DEF ReadersOK
    <3>3. rw[l].writes = 1 /\ rw[l].owner = r /\ rw[l].readers = 0 /\ share[r][l].write = 0
      <4>1. rw[l].writes > 0
        BY <1>1, <2>4, <3>1 DEF WriterOK, LockBlock
      <4>2. rw[l].owner = r
        BY <1>1, <1>5, <2>4, <3>1, <4>1 DEF WriterOK
      <4> QED
        BY <1>1, <2>4, <3>1, <4>1, <4>2 DEF WriterOK
    <3>4. WriterOK(l)'
      <4>1. share'[r][l].write = 1 /\ r \notin Grants(WriteList(l))'
        BY <2>4, <3>1, <3>3 DEF SharesChange
      <4>2. \A u \in Task \ {r} : u \notin Grants(WriteList(l))' /\ share'[u][l].write = 0
        BY <1>1, <2>4, <3>1, <3>3 DEF SharesChange, WriterOK
      <4> QED
        BY <1>4, <1>5, <3>3, <4>1, <4>2 DEF WriterOK
    <3>5. RWOK(l)'
      BY <1>9, <3>2, <3>4 DEF RWOK
    <3> QED
      BY <1>5, <1>6, <1>7, <2>3, <3>5, OneLockShares
  <2> QED
    BY <2>5, <2>6
<1> QED
  BY <1>10, <1>11

\* The lock goes from nobody to the writer that waits longest.
LEMMA HandOverMoves ==
  ASSUME TasksInv, Parked, RWInv, app' = app, NEW l \in RWLock, Calls("rwlock"), k.pend[WriteList(l)] # <<>>,
         NEW b \in LockBlock, b.used, b.readers = 0, HandToWriter(l, b), Grants(WriteList(l)) = {},
         NEW t \in Task, NEW kind, NEW n, SharesChange(t, l, kind, n), \A u \in Task : share'[u][l].write = 0,
         IsFiniteSet(ReadShares(l))', Cardinality(ReadShares(l))' + Cardinality(Grants(ReadList(l))) = 0
  PROVE  RWInv' /\ After(RWLists) /\ k'.prio = k.prio
<1>1. /\ rw \in LockBlocks /\ LockWaitersOK(l) /\ FlagOf(WriteList(l)) = "PEND"
      /\ ReadList(l) \in PendList /\ WriteList(l) \in PendList
  BY LockFacts
<1>2. PICK next : next = Head(k.pend[WriteList(l)])
  OBVIOUS
<1>3. /\ rw' = [rw EXCEPT ![l] = [b EXCEPT !.writes = 1, !.owner = next]]
      /\ ThenSchedule(osTaskWake(k, Head(k.pend[WriteList(l)]), FlagOf(WriteList(l))), None)
  BY <1>1, <1>2 DEF HandToWriter
<1>4. /\ After({WriteList(l)}) /\ k'.prio = k.prio
      /\ \E h \in Waiting(WriteList(l)) : h = Head(k.pend[WriteList(l)]) /\ h # k.run /\ Handed(WriteList(l), {h}, {})
  BY <1>1, <1>3, CallHandsOverEffect
<1>5. /\ next \in Waiting(WriteList(l)) /\ next \in Task /\ Handed(WriteList(l), {next}, {})
  BY <1>2, <1>4 DEF Waiting
<1>6. After(LockLists(l)) /\ Still(ReadList(l))
  BY <1>1, <1>4, LocksApart DEF After, LockLists
<1>7. PICK c : c = [b EXCEPT !.writes = 1, !.owner = next]
  OBVIOUS
<1>8. c \in LockBlock /\ c.used /\ c.readers = 0 /\ c.writes = 1 /\ c.owner = next
  BY <1>5, <1>7 DEF LockBlock
<1>9. LockSet(l, c)
  BY <1>1, <1>3, <1>7, <1>8, SetLock
<1>10. ReadersOK(l)'
  <2>1. rw'[l].readers = 0 /\ Grants(ReadList(l))' = Grants(ReadList(l))
    BY <1>6, <1>8, <1>9 DEF LockSet, Still
  <2> QED
    BY <2>1 DEF ReadersOK
<1>11. WriterOK(l)'
  <2>1. Grants(WriteList(l))' = {next}
    BY <1>5 DEF Handed
  <2>2. rw'[l].readers = 0 /\ rw'[l].writes = 1 /\ rw'[l].owner = next
    BY <1>8, <1>9 DEF LockSet
  <2> QED
    BY <1>5, <2>1, <2>2 DEF WriterOK
<1>12. LockWaitersOK(l)'
  <2>1. rw'[l].used /\ rw'[l].writes > 0
    BY <1>8, <1>9 DEF LockSet
  <2> QED
    BY <1>1, <1>5, <2>1 DEF LockWaitersOK, Handed
<1>13. RWOK(l)'
  BY <1>10, <1>11, <1>12 DEF RWOK
<1> QED
  BY <1>4, <1>6, <1>9, <1>13, OneLockShares

\* The last reader hands the lock to the first writer (LOS_RWReadUnLock).
LEMMA ReadUnLockMoves ==
  ASSUME TasksInv, Parked, RWInv, app' = app, NEW l \in RWLock, LOS_RWReadUnLock(l)
  PROVE  RWInv' /\ After(RWLists) /\ k'.prio = k.prio
<1>1. /\ rw \in LockBlocks /\ rw[l] \in LockBlock /\ share \in Shares /\ Links(k)
      /\ ReadersOK(l) /\ WriterOK(l) /\ LockWaitersOK(l)
      /\ ReadList(l) \in PendList /\ WriteList(l) \in PendList
      /\ Cardinality(ReadShares(l)) \in Nat /\ Cardinality(Grants(ReadList(l))) \in Nat
  BY LockFacts
<1>2. PICK r, n : r = k.run /\ n = share[r][l].read - 1
  OBVIOUS
<1>3. /\ Calls("rwlock") /\ r \in Task /\ share[r][l].read > 0 /\ Shared("read", l, -1)
  BY <1>2 DEF LOS_RWReadUnLock, Calls
<1>4. n \in Nat /\ share' = [share EXCEPT ![r][l]["read"] = n]
  <2>1. share[r][l].read \in Nat
    BY <1>1, <1>3 DEF Shares
  <2>2. share[r][l].read + (-1) = n /\ n \in Nat
    BY <1>2, <1>3, <2>1
  <2>3. share' = [share EXCEPT ![r][l]["read"] = share[r][l].read + (-1)]
    BY <1>2, <1>3 DEF Shared
  <2> QED
    BY <2>2, <2>3
<1>5. SharesChange(r, l, "read", n)
  BY <1>1, <1>3, <1>4, SharesSet
<1>6. /\ IsFiniteSet(ReadShares(l))' /\ Cardinality(ReadShares(l))' = Cardinality(ReadShares(l)) - 1
      /\ Cardinality(ReadShares(l)) > 0
  BY <1>1, <1>2, <1>3, <1>5, ReadGiven DEF ReadersOK
<1>7. /\ rw[l].readers > 0 /\ rw[l].writes = 0 /\ rw[l].used /\ rw[l].readers - 1 \in Nat
      /\ rw[l].readers = Cardinality(ReadShares(l)) + Cardinality(Grants(ReadList(l)))
  <2>1. rw[l].readers > 0 /\ rw[l].readers = Cardinality(ReadShares(l)) + Cardinality(Grants(ReadList(l)))
    BY <1>1, <1>6 DEF ReadersOK
  <2>2. rw[l].writes = 0 /\ rw[l].used
    BY <1>1, <2>1 DEF WriterOK, LockWaitersOK, LockBlock
  <2> QED
    BY <1>1, <2>1, <2>2 DEF LockBlock
<1>8. Grants(WriteList(l)) = {} /\ rw[l].owner = None /\ \A u \in Task : share'[u][l].write = 0
  BY <1>1, <1>3, <1>5, <1>7 DEF WriterOK, SharesChange
<1>9. PICK b : b = [rw[l] EXCEPT !.readers = rw[l].readers - 1]
  OBVIOUS
<1>10. /\ b \in LockBlock /\ b.used /\ b.readers = rw[l].readers - 1 /\ b.writes = 0 /\ b.owner = None
  BY <1>1, <1>7, <1>8, <1>9 DEF LockBlock
<1>11. IF b.readers > 0 \/ k.pend[WriteList(l)] = <<>>
       THEN rw' = [rw EXCEPT ![l] = b] /\ ThenReturn(k)
       ELSE HandToWriter(l, b)
  BY <1>9 DEF LOS_RWReadUnLock
<1>12. CASE b.readers > 0 \/ k.pend[WriteList(l)] = <<>>
  <2>1. After(LockLists(l)) /\ LockListsStill(l) /\ k'.prio = k.prio
    BY <1>3, <1>11, <1>12, LockCallReturns
  <2>2. LockSet(l, b)
    BY <1>1, <1>10, <1>11, <1>12, SetLock
  <2>3. ReadersOK(l)'
    <3>1. rw'[l].readers = rw[l].readers - 1 /\ Cardinality(Grants(ReadList(l)))' = Cardinality(Grants(ReadList(l)))
      BY <1>10, <2>1, <2>2 DEF LockSet, LockListsStill
    <3> QED
      BY <1>1, <1>6, <1>7, <3>1 DEF ReadersOK
  <2>4. WriterOK(l)'
    BY <1>8, <1>10, <2>1, <2>2 DEF LockSet, LockListsStill, WriterOK
  <2>5. LockWaitersOK(l)'
    <3>1. rw'[l].used /\ rw'[l].readers = b.readers
      BY <1>10, <2>2 DEF LockSet
    <3>2. Waiting(WriteList(l))' # {} => rw'[l].readers > 0
      BY <1>1, <1>12, <2>1, <3>1, EmptyList DEF LockListsStill
    <3>3. "giveup" \notin app'.calls =>
            /\ Untimed(WriteList(l))'
            /\ Waiting(ReadList(l))' # {} => Waiting(WriteList(l))' # {}
      BY <1>1, <1>7, <2>1 DEF LockListsStill, LockWaitersOK
    <3> QED
      BY <3>1, <3>2, <3>3 DEF LockWaitersOK
  <2>6. RWOK(l)'
    BY <2>3, <2>4, <2>5 DEF RWOK
  <2> QED
    BY <1>3, <1>5, <2>1, <2>2, <2>6, OneLockShares
<1>13. CASE ~(b.readers > 0 \/ k.pend[WriteList(l)] = <<>>)
  <2>1. HandToWriter(l, b) /\ k.pend[WriteList(l)] # <<>>
    BY <1>11, <1>13
  <2>2. b.readers = 0
    <3>1. b.readers \in Nat
      BY <1>10 DEF LockBlock
    <3>2. ~(b.readers > 0)
      BY <1>13
    <3> QED
      BY <3>1, <3>2
  <2>3. Cardinality(ReadShares(l))' + Cardinality(Grants(ReadList(l))) = 0
    BY <1>1, <1>6, <1>7, <1>10, <2>2
  <2> QED
    BY <1>3, <1>5, <1>6, <1>8, <1>10, <2>1, <2>2, <2>3, HandOverMoves
<1> QED
  BY <1>12, <1>13

\* A writer that is done hands the lock to a writer or to all readers
\* (LOS_RWWriteUnLock).
LEMMA WriteUnLockMoves ==
  ASSUME TasksInv, Parked, RWInv, app' = app, NEW l \in RWLock, LOS_RWWriteUnLock(l)
  PROVE  RWInv' /\ After(RWLists) /\ k'.prio = k.prio
<1>1. /\ rw \in LockBlocks /\ rw[l] \in LockBlock /\ share \in Shares /\ Links(k)
      /\ ReadersOK(l) /\ WriterOK(l) /\ LockWaitersOK(l)
      /\ ReadList(l) \in PendList /\ WriteList(l) \in PendList
      /\ FlagOf(ReadList(l)) = "PEND"
      /\ Cardinality(ReadShares(l)) \in Nat /\ Cardinality(Grants(ReadList(l))) \in Nat
  BY LockFacts
<1>2. PICK r, n : r = k.run /\ n = share[r][l].write - 1
  OBVIOUS
<1>3. /\ Calls("rwlock") /\ r \in Task /\ rw[l].used /\ rw[l].writes > 0 /\ rw[l].owner = r
      /\ Shared("write", l, -1)
  BY <1>2 DEF LOS_RWWriteUnLock, Calls
<1>4. r \notin Grants(WriteList(l))
  <2>1. Running /\ at[k.run] = "app"
    BY <1>3, CallersRun
  <2> QED
    BY <1>1, <1>2, <2>1, RunnersFacts
<1>5. /\ rw[l].readers = 0 /\ rw[l].writes = share[r][l].write /\ Grants(WriteList(l)) = {}
      /\ \A u \in Task \ {r} : share[u][l].write = 0
  <2>1. /\ rw[l].readers = 0 /\ rw[l].writes = share[r][l].write
        /\ \A u \in Task \ {r} : u \notin Grants(WriteList(l)) /\ share[u][l].write = 0
    BY <1>1, <1>3, <1>4 DEF WriterOK
  <2>2. Grants(WriteList(l)) \subseteq Task
    BY DEF Grants
  <2> QED
    BY <1>4, <2>1, <2>2
<1>6. n \in Nat /\ n = rw[l].writes - 1 /\ share' = [share EXCEPT ![r][l]["write"] = n]
  <2>1. rw[l].writes \in Nat
    BY <1>1 DEF LockBlock
  <2>2. share[r][l].write + (-1) = n /\ n \in Nat /\ n = rw[l].writes - 1
    BY <1>2, <1>3, <1>5, <2>1
  <2>3. share' = [share EXCEPT ![r][l]["write"] = share[r][l].write + (-1)]
    BY <1>2, <1>3 DEF Shared
  <2> QED
    BY <2>2, <2>3
<1>7. SharesChange(r, l, "write", n)
  BY <1>1, <1>3, <1>6, SharesSet
<1>8. /\ ReadShares(l)' = ReadShares(l) /\ Cardinality(ReadShares(l)) = 0
      /\ Cardinality(Grants(ReadList(l))) = 0
  <2>1. ReadShares(l)' = ReadShares(l)
    BY <1>3, <1>7, WriteCounted
  <2>2. 0 = Cardinality(ReadShares(l)) + Cardinality(Grants(ReadList(l)))
    BY <1>1, <1>5 DEF ReadersOK
  <2> QED
    BY <1>1, <2>1, <2>2
<1>9. share'[r][l].write = n /\ \A u \in Task \ {r} : share'[u][l].write = 0
  BY <1>5, <1>7 DEF SharesChange
<1>10. CASE rw[l].writes > 1
  <2>1. rw' = [rw EXCEPT ![l].writes = n] /\ ThenReturn(k)
    BY <1>6, <1>10 DEF LOS_RWWriteUnLock
  <2>2. After(LockLists(l)) /\ LockListsStill(l) /\ k'.prio = k.prio
    BY <1>3, <2>1, LockCallReturns
  <2>3. PICK b : b = [rw[l] EXCEPT !.writes = n]
    OBVIOUS
  <2>4. b \in LockBlock /\ b.used /\ b.readers = 0 /\ b.writes = n /\ b.owner = r /\ n > 0
    BY <1>1, <1>3, <1>5, <1>6, <1>10, <2>3 DEF LockBlock
  <2>5. rw' = [rw EXCEPT ![l] = b]
    BY <2>1, <2>3
  <2>6. LockSet(l, b)
    BY <1>1, <2>4, <2>5, SetLock
  <2>7. ReadersOK(l)'
    BY <1>1, <1>5, <1>8, <2>2, <2>4, <2>6 DEF ReadersOK, LockSet, LockListsStill
  <2>8. WriterOK(l)'
    <3>1. rw'[l].writes = n /\ rw'[l].owner = r /\ rw'[l].readers = 0 /\ Grants(WriteList(l))' = {}
      BY <1>5, <2>2, <2>4, <2>6 DEF LockSet, LockListsStill
    <3> QED
      BY <1>3, <1>9, <2>4, <3>1 DEF WriterOK
  <2>9. LockWaitersOK(l)'
    <3>1. rw'[l].used /\ rw'[l].writes > 0
      BY <2>4, <2>6 DEF LockSet
    <3> QED
      BY <1>1, <2>2, <3>1 DEF LockListsStill, LockWaitersOK
  <2>10. RWOK(l)'
    BY <2>7, <2>8, <2>9 DEF RWOK
  <2> QED
    BY <1>3, <1>7, <2>2, <2>6, <2>10, OneLockShares
<1>11. ASSUME ~(rw[l].writes > 1) PROVE rw[l].writes = 1 /\ \A u \in Task : share'[u][l].write = 0
  <2>1. rw[l].writes = 1 /\ n = 0
    BY <1>1, <1>3, <1>6, <1>11 DEF LockBlock
  <2> QED
    BY <1>9, <2>1
<1>12. CASE ~(rw[l].writes > 1) /\ k.pend[WriteList(l)] # <<>>
  <2>1. HandToWriter(l, rw[l])
    BY <1>12 DEF LOS_RWWriteUnLock
  <2>2. IsFiniteSet(ReadShares(l))' /\ Cardinality(ReadShares(l))' + Cardinality(Grants(ReadList(l))) = 0
    BY <1>1, <1>8 DEF ReadersOK
  <2> QED
    BY <1>1, <1>3, <1>5, <1>7, <1>11, <1>12, <2>1, <2>2, HandOverMoves
<1>13. CASE ~(rw[l].writes > 1) /\ k.pend[WriteList(l)] = <<>>
  <2>1. PICK list, d : list = k.pend[ReadList(l)] /\ d = Len(list)
    OBVIOUS
  <2>2. d \in Nat /\ IsFiniteSet(Waiting(ReadList(l))) /\ Cardinality(Waiting(ReadList(l))) = d
    BY <1>1, <2>1, ListCounts, FS_CardinalityType
  <2>3. PICK z : z = Unlocked.readers + d
    OBVIOUS
  <2>4. /\ rw' = [rw EXCEPT ![l] = [Unlocked EXCEPT !.readers = z]] /\ z = d
        /\ list = <<>> => ThenReturn(k)
        /\ list # <<>> => ThenSchedule(WakeAll(k, k.pend[ReadList(l)], Task, FlagOf(ReadList(l))), None)
    <3>1. z = d
      BY <2>2, <2>3 DEF Unlocked
    <3>2. /\ rw' = [rw EXCEPT ![l] = [Unlocked EXCEPT !.readers = z]]
          /\ list = <<>> => ThenReturn(k)
          /\ list # <<>> => ThenSchedule(WakeAll(k, k.pend[ReadList(l)], Task, FlagOf(ReadList(l))), None)
      BY <1>1, <1>13, <2>1, <2>3 DEF LOS_RWWriteUnLock
    <3> QED
      BY <3>1, <3>2
  <2>5. PICK b : b = [Unlocked EXCEPT !.readers = z]
    OBVIOUS
  <2>6. b \in LockBlock /\ b.used /\ b.readers = d /\ b.writes = 0 /\ b.owner = None /\ rw' = [rw EXCEPT ![l] = b]
    <3>1. Unlocked \in LockBlock /\ Unlocked.used /\ Unlocked.writes = 0 /\ Unlocked.owner = None
      BY DEF LockBlock, Unlocked
    <3>2. z = d
      BY <2>4
    <3>3. b \in LockBlock /\ b.used /\ b.readers = d /\ b.writes = 0 /\ b.owner = None
      BY <2>2, <2>5, <3>1, <3>2 DEF LockBlock
    <3> QED
      BY <2>4, <2>5, <3>3
  <2>7. LockSet(l, b)
    BY <1>1, <2>6, SetLock
  <2>8. Waiting(WriteList(l)) = {} /\ Grants(ReadList(l)) = {}
    <3>1. IsFiniteSet(Grants(ReadList(l)))
      BY <1>1, GrantCounts
    <3> QED
      BY <1>1, <1>8, <1>13, <3>1, EmptyList, FS_EmptySet
  <2>9. /\ After(LockLists(l)) /\ k'.prio = k.prio /\ Still(WriteList(l))
        /\ Waiting(ReadList(l))' = {} /\ Grants(ReadList(l))' = Waiting(ReadList(l))
    <3>1. CASE list = <<>>
      <4>1. After({}) /\ After(LockLists(l)) /\ LockListsStill(l) /\ k'.prio = k.prio
        BY <1>3, <2>4, <3>1, LockCallReturns
      <4>2. Waiting(ReadList(l)) = {}
        BY <1>1, <2>1, <3>1, EmptyList
      <4>3. Waiting(ReadList(l))' = {} /\ Grants(ReadList(l))' = Waiting(ReadList(l))
        BY <2>8, <4>1, <4>2 DEF LockListsStill
      <4> QED
        BY <1>1, <4>1, <4>3 DEF After
    <3>2. CASE list # <<>>
      <4>1. PICK who : who = Task
        OBVIOUS
      <4>2. /\ After({ReadList(l)}) /\ k'.prio = k.prio
            /\ Handed(ReadList(l), {t \in Waiting(ReadList(l)) : t \in who}, {})
        BY <1>1, <1>3, <2>4, <3>2, <4>1, CallWakesEffect
      <4>3. {t \in Waiting(ReadList(l)) : t \in who} = Waiting(ReadList(l))
        BY <4>1 DEF Waiting
      <4>4. Waiting(ReadList(l))' = {} /\ Grants(ReadList(l))' = Waiting(ReadList(l))
        BY <2>8, <4>2, <4>3 DEF Handed
      <4>5. After(LockLists(l)) /\ Still(WriteList(l))
        BY <1>1, <4>2, LocksApart DEF After, LockLists
      <4> QED
        BY <4>2, <4>4, <4>5
    <3> QED
      BY <3>1, <3>2
  <2>10. ReadersOK(l)'
    <3>1. rw'[l].readers = d /\ Cardinality(Grants(ReadList(l)))' = d /\ Cardinality(ReadShares(l))' = 0
      BY <1>8, <2>2, <2>6, <2>7, <2>9 DEF LockSet
    <3>2. IsFiniteSet(ReadShares(l))'
      BY <1>1, <1>8 DEF ReadersOK
    <3> QED
      BY <2>2, <3>1, <3>2 DEF ReadersOK
  <2>11. WriterOK(l)'
    <3>1. rw'[l].writes = 0 /\ rw'[l].owner = None /\ Grants(WriteList(l))' = {}
      BY <1>5, <2>6, <2>7, <2>9 DEF LockSet, Still
    <3> QED
      BY <1>11, <1>13, <3>1 DEF WriterOK
  <2>12. LockWaitersOK(l)'
    <3>1. rw'[l].used /\ Waiting(WriteList(l))' = {}
      BY <2>6, <2>7, <2>8, <2>9 DEF LockSet, Still
    <3>2. "giveup" \notin app'.calls => Untimed(WriteList(l))'
      BY <3>1 DEF Untimed
    <3> QED
      BY <2>9, <3>1, <3>2 DEF LockWaitersOK
  <2>13. RWOK(l)'
    BY <2>10, <2>11, <2>12 DEF RWOK
  <2> QED
    BY <1>3, <1>7, <2>7, <2>9, <2>13, OneLockShares
<1> QED
  BY <1>10, <1>12, <1>13

\* Every step of the read-write locks keeps their invariant and touches no
\* other list.
LEMMA RWLockMoves ==
  ASSUME TasksInv, Parked, RWInv, RWLockNext
  PROVE  RWInv' /\ After(RWLists) /\ k'.prio = k.prio
<1>1. PICK l \in RWLock :
        \/ LOS_RWLockCreate(l) \/ LOS_RWLockDelete(l)
        \/ \E timeout \in app.timeouts : LOS_RWReadLock(l, timeout) \/ LOS_RWWriteLock(l, timeout)
        \/ \E kind \in {"read", "write"} : RWLockReturns(kind, l)
        \/ LOS_RWReadUnLock(l) \/ LOS_RWWriteUnLock(l)
  BY DEF RWLockNext
<1>2. app' = app
  BY DEF RWLockNext
<1> QED
  BY <1>1, <1>2, LockLifeMoves, ReadLockMoves, WriteLockMoves, LockReturnMoves, ReadUnLockMoves, WriteUnLockMoves

-----------------------------------------------------------------------------
(* All objects                                                             *)

\* The lists of one kind of object are not those of another.
LEMMA KindsApart ==
  /\ \A m \in Mutex : MuxList(m) \notin SemLists \cup EventLists \cup QueueLists \cup RWLists
  /\ \A s \in Sem : SemList(s) \notin MuxLists \cup EventLists \cup QueueLists \cup RWLists
  /\ \A e \in Event : EventList(e) \notin MuxLists \cup SemLists \cup QueueLists \cup RWLists
  /\ \A q \in Queue, side \in Side \cup {"mail"} :
       QueueList(q, side) \notin MuxLists \cup SemLists \cup EventLists \cup RWLists
  /\ \A l \in RWLock : /\ ReadList(l) \notin MuxLists \cup SemLists \cup EventLists \cup QueueLists
                       /\ WriteList(l) \notin MuxLists \cup SemLists \cup EventLists \cup QueueLists
<1> DEFINE Tag(l) == l[1]
<1>1. /\ \A l \in MuxLists : Tag(l) = "mux"
      /\ \A l \in SemLists : Tag(l) = "sem"
      /\ \A l \in EventLists : Tag(l) = "event"
      /\ \A l \in QueueLists : Tag(l) = "queue"
      /\ \A l \in RWLists : Tag(l) = "rwlock"
  BY DEF MuxLists, SemLists, EventLists, QueueLists, RWLists, MuxList, SemList, EventList, QueueList,
         ReadList, WriteList
<1>2. /\ \A m \in Mutex : MuxList(m) \in MuxLists
      /\ \A s \in Sem : SemList(s) \in SemLists
      /\ \A e \in Event : EventList(e) \in EventLists
      /\ \A q \in Queue, side \in Side \cup {"mail"} : QueueList(q, side) \in QueueLists
      /\ \A l \in RWLock : ReadList(l) \in RWLists /\ WriteList(l) \in RWLists
  BY DEF MuxLists, SemLists, EventLists, QueueLists, RWLists
<1> HIDE DEF Tag
<1> QED
  BY <1>1, <1>2

\* What a step about other lists leaves alone.
LEMMA OtherMutexes ==
  ASSUME MutexInv, PrioInv, NEW X, After(X), \A m \in Mutex : MuxList(m) \notin X,
         UNCHANGED mutexVars, app' = app, "priset" \notin app.calls => k'.prio = k.prio
  PROVE  MutexInv' /\ PrioInv'
<1>1. \A m \in Mutex : Still(MuxList(m))
  BY FlagsOfLists DEF After
<1> QED
  BY <1>1, MutexesStill, PrioritiesStill

\* A step about other objects keeps the invariant of the semaphores,
LEMMA OtherSems ==
  ASSUME SemInv, NEW X, After(X), \A s \in Sem : SemList(s) \notin X, UNCHANGED semVars
  PROVE  SemInv'
<1>1. \A s \in Sem : Still(SemList(s))
  BY FlagsOfLists DEF After
<1> QED
  BY <1>1, SemsKept

\* that of the events,
LEMMA OtherEvents ==
  ASSUME EventInv, NEW X, After(X), \A e \in Event : EventList(e) \notin X, UNCHANGED bits
  PROVE  EventInv'
<1>1. \A e \in Event : Still(EventList(e))
  BY FlagsOfLists DEF After
<1> QED
  BY <1>1, EventsKept

\* those of the queues,
LEMMA OtherQueues ==
  ASSUME CellsInv, BlocksInv, NEW X, After(X),
         \A q \in Queue, side \in Side \cup {"mail"} : QueueList(q, side) \notin X, UNCHANGED queueVars
  PROVE  CellsInv' /\ BlocksInv' /\ OneTurns
<1>1. \A q \in Queue, side \in Side \cup {"mail"} : Still(QueueList(q, side))
  BY FlagsOfLists DEF After
<1>2. \A q \in Queue : Still(MailList(q))
  BY <1>1 DEF MailList
<1>3. queue' = queue /\ out' = out /\ pool' = pool /\ mails' = mails
  BY DEF queueVars
<1> QED
  BY <1>1, <1>2, <1>3, CellsStill, BlocksStill DEF OneTurns

\* and that of the read-write locks.
LEMMA OtherLocks ==
  ASSUME RWInv, NEW X, After(X), \A l \in RWLock : ReadList(l) \notin X /\ WriteList(l) \notin X,
         UNCHANGED rwVars, app' = app
  PROVE  RWInv'
<1>1. \A l \in RWLock : Still(ReadList(l)) /\ Still(WriteList(l))
  BY FlagsOfLists DEF After
<1> QED
  BY <1>1, LocksStill

\* A step that is about no object.
LEMMA NoObject ==
  ASSUME ObjectsInv, After({}), app' = app, "priset" \notin app.calls => k'.prio = k.prio,
         UNCHANGED <<mutexVars, semVars, bits, queueVars, rwVars>>
  PROVE  ObjectsInv' /\ OneTurns
<1>1. MutexInv' /\ PrioInv'
  BY OtherMutexes DEF ObjectsInv
<1>2. SemInv' /\ EventInv'
  BY OtherSems, OtherEvents DEF ObjectsInv
<1>3. CellsInv' /\ BlocksInv' /\ RWInv' /\ OneTurns
  BY OtherQueues, OtherLocks DEF ObjectsInv
<1>4. ~k'.fault /\ Parked'
  BY DEF After, ObjectsInv
<1> QED
  BY <1>1, <1>2, <1>3, <1>4 DEF ObjectsInv

\* The application is never changed.
LEMMA SameApplication ==
  ASSUME TasksNext
  PROVE  app' = app
<1>1. ASSUME LOS_TaskYield \/ LOS_TaskDelay \/ LOS_TaskLock \/ LOS_TaskUnlock PROVE app' = app
  BY <1>1 DEF LOS_TaskYield, LOS_TaskDelay, LOS_TaskLock, LOS_TaskUnlock
<1>2. ASSUME Reschedule \/ TickEndsWait \/ osTimesliceCheck PROVE app' = app
  BY <1>2 DEF Reschedule, TickEndsWait, osTimesliceCheck
<1>3. ASSUME NEW t \in Task, LOS_TaskSuspend(t) \/ LOS_TaskResume(t) PROVE app' = app
  BY <1>3 DEF LOS_TaskSuspend, LOS_TaskResume
<1>4. ASSUME NEW t \in Task, LOS_TaskDelete(t) \/ LOS_TaskCreate(t) PROVE app' = app
  BY <1>4 DEF LOS_TaskDelete, LOS_TaskCreate
<1>5. ASSUME NEW t \in Task, NEW p, LOS_TaskPriSet(t, p) PROVE app' = app
  BY <1>5 DEF LOS_TaskPriSet
<1> QED
  BY <1>1, <1>2, <1>3, <1>4, <1>5 DEF TasksNext, TaskCall

\* No task is deleted.
TasksStay == "delete" \notin app.calls

\* Every step of the kernel keeps the invariant of the objects: one case per
\* kind of object, one for the calls about tasks, one for the tick.
LEMMA ObjectsStep ==
  ASSUME Inv, Inv', ObjectsInv, TasksStay, [Next]_vars
  PROVE  ObjectsInv' /\ TasksStay' /\ OneTurns
<1>1. TasksInv /\ Parked /\ ~k.fault /\ MutexesOK /\ MutexesOK'
  BY DEF Inv, ObjectsInv
<1>2. ASSUME app' = app PROVE TasksStay'
  BY <1>2 DEF TasksStay
<1>3. ASSUME NEW X, After(X) PROVE ~k'.fault /\ Parked'
  BY <1>1, <1>3 DEF After
<1>4. CASE TasksNext /\ UNCHANGED <<mutexVars, semVars, bits, queueVars, rwVars>>
  <2>1. app' = app
    BY <1>4, SameApplication
  <2>2. After({}) /\ ("priset" \notin app.calls => k'.prio = k.prio)
    BY <1>1, <1>4, TasksQuiet DEF TasksStay
  <2> QED
    BY <1>2, <1>4, <2>1, <2>2, NoObject
<1>5. CASE MutexNext /\ UNCHANGED <<semVars, bits, queueVars, rwVars>>
  <2>1. app' = app
    BY <1>5 DEF MutexNext
  <2>2. MutexInv' /\ PrioInv' /\ After(MuxLists)
    BY <1>1, <1>5, MutexMoves DEF ObjectsInv
  <2>3. SemInv' /\ EventInv'
    BY <1>5, <2>2, KindsApart, OtherSems, OtherEvents DEF ObjectsInv
  <2>4. CellsInv' /\ BlocksInv' /\ RWInv' /\ OneTurns
    BY <1>5, <2>1, <2>2, KindsApart, OtherQueues, OtherLocks DEF ObjectsInv
  <2> QED
    BY <1>2, <1>3, <2>1, <2>2, <2>3, <2>4 DEF ObjectsInv
<1>6. CASE SemNext /\ UNCHANGED <<mutexVars, bits, queueVars, rwVars>>
  <2>1. app' = app
    BY <1>6 DEF SemNext
  <2>2. SemInv' /\ After(SemLists) /\ k'.prio = k.prio
    BY <1>1, <1>6, SemMoves DEF ObjectsInv
  <2>3. MutexInv' /\ PrioInv' /\ EventInv'
    BY <1>6, <2>1, <2>2, KindsApart, OtherMutexes, OtherEvents DEF ObjectsInv
  <2>4. CellsInv' /\ BlocksInv' /\ RWInv' /\ OneTurns
    BY <1>6, <2>1, <2>2, KindsApart, OtherQueues, OtherLocks DEF ObjectsInv
  <2> QED
    BY <1>2, <1>3, <2>1, <2>2, <2>3, <2>4 DEF ObjectsInv
<1>7. CASE EventNext /\ UNCHANGED <<mutexVars, semVars, queueVars, rwVars>>
  <2>1. app' = app
    BY <1>7 DEF EventNext
  <2>2. EventInv' /\ After(EventLists) /\ k'.prio = k.prio
    BY <1>1, <1>7, EventMoves DEF ObjectsInv
  <2>3. MutexInv' /\ PrioInv' /\ SemInv'
    BY <1>7, <2>1, <2>2, KindsApart, OtherMutexes, OtherSems DEF ObjectsInv
  <2>4. CellsInv' /\ BlocksInv' /\ RWInv' /\ OneTurns
    BY <1>7, <2>1, <2>2, KindsApart, OtherQueues, OtherLocks DEF ObjectsInv
  <2> QED
    BY <1>2, <1>3, <2>1, <2>2, <2>3, <2>4 DEF ObjectsInv
<1>8. CASE QueueNext /\ UNCHANGED <<mutexVars, semVars, bits, rwVars>>
  <2>1. app' = app
    BY <1>8 DEF QueueNext
  <2>2. CellsInv' /\ BlocksInv' /\ After(QueueLists) /\ OneTurns /\ k'.prio = k.prio
    BY <1>1, <1>8, QueueMoves DEF ObjectsInv
  <2>3. MutexInv' /\ PrioInv' /\ SemInv'
    BY <1>8, <2>1, <2>2, KindsApart, OtherMutexes, OtherSems DEF ObjectsInv
  <2>4. EventInv' /\ RWInv'
    BY <1>8, <2>1, <2>2, KindsApart, OtherEvents, OtherLocks DEF ObjectsInv
  <2> QED
    BY <1>2, <1>3, <2>1, <2>2, <2>3, <2>4 DEF ObjectsInv
<1>9. CASE RWLockNext /\ UNCHANGED <<mutexVars, semVars, bits, queueVars>>
  <2>1. app' = app
    BY <1>9 DEF RWLockNext
  <2>2. RWInv' /\ After(RWLists) /\ k'.prio = k.prio
    BY <1>1, <1>9, RWLockMoves DEF ObjectsInv
  <2>3. MutexInv' /\ PrioInv' /\ SemInv'
    BY <1>9, <2>1, <2>2, KindsApart, OtherMutexes, OtherSems DEF ObjectsInv
  <2>4. EventInv' /\ CellsInv' /\ BlocksInv' /\ OneTurns
    BY <1>9, <2>2, KindsApart, OtherEvents, OtherQueues DEF ObjectsInv
  <2> QED
    BY <1>2, <1>3, <2>1, <2>2, <2>3, <2>4 DEF ObjectsInv
<1>10. CASE UNCHANGED vars
  <2>1. UNCHANGED <<k, at, wait>> /\ app' = app /\ UNCHANGED <<mutexVars, semVars, bits, queueVars, rwVars>>
    BY <1>10 DEF vars, taskVars
  <2>2. After({}) /\ k'.prio = k.prio
    BY <1>1, <2>1, InterruptReturnsEffect
  <2> QED
    BY <1>2, <2>1, <2>2, NoObject
<1> QED
  BY <1>4, <1>5, <1>6, <1>7, <1>8, <1>9, <1>10 DEF Next

\* No step changes what the application does.
LEMMA SameCalls ==
  ASSUME [Next]_vars
  PROVE  TasksStay' <=> TasksStay
<1>1. app' = app
  BY SameApplication DEF Next, vars, taskVars, MutexNext, SemNext, EventNext, QueueNext, RWLockNext
<1> QED
  BY <1>1 DEF TasksStay

\* At the start nobody waits and everything is free.
LEMMA ObjectsStart ==
  ASSUME Init
  PROVE  ObjectsInv
<1>1. /\ app \in Application /\ k = LOS_Schedule(Start)
      /\ at = [t \in Task |-> "app"] /\ wait = [t \in Task |-> None]
      /\ mux = [m \in Mutex |-> Free] /\ holds = [t \in Task |-> <<>>]
  BY DEF Init, TasksInit, MutexInit, Start, On
<1>2. Scheduled(k, Start)
  BY <1>1, StartLinks, ScheduleLinks
<1>3. /\ ~k.fault /\ \A l \in PendList : k.pend[l] = <<>>
      /\ \A t \in Task : k.prio[t] = app.prio[t]
  BY <1>2, TasksAssumption DEF Scheduled, Start, AnyTask
<1>4. \A l \in PendList : Waiting(l) = {} /\ Grants(l) = {}
  <2>1. ASSUME NEW l \in PendList PROVE Waiting(l) = {}
    BY <1>3 DEF Waiting, OnList
  <2>2. ASSUME NEW l \in PendList PROVE Grants(l) = {}
    BY <1>1, OneList DEF Grants
  <2> QED
    BY <2>1, <2>2
<1>5. Parked
  BY <1>1, <1>4 DEF Parked
<1>6. MutexInv
  <2>1. holds \in [Task -> Seq(Mutex)]
    BY <1>1
  <2>2. ASSUME NEW t \in Task, NEW m \in Mutex PROVE Locks(t, m) = 0
    <3>1. {i \in DOMAIN holds[t] : holds[t][i] = m} = {}
      BY <1>1
    <3> QED
      BY <3>1, FS_EmptySet DEF Locks
  <2>3. ASSUME NEW m \in Mutex PROVE MutexOK(m)
    BY <1>1, <1>4, <2>2, FlagsOfLists DEF MutexOK, Free
  <2> QED
    BY <2>1, <2>3 DEF MutexInv
<1>7. PrioInv
  <2>1. ASSUME NEW t \in Task PROVE Prioritised(t)
    BY <1>1, <1>3, <1>4, FlagsOfLists DEF Prioritised
  <2> QED
    BY <2>1 DEF PrioInv
<1>8. SemInv
  <2>1. PICK n \in 0..IF "sem" \in app.calls THEN MaxCount ELSE 0 :
          sem = [s \in Sem |-> [used |-> TRUE, count |-> n]] /\ balance = [s \in Sem |-> n]
    BY DEF Init, SemInit
  <2>2. n \in Nat
    BY SemAssumption
  <2>3. ASSUME NEW s \in Sem PROVE SemOK(s)
    <3>1. Waiting(SemList(s)) = {} /\ Cardinality(Grants(SemList(s))) = 0
      BY <1>4, FlagsOfLists, FS_EmptySet
    <3> QED
      BY <2>1, <2>2, <3>1 DEF SemOK
  <2> QED
    BY <2>1, <2>2, <2>3 DEF SemInv
<1>9. EventInv
  BY <1>4, FlagsOfLists DEF EventInv, Init, EventInit
<1>10. /\ queue = [q \in Queue |-> Fresh] /\ pool = [q \in Queue |-> Blocks]
       /\ mails = [q \in Queue |-> [t \in Task |-> 0]]
  BY DEF Init, QueueInit
<1>11. \A q \in Queue, side \in Side \cup {"mail"} : Waiting(QueueList(q, side)) = {} /\ Ready(q, side) = 0
  BY <1>4, FlagsOfLists, FS_EmptySet DEF Ready
<1>12. CellsInv
  <2>1. usQueueLen \in Nat \ {0} /\ 0 \in 0..usQueueLen - 1
    BY QueueAssumption
  <2>2. [i \in 0..usQueueLen - 1 |-> None] \in [0..usQueueLen - 1 -> Msg \cup {None}]
    OBVIOUS
  <2>3. Fresh \in QueueBlock /\ Fresh.able.read = 0 /\ Fresh.able.write = usQueueLen /\ Fresh.used
    BY <2>1, <2>2 DEF Fresh, QueueBlock
  <2>4. ASSUME NEW q \in Queue PROVE CellsOK(q)
    <3>1. queue[q] = Fresh
      BY <1>10
    <3>2. Ready(q, "read") = 0 /\ Ready(q, "write") = 0 /\ \A side \in Side : Waiting(QueueList(q, side)) = {}
      BY <1>11 DEF Side
    <3> QED
      BY <2>1, <2>3, <3>1, <3>2 DEF CellsOK
  <2> QED
    BY <1>10, <2>3, <2>4 DEF CellsInv
<1>13. BlocksInv
  <2>1. pool \in [Queue -> Nat] /\ mails \in [Queue -> [Task -> Nat]]
    BY <1>10, QueueAssumption
  <2>2. ASSUME NEW q \in Queue PROVE BlocksOK(q)
    <3>1. InUse(q) = {}
      BY <1>10 DEF InUse
    <3>2. Ready(q, "mail") = 0 /\ pool[q] = Blocks /\ Blocks \in Nat
      BY <1>10, <1>11, QueueAssumption
    <3> QED
      BY <3>1, <3>2, FS_EmptySet DEF BlocksOK
  <2> QED
    BY <2>1, <2>2 DEF BlocksInv
<1>14. RWInv
  <2>1. /\ rw = [l \in RWLock |-> Unlocked]
        /\ share = [t \in Task |-> [l \in RWLock |-> [read |-> 0, write |-> 0]]]
    BY DEF Init, RWLockInit
  <2>2. share \in [Task -> [RWLock -> [read : Nat, write : Nat]]]
    BY <2>1
  <2>3. rw \in [RWLock -> [used : BOOLEAN, readers : Nat, writes : Nat, owner : Task \cup {None}]]
    BY <2>1 DEF Unlocked
  <2>4. ASSUME NEW l \in RWLock PROVE RWOK(l)
    <3>1. /\ Waiting(ReadList(l)) = {} /\ Waiting(WriteList(l)) = {}
          /\ Grants(ReadList(l)) = {} /\ Grants(WriteList(l)) = {}
      BY <1>4, FlagsOfLists
    <3>2. rw[l] = Unlocked /\ \A t \in Task : share[t][l].read = 0 /\ share[t][l].write = 0
      BY <2>1
    <3>3. ReadShares(l) = {}
      BY <3>2 DEF ReadShares
    <3>4. ReadersOK(l)
      BY <3>1, <3>2, <3>3, FS_EmptySet DEF ReadersOK, Unlocked
    <3>5. WriterOK(l)
      BY <3>1, <3>2 DEF WriterOK, Unlocked
    <3>6. LockWaitersOK(l)
      BY <3>1, <3>2 DEF LockWaitersOK, Unlocked, Untimed
    <3> QED
      BY <3>4, <3>5, <3>6 DEF RWOK
  <2> QED
    BY <2>2, <2>3, <2>4 DEF RWInv
<1> QED
  BY <1>3, <1>5, <1>6, <1>7, <1>8, <1>9, <1>12, <1>13, <1>14 DEF ObjectsInv

-----------------------------------------------------------------------------
(* What the invariants say of the objects                                  *)

\* A list that is not empty has waiters, and its elements are the waiters.
LEMMA WaitersListed ==
  ASSUME Links(k), NEW l \in PendList
  PROVE  /\ k.pend[l] # <<>> => Waiting(l) # {}
         /\ \A i \in DOMAIN k.pend[l] : k.pend[l][i] \in Waiting(l)
<1>1. k.pend[l] \in Seq(Task)
  BY DEF Links, KState
<1>2. \A i \in DOMAIN k.pend[l] : k.pend[l][i] \in Task
  BY <1>1
<1> QED
  BY <1>2, EmptyList DEF Waiting, OnList

\* The tasks a property speaks of are those of the invariant.
LEMMA GrantedAre ==
  \A l \in PendList, t \in Task : \A w : Args(l) = {w} => (Granted(t, w) <=> t \in Grants(l))
BY DEF Granted, Grants, Awake

\* The invariant of the objects gives each of the five properties.  The tasks
\* that Locks, Granted and OnTheirWay count are the ones it counts.
LEMMA HoldersHold ==
  ASSUME Inv, ObjectsInv
  PROVE  HoldersExclude
<1>1. OnlyTheOwnerHolds
  <2>1. ASSUME NEW m \in Mutex, NEW t \in Task, Locks(t, m) > 0
        PROVE  mux[m].owner = t /\ mux[m].count = Locks(t, m)
    BY <2>1, LocksTell DEF Inv, ObjectsInv
  <2>2. ASSUME NEW m \in Mutex, mux[m].count > 0
        PROVE  \/ Locks(mux[m].owner, m) > 0
               \/ mux[m].count = 1 /\ Granted(mux[m].owner, For(MuxList(m), None))
    <3>1. mux[m].owner \in Task /\ MutexOK(m)
      BY <2>2 DEF Inv, MutexesOK, ObjectsInv, MutexInv
    <3>2. CASE mux[m].owner \in Grants(MuxList(m))
      BY <2>2, <3>1, <3>2, ArgsOf, FlagsOfLists, GrantedAre DEF MutexOK
    <3>3. CASE mux[m].owner \notin Grants(MuxList(m))
      BY <2>2, <3>1, <3>3 DEF MutexOK
    <3> QED
      BY <3>2, <3>3
  <2> QED
    BY <2>1, <2>2 DEF OnlyTheOwnerHolds
<1>2. WritersExclude
  <2>1. ASSUME NEW l \in RWLock, NEW t \in Task, share[t][l].write > 0, NEW u \in Task \ {t}
        PROVE  share[u][l].write = 0 /\ share[u][l].read = 0
    <3>1. /\ share \in Shares /\ rw[l] \in LockBlock /\ ReadersOK(l) /\ WriterOK(l)
          /\ Cardinality(ReadShares(l)) \in Nat /\ Cardinality(Grants(ReadList(l))) \in Nat
      BY LockFacts DEF Inv, ObjectsInv
    <3>2. rw[l].writes > 0
      BY <2>1, <3>1 DEF WriterOK, LockBlock
    <3>3. rw[l].readers = 0 /\ rw[l].owner = t
      BY <2>1, <3>1, <3>2 DEF WriterOK
    <3>4. share[u][l].write = 0
      BY <3>1, <3>2, <3>3 DEF WriterOK
    <3>5. Cardinality(ReadShares(l)) = 0
      BY <3>1, <3>3 DEF ReadersOK
    <3>6. PICK f : f = [v \in Task |-> share[v][l].read]
      OBVIOUS
    <3>7. f \in [Task -> Nat] /\ ReadShares(l) = Things(f) /\ IsFiniteSet(Things(f))
      BY <3>1, <3>6, SharesAreThings DEF ReadersOK
    <3>8. ~(f[u] > 0)
      BY <3>5, <3>7, SomeThings
    <3>9. share[u][l].read = 0
      BY <3>6, <3>7, <3>8
    <3> QED
      BY <3>4, <3>9
  <2> QED
    BY <2>1 DEF WritersExclude
<1> QED
  BY <1>1, <1>2 DEF HoldersExclude

\* Whoever is in a list cannot have what he waits for.
LEMMA SleepersHold ==
  ASSUME Inv, ObjectsInv
  PROVE  NobodySleepsOnWhatIsThere
<1>1. Links(k) /\ TasksInv
  BY DEF Inv, TasksInv
<1>2. MutexWaitersHaveAnOwner
  <2>1. ASSUME NEW m \in Mutex, k.pend[MuxList(m)] # <<>>
        PROVE  mux[m].count > 0 /\ ~OnList(k.pend[MuxList(m)], mux[m].owner)
    <3>1. /\ MutexOK(m) /\ Waiting(MuxList(m)) # {} /\ mux[m].count \in Nat
          /\ mux[m].count > 0 => mux[m].owner \in Task
      BY <1>1, <2>1, WaitersListed, FlagsOfLists DEF ObjectsInv, MutexInv, Inv, MutexesOK
    <3>2. mux[m].count > 0
      BY <3>1 DEF MutexOK
    <3> QED
      BY <3>1, <3>2 DEF MutexOK, Waiting
  <2> QED
    BY <2>1 DEF MutexWaitersHaveAnOwner
<1>3. SemWaitersFindNone
  BY <1>1, WaitersListed, FlagsOfLists DEF SemWaitersFindNone, ObjectsInv, SemInv, SemOK
<1>4. EventWaitersAreUnsatisfied
  BY <1>1, WaitersListed, FlagsOfLists DEF EventWaitersAreUnsatisfied, ObjectsInv, EventInv
<1>5. QueueWaitersAreUnable
  BY <1>1, WaitersListed, FlagsOfLists DEF QueueWaitersAreUnable, ObjectsInv, CellsInv, CellsOK
<1>6. NobodyWaitsForAnOpenLock
  <2>1. ASSUME NEW l \in RWLock
        PROVE  /\ k.pend[ReadList(l)] # <<>> /\ "giveup" \notin app.calls =>
                    rw[l].writes > 0 \/ k.pend[WriteList(l)] # <<>>
               /\ k.pend[WriteList(l)] # <<>> => rw[l].readers > 0 \/ rw[l].owner # None
    <3>1. /\ ReadList(l) \in PendList /\ WriteList(l) \in PendList
          /\ rw[l] \in LockBlock /\ WriterOK(l) /\ LockWaitersOK(l)
      BY <1>1, LockFacts DEF ObjectsInv
    <3>2. /\ k.pend[ReadList(l)] # <<>> <=> Waiting(ReadList(l)) # {}
          /\ k.pend[WriteList(l)] # <<>> <=> Waiting(WriteList(l)) # {}
      BY <1>1, <3>1, EmptyList
    <3>3. rw[l].writes > 0 => rw[l].owner # None
      BY <3>1, TasksAssumption DEF WriterOK
    <3> QED
      BY <3>1, <3>2, <3>3 DEF LockWaitersOK
  <2> QED
    BY <2>1 DEF NobodyWaitsForAnOpenLock
<1> QED
  BY <1>2, <1>3, <1>4, <1>5, <1>6 DEF NobodySleepsOnWhatIsThere

\* Posts are counted or on their way.
LEMMA PostsHold ==
  ASSUME Inv, TasksStay => ObjectsInv
  PROVE  EveryPostIsUsedOnce
<1>1. ASSUME ObjectsInv, NEW s \in Sem, sem[s].used PROVE balance[s] = sem[s].count + OnTheirWay(s)
  <2>1. {t \in Task : Granted(t, For(SemList(s), None))} = Grants(SemList(s))
    BY ArgsOf, FlagsOfLists, GrantedAre DEF Grants
  <2> QED
    BY <1>1, <2>1 DEF OnTheirWay, ObjectsInv, SemInv, SemOK
<1> QED
  BY <1>1 DEF EveryPostIsUsedOnce, TasksStay

\* The tasks that were woken for a cell, as the invariant counts them.
LEMMA WokenAreReady == \A q \in Queue, side \in Side : Woken(q, side) = Ready(q, side)
<1> SUFFICES ASSUME NEW q \in Queue, NEW side \in Side PROVE Woken(q, side) = Ready(q, side)
  OBVIOUS
<1>1. Args(QueueList(q, side)) = {For(QueueList(q, side), op) : op \in {o \in Op : SideOf(o) = side}}
  BY ArgsOf
<1>2. ASSUME NEW op \in Op, SideOf(op) = side PROVE Pending(q, op) = For(QueueList(q, side), op)
  BY <1>2 DEF Pending
<1>3. ASSUME NEW t \in Task
      PROVE  (\E op \in Op : SideOf(op) = side /\ Granted(t, Pending(q, op))) <=> t \in Grants(QueueList(q, side))
  BY <1>1, <1>2 DEF Grants, Granted, Awake
<1>4. {t \in Task : \E op \in Op : SideOf(op) = side /\ Granted(t, Pending(q, op))} = Grants(QueueList(q, side))
  BY <1>3 DEF Grants
<1> QED
  BY <1>4 DEF Woken, Ready

\* Cells and blocks are free, used or on their way.
LEMMA QueuesHold ==
  ASSUME Inv, ObjectsInv
  PROVE  QueuesLoseNothing
<1>1. \A q \in Queue, side \in Side : Woken(q, side) = Ready(q, side)
  BY WokenAreReady
<1>2. CellsAreAccountedFor
  <2>1. ASSUME NEW q \in Queue
        PROVE  usQueueLen = queue[q].able.read + queue[q].able.write + Woken(q, "read") + Woken(q, "write")
    BY <1>1 DEF ObjectsInv, CellsInv, CellsOK, Side
  <2> QED
    BY <2>1 DEF CellsAreAccountedFor
<1>3. BlocksAreAccountedFor
  <2>1. ASSUME NEW q \in Queue
        PROVE  Blocks = pool[q] + Cardinality(InUse(q))
                          + Cardinality({t \in Task : Granted(t, For(MailList(q), None))})
    <3>1. {t \in Task : Granted(t, For(MailList(q), None))} = Grants(MailList(q))
      BY ArgsOf DEF Grants, Granted, Awake
    <3>2. Ready(q, "mail") = Cardinality(Grants(MailList(q)))
      BY DEF Ready, MailList
    <3> QED
      BY <3>1, <3>2 DEF ObjectsInv, BlocksInv, BlocksOK
  <2> QED
    BY <2>1 DEF BlocksAreAccountedFor
<1> QED
  BY <1>2, <1>3 DEF QueuesLoseNothing

\* A task that owns nothing has its own priority.
LEMMA PrioritiesHold ==
  ASSUME ObjectsInv
  PROVE  PriorityIsGivenBack
BY DEF ObjectsInv, PrioInv, Prioritised, Owns, PriorityIsGivenBack

-----------------------------------------------------------------------------
(* A queue and its promise                                                 *)

\* The cell j cells on from the cell h.
Slot(h, j) == (h + j) % usQueueLen

\* The cells in use are those from the head on, and the tail follows them.
RingOK(q) == queue[q].tail = Slot(queue[q].head, Load(q))

\* The rings of all queues, and what was last read from each.
RingInv == out \in [Queue -> Msg \cup {None}] /\ \A q \in Queue : RingOK(q)

\* A ring of n messages that starts at the cell h.
Ring(cells, h, n) == [i \in 1..n |-> cells[Slot(h, i - 1)]]

\* What cells hold.
Cells == [0..usQueueLen - 1 -> Msg \cup {None}]

\* One cell of the ring is written.
Changed(cells, after, h, msg) ==
  \A i \in 0..usQueueLen - 1 : after[i] = IF i = h THEN msg ELSE cells[i]

\* The first of n messages, the one in the cell h, is read; m remain.
Advanced(cells, h, n, after, g, m) ==
  /\ cells \in Cells /\ after \in Cells /\ Changed(cells, after, h, None)
  /\ h \in 0..usQueueLen - 1 /\ m \in 0..usQueueLen - 1 /\ g = Up(h) /\ n = m + 1

\* A message is put behind the n that start at the cell h.
Followed(cells, h, n, after, m, msg) ==
  /\ cells \in Cells /\ after \in Cells /\ msg \in Msg /\ Changed(cells, after, Slot(h, n), msg)
  /\ h \in 0..usQueueLen - 1 /\ n \in 0..usQueueLen - 1 /\ m = n + 1

\* A message is put before the n that start at the cell h.
Preceded(cells, h, n, after, g, m, msg) ==
  /\ cells \in Cells /\ after \in Cells /\ msg \in Msg /\ Changed(cells, after, g, msg)
  /\ h \in 0..usQueueLen - 1 /\ n \in 0..usQueueLen - 1 /\ g = Down(h) /\ m = n + 1

\* Counting on from a cell of the ring: at most one time round.
LEMMA Round ==
  ASSUME NEW h \in 0..usQueueLen - 1, NEW j \in 0..usQueueLen
  PROVE  /\ Slot(h, j) = IF h + j < usQueueLen THEN h + j ELSE (h + j) - usQueueLen
         /\ Slot(h, j) \in 0..usQueueLen - 1
<1>1. usQueueLen \in Nat /\ usQueueLen > 0
  BY QueueAssumption
<1>2. PICK x : x = h + j
  OBVIOUS
<1>3. x \in Nat
  BY <1>1, <1>2
<1>4. CASE x < usQueueLen
  <2>1. x % usQueueLen = x
    BY <1>1, <1>3, <1>4
  <2> QED
    BY <1>1, <1>2, <1>3, <1>4, <2>1 DEF Slot
<1>5. CASE ~(x < usQueueLen)
  <2>1. PICK y : y = x - usQueueLen
    OBVIOUS
  <2>2. y \in Nat /\ y < usQueueLen /\ x = y + usQueueLen
    BY <1>1, <1>2, <1>3, <1>5, <2>1
  <2>3. x % usQueueLen = y
    BY <1>1, <2>2
  <2> QED
    BY <1>1, <1>2, <1>5, <2>1, <2>2, <2>3 DEF Slot
<1> QED
  BY <1>4, <1>5

\* The cell after, and the cell before, the one j cells on.
LEMMA RoundSteps ==
  ASSUME NEW h \in 0..usQueueLen - 1
  PROVE  /\ Up(h) \in 0..usQueueLen - 1 /\ Down(h) \in 0..usQueueLen - 1
         /\ \A j \in 1..usQueueLen : Slot(Up(h), j - 1) = Slot(h, j)
         /\ \A j \in 0..usQueueLen - 1 :
              /\ Up(Slot(h, j)) = Slot(h, j + 1)
              /\ Slot(Down(h), j + 1) = Slot(h, j)
<1>1. usQueueLen \in Nat /\ usQueueLen > 0
  BY QueueAssumption
<1>2. Up(h) \in 0..usQueueLen - 1 /\ Down(h) \in 0..usQueueLen - 1
  BY <1>1 DEF Up, Down
<1>3. ASSUME NEW j \in 1..usQueueLen
      PROVE  Slot(Up(h), j - 1) = Slot(h, j)
  <2>1. PICK u, i : u = Up(h) /\ i = j - 1
    OBVIOUS
  <2>2. u \in 0..usQueueLen - 1 /\ i \in 0..usQueueLen /\ j \in 0..usQueueLen
    BY <1>1, <1>2, <2>1
  <2>3. /\ Slot(u, i) = IF u + i < usQueueLen THEN u + i ELSE (u + i) - usQueueLen
        /\ Slot(h, j) = IF h + j < usQueueLen THEN h + j ELSE (h + j) - usQueueLen
    BY <2>2, Round
  <2>4. (h + 1 = usQueueLen /\ u = 0) \/ (h + 1 < usQueueLen /\ u = h + 1)
    BY <1>1, <2>1 DEF Up
  <2>5. (IF u + i < usQueueLen THEN u + i ELSE (u + i) - usQueueLen) =
          (IF h + j < usQueueLen THEN h + j ELSE (h + j) - usQueueLen)
    <3>1. CASE h + 1 = usQueueLen /\ u = 0
      BY <1>1, <2>1, <2>2, <3>1
    <3>2. CASE h + 1 < usQueueLen /\ u = h + 1
      BY <1>1, <2>1, <2>2, <3>2
    <3> QED
      BY <2>4, <3>1, <3>2
  <2> QED
    BY <2>1, <2>3, <2>5
<1>4. ASSUME NEW j \in 0..usQueueLen - 1
      PROVE  /\ Up(Slot(h, j)) = Slot(h, j + 1)
             /\ Slot(Down(h), j + 1) = Slot(h, j)
  <2>1. PICK d, i : d = Down(h) /\ i = j + 1
    OBVIOUS
  <2>2. d \in 0..usQueueLen - 1 /\ i \in 0..usQueueLen /\ j \in 0..usQueueLen
    BY <1>1, <1>2, <2>1
  <2>3. /\ Slot(d, i) = IF d + i < usQueueLen THEN d + i ELSE (d + i) - usQueueLen
        /\ Slot(h, i) = IF h + i < usQueueLen THEN h + i ELSE (h + i) - usQueueLen
        /\ Slot(h, j) = IF h + j < usQueueLen THEN h + j ELSE (h + j) - usQueueLen
    BY <2>2, Round
  <2>4. (h = 0 /\ d = usQueueLen - 1) \/ (h > 0 /\ d = h - 1)
    BY <1>1, <2>1 DEF Down
  <2>5. (IF d + i < usQueueLen THEN d + i ELSE (d + i) - usQueueLen) =
          (IF h + j < usQueueLen THEN h + j ELSE (h + j) - usQueueLen)
    <3>1. CASE h = 0 /\ d = usQueueLen - 1
      BY <1>1, <2>1, <2>2, <3>1
    <3>2. CASE h > 0 /\ d = h - 1
      BY <1>1, <2>1, <2>2, <3>2
    <3> QED
      BY <2>4, <3>1, <3>2
  <2>6. PICK x, y : x = Slot(h, j) /\ y = Slot(h, i)
    OBVIOUS
  <2>7. /\ x = IF h + j < usQueueLen THEN h + j ELSE (h + j) - usQueueLen
        /\ y = IF h + i < usQueueLen THEN h + i ELSE (h + i) - usQueueLen
    BY <2>3, <2>6
  <2>8. y = IF x + 1 = usQueueLen THEN 0 ELSE x + 1
    BY <1>1, <2>1, <2>2, <2>7
  <2> QED
    BY <2>1, <2>3, <2>5, <2>6, <2>8 DEF Up
<1> QED
  BY <1>2, <1>3, <1>4

\* Two cells less than one time round apart are different ones.
LEMMA RoundApart ==
  ASSUME NEW h \in 0..usQueueLen - 1, NEW i \in 0..usQueueLen - 1, NEW j \in 0..usQueueLen - 1, i # j
  PROVE  Slot(h, i) # Slot(h, j)
<1>1. usQueueLen \in Nat /\ usQueueLen > 0 /\ i \in 0..usQueueLen /\ j \in 0..usQueueLen
  BY QueueAssumption
<1>2. /\ Slot(h, i) = IF h + i < usQueueLen THEN h + i ELSE (h + i) - usQueueLen
      /\ Slot(h, j) = IF h + j < usQueueLen THEN h + j ELSE (h + j) - usQueueLen
  BY <1>1, Round
<1>3. PICK x, y : x = Slot(h, i) /\ y = Slot(h, j)
  OBVIOUS
<1>4. /\ x = IF h + i < usQueueLen THEN h + i ELSE (h + i) - usQueueLen
      /\ y = IF h + j < usQueueLen THEN h + j ELSE (h + j) - usQueueLen
  BY <1>2, <1>3
<1>5. x # y
  BY <1>1, <1>4
<1> QED
  BY <1>3, <1>5

\* A ring is a sequence of as many messages.
LEMMA RingIsSeq ==
  ASSUME NEW cells \in [0..usQueueLen - 1 -> Msg \cup {None}], NEW h \in 0..usQueueLen - 1,
         NEW n \in 0..usQueueLen, NEW s, s = Ring(cells, h, n)
  PROVE  s \in Seq(Msg \cup {None}) /\ Len(s) = n
<1>1. usQueueLen \in Nat /\ usQueueLen > 0 /\ n \in Nat
  BY QueueAssumption
<1>2. ASSUME NEW i \in 1..n PROVE Slot(h, i - 1) \in 0..usQueueLen - 1
  <2>1. i - 1 \in 0..usQueueLen
    BY <1>1
  <2> QED
    BY <2>1, Round
<1>3. s \in [1..n -> Msg \cup {None}]
  BY <1>2 DEF Ring
<1> QED
  BY <1>1, <1>3 DEF Ring

\* Reading takes the first message of the ring.
LEMMA RingRead ==
  ASSUME NEW cells, NEW h, NEW n, NEW after, NEW g, NEW m, Advanced(cells, h, n, after, g, m)
  PROVE  /\ Ring(cells, h, n) # <<>> /\ Head(Ring(cells, h, n)) = cells[h]
         /\ Ring(after, g, m) = Tail(Ring(cells, h, n))
<1>1. /\ cells \in [0..usQueueLen - 1 -> Msg \cup {None}] /\ after \in [0..usQueueLen - 1 -> Msg \cup {None}]
      /\ h \in 0..usQueueLen - 1 /\ m \in 0..usQueueLen - 1
      /\ Changed(cells, after, h, None) /\ g = Up(h) /\ n = m + 1
  BY DEF Advanced, Cells
<1>2. /\ usQueueLen \in Nat /\ usQueueLen > 0 /\ n \in 1..usQueueLen /\ n \in 0..usQueueLen /\ m \in 0..usQueueLen
      /\ g \in 0..usQueueLen - 1 /\ after \in [0..usQueueLen - 1 -> Msg \cup {None}]
  BY <1>1, QueueAssumption, RoundSteps
<1>3. PICK s, u : s = Ring(cells, h, n) /\ u = Ring(after, g, m)
  OBVIOUS
<1>4. PICK v : v = Tail(s)
  OBVIOUS
<1>5. /\ s \in Seq(Msg \cup {None}) /\ Len(s) = n
      /\ \A i \in 1..n : s[i] = cells[Slot(h, i - 1)]
  <2>1. s \in Seq(Msg \cup {None}) /\ Len(s) = n
    BY <1>1, <1>2, <1>3, RingIsSeq
  <2>2. \A i \in 1..n : s[i] = cells[Slot(h, i - 1)]
    BY <1>1, <1>3 DEF Ring
  <2> QED
    BY <1>1, <2>1, <2>2
<1>6. /\ u \in Seq(Msg \cup {None}) /\ Len(u) = m
      /\ \A i \in 1..m : u[i] = after[Slot(g, i - 1)]
  <2>1. u \in Seq(Msg \cup {None}) /\ Len(u) = m
    BY <1>1, <1>2, <1>3, RingIsSeq
  <2>2. \A i \in 1..m : u[i] = after[Slot(g, i - 1)]
    BY <1>1, <1>3 DEF Ring
  <2> QED
    BY <1>1, <2>1, <2>2
<1>7. s # <<>> /\ Head(s) = s[1]
  BY <1>1, <1>5
<1>8. v \in Seq(Msg \cup {None}) /\ Len(v) = m /\ \A i \in 1..m : v[i] = s[i + 1]
  BY <1>1, <1>4, <1>5, <1>7
<1>9. Slot(h, 0) = h
  <2>1. 0 \in 0..usQueueLen
    BY <1>1, <1>2
  <2> QED
    BY <1>1, <1>2, <2>1, Round
<1>10. s[1] = cells[h]
  <2>1. 1 \in 1..n /\ 1 - 1 = 0
    BY <1>1, <1>2
  <2> QED
    BY <1>1, <1>5, <1>9, <2>1
<1>11. ASSUME NEW i \in 1..m PROVE u[i] = v[i]
  <2>1. i \in 1..usQueueLen /\ i \in 0..usQueueLen - 1 /\ 0 \in 0..usQueueLen - 1 /\ i # 0 /\ i \in 0..usQueueLen
    BY <1>1, <1>2
  <2>2. Slot(g, i - 1) = Slot(h, i)
    BY <1>1, <2>1, RoundSteps
  <2>3. Slot(h, i) # Slot(h, 0)
    BY <1>1, <2>1, RoundApart
  <2>4. Slot(h, i) \in 0..usQueueLen - 1
    BY <1>1, <2>1, Round
  <2>5. u[i] = cells[Slot(h, i)]
    BY <1>1, <1>6, <1>9, <2>2, <2>3, <2>4 DEF Changed
  <2>6. i + 1 \in 1..n /\ (i + 1) - 1 = i
    BY <1>1, <1>2
  <2>7. s[i + 1] = cells[Slot(h, i)]
    BY <1>1, <1>5, <2>6
  <2> QED
    BY <1>1, <1>8, <2>5, <2>7
<1>12. u = v
  BY <1>1, <1>6, <1>8, <1>11, SeqEqual
<1> QED
  BY <1>1, <1>3, <1>4, <1>7, <1>10, <1>12

\* Writing at the tail puts a message behind the others.
LEMMA RingTail ==
  ASSUME NEW cells, NEW h, NEW n, NEW after, NEW m, NEW msg, Followed(cells, h, n, after, m, msg)
  PROVE  Ring(after, h, m) = Append(Ring(cells, h, n), msg)
<1> SUFFICES ASSUME cells \in [0..usQueueLen - 1 -> Msg \cup {None}], h \in 0..usQueueLen - 1,
                    n \in 0..usQueueLen - 1, msg \in Msg,
                    NEW t, t = Slot(h, n),
                    after \in [0..usQueueLen - 1 -> Msg \cup {None}],
                    Changed(cells, after, t, msg), m = n + 1
             PROVE  Ring(after, h, m) = Append(Ring(cells, h, n), msg)
  BY DEF Followed, Cells
<1>1. /\ usQueueLen \in Nat /\ usQueueLen > 0 /\ n \in 0..usQueueLen /\ m \in 0..usQueueLen /\ n \in Nat
      /\ after \in [0..usQueueLen - 1 -> Msg \cup {None}]
  <2>1. usQueueLen \in Nat /\ usQueueLen > 0 /\ n \in 0..usQueueLen /\ m \in 0..usQueueLen /\ n \in Nat
    BY QueueAssumption
  <2> QED
    BY <2>1
<1>2. PICK s, u, v : s = Ring(cells, h, n) /\ u = Ring(after, h, m) /\ v = Append(s, msg)
  OBVIOUS
<1>3. /\ s \in Seq(Msg \cup {None}) /\ Len(s) = n
      /\ \A i \in 1..n : s[i] = cells[Slot(h, i - 1)]
  <2>1. s \in Seq(Msg \cup {None}) /\ Len(s) = n
    BY <1>1, <1>2, RingIsSeq
  <2>2. \A i \in 1..n : s[i] = cells[Slot(h, i - 1)]
    BY <1>2 DEF Ring
  <2> QED
    BY <2>1, <2>2
<1>4. /\ u \in Seq(Msg \cup {None}) /\ Len(u) = m
      /\ \A i \in 1..m : u[i] = after[Slot(h, i - 1)]
  <2>1. u \in Seq(Msg \cup {None}) /\ Len(u) = m
    BY <1>1, <1>2, RingIsSeq
  <2>2. \A i \in 1..m : u[i] = after[Slot(h, i - 1)]
    BY <1>2 DEF Ring
  <2> QED
    BY <2>1, <2>2
<1>5. /\ v \in Seq(Msg \cup {None}) /\ Len(v) = m /\ v[m] = msg
      /\ \A i \in 1..n : v[i] = s[i]
  BY <1>2, <1>3
<1>6. t \in 0..usQueueLen - 1
  BY <1>1, Round
<1>7. ASSUME NEW i \in 1..m PROVE u[i] = v[i]
  <2>1. CASE i = m
    <3>1. i - 1 = n
      BY <1>1, <2>1
    <3> QED
      BY <1>4, <1>5, <1>6, <2>1, <3>1 DEF Changed
  <2>2. CASE i # m
    <3>1. i \in 1..n /\ i - 1 \in 0..usQueueLen - 1 /\ i - 1 # n /\ i - 1 \in 0..usQueueLen
      BY <1>1, <2>2
    <3>2. Slot(h, i - 1) # t
      BY <3>1, RoundApart
    <3>3. Slot(h, i - 1) \in 0..usQueueLen - 1
      BY <3>1, Round
    <3> QED
      BY <1>3, <1>4, <1>5, <3>1, <3>2, <3>3 DEF Changed
  <2> QED
    BY <2>1, <2>2
<1>8. u = v
  BY <1>4, <1>5, <1>7, SeqEqual
<1> QED
  BY <1>2, <1>8

\* Writing at the head puts it before them.
LEMMA RingHead ==
  ASSUME NEW cells, NEW h, NEW n, NEW after, NEW g, NEW m, NEW msg, Preceded(cells, h, n, after, g, m, msg)
  PROVE  Ring(after, g, m) = <<msg>> \o Ring(cells, h, n)
<1>1. /\ cells \in [0..usQueueLen - 1 -> Msg \cup {None}] /\ after \in [0..usQueueLen - 1 -> Msg \cup {None}]
      /\ h \in 0..usQueueLen - 1 /\ n \in 0..usQueueLen - 1 /\ msg \in Msg
      /\ Changed(cells, after, g, msg) /\ g = Down(h) /\ m = n + 1
  BY DEF Preceded, Cells
<1>2. /\ usQueueLen \in Nat /\ usQueueLen > 0 /\ n \in 0..usQueueLen /\ m \in 0..usQueueLen /\ n \in Nat
      /\ g \in 0..usQueueLen - 1
      /\ after \in [0..usQueueLen - 1 -> Msg \cup {None}]
  <2>1. usQueueLen \in Nat /\ usQueueLen > 0 /\ g \in 0..usQueueLen - 1
    BY <1>1, QueueAssumption, RoundSteps
  <2> QED
    BY <1>1, <2>1
<1>3. PICK s, u, v : s = Ring(cells, h, n) /\ u = Ring(after, g, m) /\ v = <<msg>> \o s
  OBVIOUS
<1>4. /\ s \in Seq(Msg \cup {None}) /\ Len(s) = n
      /\ \A i \in 1..n : s[i] = cells[Slot(h, i - 1)]
  <2>1. s \in Seq(Msg \cup {None}) /\ Len(s) = n
    BY <1>1, <1>2, <1>3, RingIsSeq
  <2>2. \A i \in 1..n : s[i] = cells[Slot(h, i - 1)]
    BY <1>1, <1>3 DEF Ring
  <2> QED
    BY <1>1, <2>1, <2>2
<1>5. /\ u \in Seq(Msg \cup {None}) /\ Len(u) = m
      /\ \A i \in 1..m : u[i] = after[Slot(g, i - 1)]
  <2>1. u \in Seq(Msg \cup {None}) /\ Len(u) = m
    BY <1>1, <1>2, <1>3, RingIsSeq
  <2>2. \A i \in 1..m : u[i] = after[Slot(g, i - 1)]
    BY <1>1, <1>3 DEF Ring
  <2> QED
    BY <1>1, <2>1, <2>2
<1>6. /\ v \in Seq(Msg \cup {None}) /\ Len(v) = m /\ v[1] = msg
      /\ \A i \in 2..m : v[i] = s[i - 1]
  <2>1. <<msg>> \in Seq(Msg \cup {None}) /\ Len(<<msg>>) = 1 /\ <<msg>>[1] = msg
    BY <1>1
  <2>2. /\ v \in Seq(Msg \cup {None}) /\ Len(v) = 1 + n
        /\ \A i \in 1..1 + n : v[i] = IF i <= 1 THEN <<msg>>[i] ELSE s[i - 1]
    BY <1>1, <1>3, <1>4, <2>1, ConcatProperties
  <2> QED
    BY <1>1, <1>2, <2>1, <2>2
<1>7. /\ Slot(g, 0) = g
      /\ \A i \in 1..m : Slot(g, i - 1) \in 0..usQueueLen - 1
  <2>1. 0 \in 0..usQueueLen /\ \A i \in 1..m : i - 1 \in 0..usQueueLen
    BY <1>1, <1>2
  <2>2. Slot(g, 0) = g
    BY <1>1, <1>2, <2>1, Round
  <2>3. ASSUME NEW i \in 1..m PROVE Slot(g, i - 1) \in 0..usQueueLen - 1
    <3>1. i - 1 \in 0..usQueueLen
      BY <1>1, <2>1
    <3> QED
      BY <1>1, <1>2, <3>1, Round
  <2> QED
    BY <1>1, <2>2, <2>3
<1>8. ASSUME NEW i \in 1..m PROVE u[i] = v[i]
  <2>1. CASE i = 1
    <3>1. i - 1 = 0
      BY <1>1, <2>1
    <3> QED
      BY <1>1, <1>2, <1>5, <1>6, <1>7, <2>1, <3>1 DEF Changed
  <2>2. CASE i # 1
    <3>1. PICK j : j = i - 2
      OBVIOUS
    <3>2. /\ j \in 0..usQueueLen - 1 /\ i - 1 = j + 1 /\ i - 1 \in 1..n /\ (i - 1) - 1 = j /\ i \in 2..m
          /\ i - 1 \in 0..usQueueLen - 1 /\ i - 1 # 0 /\ 0 \in 0..usQueueLen - 1
      BY <1>1, <1>2, <2>2, <3>1
    <3>3. Slot(g, j + 1) = Slot(h, j)
      BY <1>1, <3>2, RoundSteps
    <3>4. Slot(g, i - 1) # Slot(g, 0)
      BY <1>1, <1>2, <3>2, RoundApart
    <3>5. u[i] = cells[Slot(h, j)]
      BY <1>1, <1>5, <1>7, <3>2, <3>3, <3>4 DEF Changed
    <3>6. s[i - 1] = cells[Slot(h, j)]
      BY <1>1, <1>4, <3>2
    <3> QED
      BY <1>1, <1>6, <3>2, <3>5, <3>6
  <2> QED
    BY <1>1, <2>1, <2>2
<1>9. u = v
  BY <1>1, <1>5, <1>6, <1>8, SeqEqual
<1> QED
  BY <1>1, <1>3, <1>9

\* The messages of a queue fit into it.
LEMMA LoadFits ==
  ASSUME CellsInv, Links(k), NEW q \in Queue
  PROVE  queue[q] \in QueueBlock /\ Load(q) \in 0..usQueueLen
<1>1. /\ CellsOK(q) /\ queue[q] \in QueueBlock
      /\ queue[q].able.read \in Nat /\ queue[q].able.write \in Nat
      /\ Ready(q, "read") \in Nat /\ Ready(q, "write") \in Nat
  BY ReadyCounts DEF CellsInv, QueueBlock, Side
<1>2. PICK a, b, c, d : a = queue[q].able.read /\ b = queue[q].able.write /\ c = Ready(q, "read") /\ d = Ready(q, "write")
  OBVIOUS
<1>3. usQueueLen = a + b + c + d /\ a \in Nat /\ b \in Nat /\ c \in Nat /\ d \in Nat
  BY <1>1, <1>2 DEF CellsOK
<1>4. a + c \in 0..usQueueLen
  BY <1>3
<1> QED
  BY <1>1, <1>2, <1>4 DEF Load

\* All of them, before and after a step.
LoadsFit == \A q \in Queue : queue[q] \in QueueBlock /\ Load(q) \in 0..usQueueLen

\* LoadFits as a formula about one state,
LEMMA LoadsNow == CellsInv /\ Links(k) => LoadsFit
BY LoadFits DEF LoadsFit

\* and about the next one.
LEMMA LoadsThen == CellsInv' /\ Links(k)' => LoadsFit'
BY LoadsNow, PTL

\* The promised queue is the ring.
ContentsInv == \A q \in Queue : Contents(q) = Ring(queue[q].cells, queue[q].head, Load(q))

\* In every state,
LEMMA ContentsNow == ContentsInv
<1>1. \A q \in Queue : Woken(q, "read") = Ready(q, "read")
  BY WokenAreReady DEF Side
<1> QED
  BY <1>1 DEF ContentsInv, Contents, Ring, Load, Slot

\* and in the next one.
LEMMA ContentsThen == ContentsInv'
BY ContentsNow, PTL

\* A step of the queues is one of the promise, for each of them.
Keeps(q) == [Promise(q)!Next]_<<Contents(q), out[q]>>

\* A queue that rests keeps its messages.
LEMMA RestingKeeps ==
  ASSUME RingInv, NEW q \in Queue, Rests(q), out'[q] = out[q]
  PROVE  RingOK(q)' /\ Keeps(q)
<1>1. RingOK(q)'
  BY DEF RingInv, RingOK, Rests
<1>2. Contents(q) = Ring(queue[q].cells, queue[q].head, Load(q))
  BY ContentsNow DEF ContentsInv
<1>3. Contents(q)' = Ring(queue'[q].cells, queue'[q].head, Load(q)')
  BY ContentsThen DEF ContentsInv
<1>4. Contents(q)' = Contents(q)
  BY <1>2, <1>3 DEF Rests
<1> QED
  BY <1>1, <1>4 DEF Keeps

\* A queue that is created or deleted loses them.
LEMMA EmptyingKeeps ==
  ASSUME RingInv, NEW q \in Queue, Emptied(q), out' = out
  PROVE  RingOK(q)' /\ Keeps(q)
<1>1. RingOK(q)'
  <2>1. usQueueLen \in Nat /\ usQueueLen > 0
    BY QueueAssumption
  <2>2. 0 \in 0..usQueueLen - 1 /\ 0 \in 0..usQueueLen
    BY <2>1
  <2>3. Slot(0, 0) = 0
    BY <2>1, <2>2, Round
  <2> QED
    BY <2>3 DEF RingOK, Emptied
<1>2. Contents(q)' = Ring(queue'[q].cells, queue'[q].head, 0)
  BY ContentsThen DEF ContentsInv, Emptied
<1>3. Contents(q)' = <<>>
  <2>1. PICK s : s = Ring(queue'[q].cells, queue'[q].head, 0)
    OBVIOUS
  <2>2. s = [i \in {} |-> queue'[q].cells[Slot(queue'[q].head, i - 1)]]
    <3>1. 1..0 = {}
      OBVIOUS
    <3> QED
      BY <2>1, <3>1 DEF Ring
  <2>3. s = <<>>
    BY <2>2
  <2> QED
    BY <1>2, <2>1, <2>3
<1>4. Promise(q)!Discard
  BY <1>3 DEF Promise!Discard
<1> QED
  BY <1>1, <1>4 DEF Keeps, Promise!Next

\* A read delivers the first message; a write adds one at its end.
LEMMA OperatingKeeps ==
  ASSUME RingInv, LoadsFit, LoadsFit', NEW q \in Queue, NEW op \in Op, Operated(q, op)
  PROVE  RingOK(q)' /\ Keeps(q)
<1>1. PICK b, h, t : b = queue[q].cells /\ h = queue[q].head /\ t = queue[q].tail
  OBVIOUS
<1>2. PICK c, g, e : c = queue'[q].cells /\ g = queue'[q].head /\ e = queue'[q].tail
  OBVIOUS
<1>3. PICK n, m : n = Load(q) /\ m = Load(q)'
  OBVIOUS
<1>4. /\ b \in [0..usQueueLen - 1 -> Msg \cup {None}] /\ h \in 0..usQueueLen - 1
      /\ t \in 0..usQueueLen - 1 /\ n \in 0..usQueueLen
      /\ c \in [0..usQueueLen - 1 -> Msg \cup {None}] /\ g \in 0..usQueueLen - 1
      /\ e \in 0..usQueueLen - 1 /\ m \in 0..usQueueLen
      /\ usQueueLen \in Nat /\ usQueueLen > 0
  <2>1. usQueueLen \in Nat /\ usQueueLen > 0
    BY QueueAssumption
  <2>2. queue[q] \in QueueBlock /\ Load(q) \in 0..usQueueLen
    BY DEF LoadsFit
  <2>3. queue'[q] \in QueueBlock /\ Load(q)' \in 0..usQueueLen
    BY DEF LoadsFit
  <2>4. /\ b \in [0..usQueueLen - 1 -> Msg \cup {None}] /\ h \in 0..usQueueLen - 1
        /\ t \in 0..usQueueLen - 1 /\ n \in 0..usQueueLen
    BY <1>1, <1>3, <2>2 DEF QueueBlock
  <2>5. /\ c \in [0..usQueueLen - 1 -> Msg \cup {None}] /\ g \in 0..usQueueLen - 1
        /\ e \in 0..usQueueLen - 1 /\ m \in 0..usQueueLen
    BY <1>2, <1>3, <2>3 DEF QueueBlock
  <2> QED
    BY <2>1, <2>4, <2>5
<1>5. t = Slot(h, n) /\ out \in [Queue -> Msg \cup {None}]
  BY <1>1, <1>3 DEF RingInv, RingOK
<1>6. /\ \/ op.kind = "read" /\ c = [b EXCEPT ![h] = None] /\ g = Up(h) /\ e = t
         \/ op.kind = "tail" /\ c = [b EXCEPT ![t] = op.msg] /\ g = h /\ e = Up(t)
         \/ op.kind = "head" /\ c = [b EXCEPT ![Down(h)] = op.msg] /\ g = Down(h) /\ e = t
      /\ m = IF op.kind = "read" THEN n - 1 ELSE n + 1
      /\ out' = IF op.kind = "read" THEN [out EXCEPT ![q] = b[h]] ELSE out
  BY <1>1, <1>2, <1>3 DEF Operated, Turned
<1>7. op.kind \in {"read", "tail", "head"} /\ (op.kind # "read" => op.msg \in Msg)
  BY DEF Op
<1>8. PICK s, u : s = Contents(q) /\ u = Contents(q)'
  OBVIOUS
<1>9. s = Ring(b, h, n) /\ u = Ring(c, g, m)
  BY <1>1, <1>2, <1>3, <1>8, ContentsNow, ContentsThen DEF ContentsInv
<1>10. SUFFICES e = Slot(g, m) /\ Keeps(q)
  BY <1>1, <1>2, <1>3 DEF RingOK
<1>11. s \in Seq(Msg \cup {None}) /\ Len(s) = n
  BY <1>4, <1>9, RingIsSeq
<1>12. CASE op.kind = "read"
  <2>1. /\ c = [b EXCEPT ![h] = None] /\ g = Up(h) /\ e = t
        /\ m = n - 1 /\ out'[q] = b[h]
    BY <1>5, <1>6, <1>12
  <2>2. n = m + 1 /\ m \in 0..usQueueLen - 1 /\ n \in 1..usQueueLen
    BY <1>4, <2>1
  <2>3. s # <<>> /\ Head(s) = b[h] /\ u = Tail(s)
    <3>1. Changed(b, c, h, None)
      BY <1>4, <2>1 DEF Changed
    <3>2. g = Up(h)
      BY <2>1
    <3>3. /\ Ring(b, h, n) # <<>> /\ Head(Ring(b, h, n)) = b[h]
          /\ Ring(c, g, m) = Tail(Ring(b, h, n))
      <4>1. Advanced(b, h, n, c, g, m)
        BY <1>4, <2>2, <3>1, <3>2 DEF Advanced, Cells
      <4> QED
        BY <4>1, RingRead
    <3> QED
      BY <1>9, <3>3
  <2>4. e = Slot(g, m)
    <3>1. Slot(Up(h), n - 1) = Slot(h, n)
      BY <1>4, <2>2, RoundSteps
    <3> QED
      BY <1>5, <2>1, <3>1
  <2>5. Promise(q)!Take
    BY <1>8, <2>1, <2>3 DEF Promise!Take
  <2> QED
    BY <2>4, <2>5 DEF Keeps, Promise!Next
<1>13. CASE op.kind = "tail"
  <2>1. /\ c = [b EXCEPT ![t] = op.msg] /\ g = h /\ e = Up(t)
        /\ m = n + 1 /\ out' = out /\ op.msg \in Msg
    BY <1>6, <1>7, <1>13
  <2>2. n \in 0..usQueueLen - 1
    BY <1>4, <2>1
  <2>3. u = Append(s, op.msg)
    <3>1. Changed(b, c, t, op.msg)
      BY <1>4, <2>1 DEF Changed
    <3>2. m = n + 1 /\ op.msg \in Msg /\ t = Slot(h, n) /\ g = h
      BY <1>5, <2>1
    <3>3. Ring(c, h, m) = Append(Ring(b, h, n), op.msg)
      <4>1. Followed(b, h, n, c, m, op.msg)
        BY <1>4, <2>2, <3>1, <3>2 DEF Followed, Cells
      <4> QED
        BY <4>1, RingTail
    <3> QED
      BY <1>9, <3>2, <3>3
  <2>4. e = Slot(g, m)
    <3>1. Up(Slot(h, n)) = Slot(h, n + 1)
      BY <1>4, <2>2, RoundSteps
    <3> QED
      BY <1>5, <2>1, <3>1
  <2>5. Promise(q)!Put
    <3>1. Len(s) < usQueueLen
      BY <1>4, <1>11, <2>2
    <3> QED
      BY <1>8, <2>1, <2>3, <3>1 DEF Promise!Put
  <2> QED
    BY <2>4, <2>5 DEF Keeps, Promise!Next
<1>14. CASE op.kind = "head"
  <2>1. /\ c = [b EXCEPT ![Down(h)] = op.msg] /\ g = Down(h) /\ e = t
        /\ m = n + 1 /\ out' = out /\ op.msg \in Msg
    BY <1>6, <1>7, <1>14
  <2>2. n \in 0..usQueueLen - 1
    BY <1>4, <2>1
  <2>3. u = <<op.msg>> \o s
    <3>1. Changed(b, c, g, op.msg)
      BY <1>4, <2>1 DEF Changed
    <3>2. m = n + 1 /\ op.msg \in Msg /\ g = Down(h)
      BY <2>1
    <3>3. Ring(c, g, m) = <<op.msg>> \o Ring(b, h, n)
      <4>1. Preceded(b, h, n, c, g, m, op.msg)
        BY <1>4, <2>2, <3>1, <3>2 DEF Preceded, Cells
      <4> QED
        BY <4>1, RingHead
    <3> QED
      BY <1>9, <3>2, <3>3
  <2>4. e = Slot(g, m)
    <3>1. Slot(Down(h), n + 1) = Slot(h, n)
      BY <1>4, <2>2, RoundSteps
    <3> QED
      BY <1>5, <2>1, <3>1
  <2>5. Promise(q)!Put
    <3>1. Len(s) < usQueueLen
      BY <1>4, <1>11, <2>2
    <3> QED
      BY <1>8, <2>1, <2>3, <3>1 DEF Promise!Put
  <2> QED
    BY <2>4, <2>5 DEF Keeps, Promise!Next
<1> QED
  BY <1>7, <1>12, <1>13, <1>14

\* One queue at most does something, and every queue keeps its promise.
LEMMA RingsTurn ==
  ASSUME RingInv, LoadsFit, LoadsFit', OneTurns
  PROVE  RingInv' /\ \A q \in Queue : Keeps(q)
<1>1. CASE out' = out /\ \A p \in Queue : Rests(p)
  BY <1>1, RestingKeeps DEF RingInv
<1>2. ASSUME NEW q \in Queue, \A p \in Queue : p # q => Rests(p),
             (out' = out /\ Emptied(q)) \/ \E op \in Op : Operated(q, op)
      PROVE  RingInv' /\ \A p \in Queue : Keeps(p)
  <2>1. RingOK(q)' /\ Keeps(q)
    BY <1>2, EmptyingKeeps, OperatingKeeps
  <2>2. PICK v : v = queue[q].cells[queue[q].head]
    OBVIOUS
  <2>3. v \in Msg \cup {None}
    BY <2>2 DEF LoadsFit, QueueBlock
  <2>4. out' = [out EXCEPT ![q] = v] \/ out' = out
    BY <1>2, <2>2 DEF Operated
  <2>5. out' \in [Queue -> Msg \cup {None}] /\ \A p \in Queue : p # q => out'[p] = out[p]
    BY <2>3, <2>4 DEF RingInv
  <2>6. ASSUME NEW p \in Queue, p # q PROVE RingOK(p)' /\ Keeps(p)
    BY <1>2, <2>5, <2>6, RestingKeeps
  <2> QED
    BY <2>1, <2>5, <2>6 DEF RingInv
<1> QED
  BY <1>1, <1>2 DEF OneTurns

\* At the start the queues are empty, as promised.
LEMMA RingsStart ==
  ASSUME Init
  PROVE  RingInv /\ \A q \in Queue : Promise(q)!Init
<1>1. CellsInv /\ Links(k)
  BY ObjectsStart, InitHolds DEF ObjectsInv, Inv, TasksInv
<1>2. queue = [q \in Queue |-> Fresh] /\ out = [q \in Queue |-> None]
  BY DEF Init, QueueInit
<1>3. usQueueLen \in Nat /\ usQueueLen > 0 /\ None \notin Msg
  BY QueueAssumption
<1>4. ASSUME NEW q \in Queue PROVE queue[q].head = 0 /\ queue[q].tail = 0 /\ Load(q) = 0
  <2>1. /\ queue[q].head = 0 /\ queue[q].tail = 0
        /\ queue[q].able.read = 0 /\ queue[q].able.write = usQueueLen
    BY <1>2 DEF Fresh
  <2>2. Ready(q, "read") \in Nat /\ Ready(q, "write") \in Nat
    BY <1>1, ReadyCounts DEF Side
  <2>3. usQueueLen = queue[q].able.read + queue[q].able.write + Ready(q, "read") + Ready(q, "write")
    BY <1>1 DEF CellsInv, CellsOK
  <2>4. Ready(q, "read") = 0
    BY <1>3, <2>1, <2>2, <2>3
  <2> QED
    BY <2>1, <2>4 DEF Load
<1>5. ASSUME NEW q \in Queue PROVE RingOK(q) /\ Promise(q)!Init
  <2>1. 0 \in 0..usQueueLen - 1 /\ 0 \in 0..usQueueLen
    BY <1>3
  <2>2. Slot(0, 0) = 0
    BY <1>3, <2>1, Round
  <2>3. Contents(q) = Ring(queue[q].cells, 0, 0)
    BY <1>4, ContentsNow DEF ContentsInv
  <2>4. Ring(queue[q].cells, 0, 0) = <<>>
    <3>1. PICK s : s = Ring(queue[q].cells, 0, 0)
      OBVIOUS
    <3>2. s = [i \in {} |-> queue[q].cells[Slot(0, i - 1)]]
      <4>1. 1..0 = {}
        OBVIOUS
      <4> QED
        BY <3>1, <4>1 DEF Ring
    <3>3. s = <<>>
      BY <3>2
    <3> QED
      BY <3>1, <3>3
  <2>5. out[q] \notin Msg
    BY <1>2, <1>3
  <2> QED
    BY <1>4, <2>2, <2>3, <2>4, <2>5 DEF RingOK, Promise!Init
<1>6. out \in [Queue -> Msg \cup {None}]
  BY <1>2
<1> QED
  BY <1>5, <1>6 DEF RingInv

-----------------------------------------------------------------------------
(* The theorems                                                            *)

\* The invariant of the objects is kept by every call, tick and interrupt, as
\* long as no task is deleted.
THEOREM ObjectsHold == Spec /\ MailsUnlocked => [](TasksStay => ObjectsInv)
<1>1. Init => ObjectsInv
  BY ObjectsStart
<1>2. Inv /\ Inv' /\ (TasksStay => ObjectsInv) /\ [Next]_vars => (TasksStay' => ObjectsInv')
  <2>1. ASSUME Inv, Inv', TasksStay => ObjectsInv, [Next]_vars, TasksStay' PROVE ObjectsInv'
    <3>1. TasksStay
      BY <2>1, SameCalls
    <3> QED
      BY <2>1, <3>1, ObjectsStep
  <2> QED
    BY <2>1
<1> QED
  BY <1>1, <1>2, InvHolds, PTL DEF Spec

\* Where no task is deleted, the invariants hold throughout.
LEMMA StayingObjects == Spec /\ MailsUnlocked /\ TasksStay => [](Inv /\ ObjectsInv)
<1>1. TasksStay /\ [Next]_vars => TasksStay'
  BY SameCalls
<1>2. Spec /\ TasksStay => []TasksStay
  BY <1>1, PTL DEF Spec
<1> QED
  BY <1>2, InvHolds, ObjectsHold, PTL

\* In such an application a mutex is locked by its owner alone, as often as its
\* calls say, and who writes under a read-write lock is alone (LOS_MuxPend and
\* LOS_MuxPost in los_mux.c, the four calls of los_rwlock.c), for every number of
\* tasks and objects, whatever timeouts and hand-overs come in which order.
THEOREM Exclusion == Spec /\ MailsUnlocked /\ TasksStay => []HoldersExclude
<1>1. Inv /\ ObjectsInv => HoldersExclude
  BY HoldersHold
<1> QED
  BY <1>1, StayingObjects, PTL

\* No task sleeps on what is there: a count, bits, a cell or an open lock (the
\* conditions before osTaskWait in the pending calls, against what the posting
\* calls and the tick of los_task.c do while the task is in the list).
THEOREM NoSleeperIsForgotten == Spec /\ MailsUnlocked /\ TasksStay => []NobodySleepsOnWhatIsThere
<1>1. Inv /\ ObjectsInv => NobodySleepsOnWhatIsThere
  BY SleepersHold
<1> QED
  BY <1>1, StayingObjects, PTL

\* Every accepted post is used once: it is counted, or on its way to one task
\* (osSemPost and LOS_SemPend in los_sem.c against the timeout of the wait).
THEOREM PostsAreUsedOnce == Spec /\ MailsUnlocked => []EveryPostIsUsedOnce
<1>1. Inv /\ (TasksStay => ObjectsInv) => EveryPostIsUsedOnce
  BY PostsHold
<1> QED
  BY <1>1, InvHolds, ObjectsHold, PTL

\* Every cell of a queue and every mail block is free, used, or on its way to
\* one task (osQueueOperate, osQueueMailAlloc and osQueueMailFree in los_queue.c).
THEOREM CellsAndBlocksStay == Spec /\ MailsUnlocked /\ TasksStay => []QueuesLoseNothing
<1>1. Inv /\ ObjectsInv => QueuesLoseNothing
  BY QueuesHold
<1> QED
  BY <1>1, StayingObjects, PTL

\* Where mutexes are unlocked in the reverse order, a task without one has the
\* priority it was created with (the inheritance in LOS_MuxPend and LOS_MuxPost).
THEOREM InheritanceEnds == Spec /\ MailsUnlocked /\ TasksStay => []PriorityIsGivenBack
<1>1. Inv /\ ObjectsInv => PriorityIsGivenBack
  BY PrioritiesHold
<1> QED
  BY <1>1, StayingObjects, PTL

\* A queue is a list of messages: whatever the order in which waiting readers and
\* writers come to run, each message is delivered once, in the order of the ring,
\* and the list never exceeds the length (osQueueBufferOperate and osQueueOperate
\* in los_queue.c implement MessageQueue).
THEOREM QueueImplemented == Spec /\ MailsUnlocked /\ TasksStay => QueueIsAMessageQueue
<1>1. Init => RingInv /\ \A q \in Queue : Promise(q)!Init
  BY RingsStart
<1>2. Inv /\ Inv' /\ ObjectsInv /\ ObjectsInv' /\ TasksStay /\ RingInv /\ [Next]_vars
        => RingInv' /\ \A q \in Queue : [Promise(q)!Next]_<<Contents(q), out[q]>>
  <2>1. ASSUME Inv, Inv', ObjectsInv, ObjectsInv', TasksStay, RingInv, [Next]_vars
        PROVE  RingInv' /\ \A q \in Queue : [Promise(q)!Next]_<<Contents(q), out[q]>>
    <3>1. OneTurns
      BY <2>1, ObjectsStep
    <3>2. CellsInv /\ CellsInv' /\ Links(k) /\ Links(k)'
      BY <2>1 DEF Inv, TasksInv, ObjectsInv
    <3>3. LoadsFit /\ LoadsFit'
      BY <3>2, LoadsNow, LoadsThen
    <3> QED
      BY <2>1, <3>1, <3>3, RingsTurn DEF Keeps
  <2> QED
    BY <2>1
<1>3. TasksStay /\ [Next]_vars => TasksStay'
  BY SameCalls
<1> QED
  BY <1>1, <1>2, <1>3, StayingObjects, PTL DEF Spec, QueueIsAMessageQueue
=============================================================================
