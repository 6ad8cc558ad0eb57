----------------------------- MODULE KernelTasks -----------------------------
(***************************************************************************)
(* The task layer of the LiteOS kernel the terminal runs on: the states of *)
(* the tasks, the ready lists, the pend lists of the kernel objects, the   *)
(* scheduler and the part of the tick that ends waits and time slices.     *)
(*                                                                         *)
(* The kernel's state is one record, so that a call is a composition of    *)
(* the source's own functions on it.  Code between LOS_IntLock and         *)
(* LOS_IntRestore is one step; the tick and the interrupts come between    *)
(* such pieces, in particular between a change and the LOS_Schedule after  *)
(* it.  How long a wait lasts is left open here (see KernelTimers).        *)
(***************************************************************************)
EXTENDS Integers, SequencesExt

CONSTANTS
  Task,          \* the application's tasks
  Idle,          \* the idle task, alone on the lowest priority
  Lowest,        \* OS_TASK_PRIORITY_LOWEST; 0 is the most urgent
  PendList,      \* the lists of the kernel objects that tasks wait in
  MaxLock,       \* bound on nested LOS_TaskLock
  Application,   \* the applications: [calls, prio, timeouts, handles], the calls they
                 \* make, the tasks' priorities, the timeouts and the objects they use
  None

\* The last argument of a call that may wait: LOS_NO_WAIT, some ticks, or
\* LOS_WAIT_FOREVER.
Timeout == {"none", "ticks", "forever"}

ASSUME TasksAssumption ==
  /\ Idle \notin Task
  /\ None \notin Task
  /\ IsFiniteSet(Task)
  /\ Lowest \in Nat
  /\ MaxLock \in Nat
  /\ \A a \in Application : a.prio \in [Task -> 0..Lowest - 1] /\ a.timeouts \subseteq Timeout

VARIABLES
  k,     \* the kernel's state, see TypeOK
  at,    \* at[t]: "app", or in a call before ("sched") or behind ("check") its LOS_Schedule
  wait,  \* wait[t]: what the call of t waits for: a pend list and the call's arguments
  app    \* the application of this behaviour, never changed

taskVars == <<k, at, wait, app>>

AnyTask == Task \cup {Idle}
For(list, arguments) == <<list, arguments>>
ASSUME WaitAssumption == \A list \in PendList : For(list, None) # None
Blocking == {"PEND", "PEND_QUEUE", "DELAY"}
Flag == Blocking \cup {"READY", "SUSPEND", "TIMEOUT", "UNUSED"}

-----------------------------------------------------------------------------
(* Functions of the source, on a kernel state s.                           *)

OnList(list, t) == \E i \in DOMAIN list : list[i] = t

\* A task is on a list once at most.
Without(list, t) ==
  IF OnList(list, t) THEN RemoveAt(list, CHOOSE i \in DOMAIN list : list[i] = t) ELSE list

osPriqueueEnqueue(s, t) ==
  [s EXCEPT !.status[t] = @ \cup {"READY"}, !.ready[s.prio[t]] = Append(@, t)]

osPriqueueDequeue(s, t) ==
  [s EXCEPT !.status[t] = @ \ {"READY"}, !.ready[s.prio[t]] = Without(@, t)]

osPriqueueTop(s) ==
  Head(s.ready[CHOOSE p \in 0..Lowest : /\ s.ready[p] # <<>>
                                        /\ \A q \in 0..p - 1 : s.ready[q] = <<>>])

LOS_Schedule(s) ==
  IF s.lock = 0 THEN [s EXCEPT !.run = osPriqueueTop(s), !.late = FALSE] ELSE s

osTaskPriModify(s, t, p) ==
  IF "READY" \in s.status[t]
  THEN osPriqueueEnqueue([osPriqueueDequeue(s, t) EXCEPT !.prio[t] = p], t)
  ELSE [s EXCEPT !.prio[t] = p]

osTaskWait(s, list, flag, timed) ==
  LET t == s.run IN
  [osPriqueueDequeue(s, t) EXCEPT
     !.status[t] = @ \cup {flag} \cup (IF timed THEN {"TIMEOUT"} ELSE {}),
     !.pend[list] = Append(@, t),
     !.timers = IF timed THEN @ \cup {t} ELSE @]

Unlink(s, t) == [s EXCEPT !.pend = [l \in PendList |-> Without(@[l], t)],
                          !.timers = @ \ {t}]

EnqueueUnlessSuspended(s, t) ==
  IF "SUSPEND" \in s.status[t] THEN s ELSE osPriqueueEnqueue(s, t)

\* Mutant: the sort link of the wait stays.
osTaskWake_linked(s, t, flag) ==
  EnqueueUnlessSuspended([s EXCEPT !.pend = [l \in PendList |-> Without(@[l], t)],
                                   !.status[t] = @ \ {flag, "TIMEOUT"}], t)

\* The wait of t is over.
Resumed(s, t, flags) == EnqueueUnlessSuspended([Unlink(s, t) EXCEPT !.status[t] = @ \ flags], t)

osTaskWake(s, t, flag) == Resumed(s, t, {flag, "TIMEOUT"})

\* A loop over a list that wakes those of its tasks that are in who.
WakeAll(s, list, who, flag) ==
  LET woken[i \in 0..Len(list)] ==
        IF i = 0 THEN s
        ELSE IF list[i] \in who THEN osTaskWake(woken[i - 1], list[i], flag)
        ELSE woken[i - 1]
  IN  woken[Len(list)]

\* The tick finds the wait of t over.  The flag TIMEOUT stays: it is what
\* the call looks at when t runs again.
osTaskScan(s, t) ==
  LET over == Resumed(s, t, Blocking)
  IN  IF "SUSPEND" \in s.status[t] THEN over ELSE LOS_Schedule(over)

-----------------------------------------------------------------------------
(* Where the running task is.                                              *)

\* The running task makes a call of this family.
Calls(family) == /\ ~k.fault
                 /\ k.run \in Task
                 /\ at[k.run] = "app"
                 /\ family \in app.calls

\* An interrupt handler makes a call: LOS_Schedule does nothing in it.
InterruptCalls(family) == /\ ~k.fault
                          /\ {family, "interrupt"} \subseteq app.calls

\* The call has set the state s; LOS_Schedule is next, then the check of w.
ThenSchedule(s, w) == /\ k' = s
                      /\ at' = [at EXCEPT ![k.run] = "sched"]
                      /\ wait' = [wait EXCEPT ![k.run] = w]

\* The call has set the state s and returns.
ThenReturn(s) == /\ k' = s
                 /\ at' = [at EXCEPT ![k.run] = "app"]
                 /\ wait' = [wait EXCEPT ![k.run] = None]

\* An interrupt handler has set the state s: whoever it woke waits for the
\* next LOS_Schedule.
ThenResume(s) == /\ k' = [s EXCEPT !.late = TRUE]
                 /\ UNCHANGED <<at, wait>>

\* The running task is behind the LOS_Schedule of a wait for w.
Checks(w) == /\ ~k.fault
             /\ k.run \in Task
             /\ at[k.run] = "check"
             /\ wait[k.run] = w

TimedOut(t) == "TIMEOUT" \in k.status[t]
Cleared(s) == [s EXCEPT !.status[s.run] = @ \ {"TIMEOUT"}]

\* t was taken off the list it waited in by whoever gave it the object, and
\* its call has not returned yet.
Granted(t, w) == /\ wait[t] = w
                 /\ Blocking \cap k.status[t] = {}
                 /\ ~TimedOut(t)

-----------------------------------------------------------------------------

TasksInit ==
  /\ app \in Application
  /\ LET on(p) == {t \in Task : app.prio[t] = p} IN
     k = LOS_Schedule([status |-> [t \in AnyTask |-> {"READY"}],
                       prio   |-> [t \in AnyTask |-> IF t = Idle THEN Lowest ELSE app.prio[t]],
                       ready  |-> [p \in 0..Lowest |->
                                     IF p = Lowest THEN <<Idle>> ELSE SetToSeq(on(p))],
                       pend   |-> [l \in PendList |-> <<>>],
                       timers |-> {},
                       run    |-> Idle,
                       lock   |-> 0,
                       late   |-> FALSE,
                       fault  |-> FALSE])
  /\ at = [t \in Task |-> "app"]
  /\ wait = [t \in Task |-> None]

\* The LOS_Schedule at the end of a call.
Reschedule ==
  /\ ~k.fault
  /\ k.run \in Task
  /\ at[k.run] = "sched"
  /\ k' = LOS_Schedule(k)
  /\ at' = [at EXCEPT ![k.run] = IF wait[k.run] = None THEN "app" ELSE "check"]
  /\ UNCHANGED <<wait, app>>

\* A tick ends the wait of a task.
TickEndsWait == \E t \in k.timers :
  /\ ~k.fault
  /\ k' = osTaskScan(k, t)
  /\ UNCHANGED <<at, wait, app>>

Rotated(s) == osPriqueueEnqueue(osPriqueueDequeue(s, s.run), s.run)
CanYield == /\ "READY" \in k.status[k.run]
            /\ Len(k.ready[k.prio[k.run]]) > 1

\* A tick ends the time slice of the running task, wherever it is.
osTimesliceCheck ==
  /\ ~k.fault
  /\ "yield" \in app.calls
  /\ CanYield
  /\ k' = LOS_Schedule(Rotated(k))
  /\ UNCHANGED <<at, wait, app>>

LOS_TaskYield ==
  /\ Calls("yield")
  /\ CanYield
  /\ ThenSchedule(Rotated(k), None)
  /\ UNCHANGED app

LOS_TaskDelay ==
  /\ Calls("delay")
  /\ k.lock = 0
  /\ ThenSchedule([osPriqueueDequeue(k, k.run) EXCEPT !.status[k.run] = @ \cup {"DELAY"},
                                                     !.timers = @ \cup {k.run}], None)
  /\ UNCHANGED app

LOS_TaskSuspend(t) ==
  /\ Calls("suspend")
  /\ {"UNUSED", "SUSPEND"} \cap k.status[t] = {}
  /\ ~(t = k.run /\ k.lock # 0)
  /\ LET off == IF "READY" \in k.status[t] THEN osPriqueueDequeue(k, t) ELSE k
         s   == [off EXCEPT !.status[t] = @ \cup {"SUSPEND"}]
     IN  IF t = k.run THEN ThenSchedule(s, None) ELSE ThenReturn(s)
  /\ UNCHANGED app

\* Mutant: resuming does not schedule.
LOS_TaskResume_quiet(t) ==
  /\ Calls("suspend")
  /\ "SUSPEND" \in k.status[t]
  /\ LET s == [k EXCEPT !.status[t] = @ \ {"SUSPEND"}] IN
     ThenReturn(IF Blocking \cap k.status[t] = {} THEN osPriqueueEnqueue(s, t) ELSE s)
  /\ UNCHANGED app

LOS_TaskResume(t) ==
  /\ Calls("suspend")
  /\ "SUSPEND" \in k.status[t]
  /\ LET s == [k EXCEPT !.status[t] = @ \ {"SUSPEND"}] IN
     IF Blocking \cap k.status[t] = {}
     THEN ThenSchedule(osPriqueueEnqueue(s, t), None)
     ELSE ThenReturn(s)
  /\ UNCHANGED app

LOS_TaskPriSet(t, p) ==
  /\ Calls("priset")
  /\ "UNUSED" \notin k.status[t]
  /\ LET s == osTaskPriModify(k, t, p) IN
     IF "READY" \in k.status[t] THEN ThenSchedule(s, None) ELSE ThenReturn(s)
  /\ UNCHANGED app

LOS_TaskLock ==
  /\ Calls("lock")
  /\ k.lock < MaxLock
  /\ ThenReturn([k EXCEPT !.lock = @ + 1])
  /\ UNCHANGED app

LOS_TaskUnlock ==
  /\ Calls("lock")
  /\ k.lock > 0
  /\ LET s == [k EXCEPT !.lock = @ - 1] IN
     IF s.lock = 0 THEN ThenSchedule(s, None) ELSE ThenReturn(s)
  /\ UNCHANGED app

\* The sort link of a task that has timed out and not run since is unlinked
\* a second time, through null links: the core traps.
LOS_TaskDelete(t) ==
  /\ Calls("delete")
  /\ "UNUSED" \notin k.status[t]
  /\ LET unlocked == IF t = k.run THEN [k EXCEPT !.lock = 0] ELSE k
         off == IF "READY" \in k.status[t] THEN osPriqueueDequeue(unlocked, t) ELSE unlocked
         s == [Unlink(off, t) EXCEPT !.status[t] = {"UNUSED"}]
     IN  IF TimedOut(t) /\ t \notin k.timers
         THEN k' = [k EXCEPT !.fault = TRUE]
         ELSE k' = IF t = k.run THEN LOS_Schedule(s) ELSE s
  /\ at' = [at EXCEPT ![t] = "app"]
  /\ wait' = [wait EXCEPT ![t] = None]
  /\ UNCHANGED app

\* The control block of a deleted task is used again.
LOS_TaskCreate(t) ==
  /\ Calls("delete")
  /\ k.status[t] = {"UNUSED"}
  /\ LET s == osPriqueueEnqueue([k EXCEPT !.status[t] = {}, !.prio[t] = app.prio[t]], t)
     IN  ThenSchedule(s, None)
  /\ UNCHANGED app

TaskCall == \/ LOS_TaskYield \/ LOS_TaskDelay \/ LOS_TaskLock \/ LOS_TaskUnlock
            \/ \E t \in Task : \/ LOS_TaskSuspend(t) \/ LOS_TaskResume(t)
                               \/ LOS_TaskDelete(t) \/ LOS_TaskCreate(t)
                               \/ \E p \in 0..Lowest - 1 : LOS_TaskPriSet(t, p)

TasksNext == Reschedule \/ TickEndsWait \/ osTimesliceCheck \/ TaskCall

-----------------------------------------------------------------------------

\* The type of the kernel's state.
TasksTypeOK ==
  /\ k \in [status : [AnyTask -> SUBSET Flag], prio : [AnyTask -> 0..Lowest],
            ready : [0..Lowest -> Seq(AnyTask)], pend : [PendList -> Seq(Task)],
            timers : SUBSET Task, run : AnyTask, lock : 0..MaxLock,
            late : BOOLEAN, fault : BOOLEAN]
  /\ at \in [Task -> {"app", "sched", "check"}]
  /\ app \in Application

OnListOnce(list, t) == Cardinality({i \in DOMAIN list : list[i] = t}) = 1

\* The state has its type, and the flags of a task say which lists it is linked into: a task is on the
\* ready list of its priority exactly while it is READY, on one pend list
\* exactly while it is PEND or PEND_QUEUE, and on the tick's sort link while
\* it is delayed or waits with a timeout; it is never READY and waiting or
\* suspended at once.  The kernel has one link per task for the ready and
\* the pend lists, and unlinks by the flags: a task whose flags were wrong
\* would be taken off a list it is not in.
FlagsTellTheLists == TasksTypeOK /\
  \A t \in AnyTask :
    LET f == k.status[t]
        waits == {"PEND", "PEND_QUEUE"} \cap f # {}
    IN  /\ \A p \in 0..Lowest :
             IF "READY" \in f /\ p = k.prio[t]
             THEN OnListOnce(k.ready[p], t)
             ELSE ~OnList(k.ready[p], t)
        /\ Cardinality({l \in PendList : OnList(k.pend[l], t)}) = IF waits THEN 1 ELSE 0
        /\ t \in k.timers <=> "DELAY" \in f \/ (waits /\ "TIMEOUT" \in f)
        /\ Cardinality(f \cap (Blocking \cup {"READY", "UNUSED"})) <= 1
        /\ ~({"READY", "SUSPEND"} \subseteq f)

\* Except between a change and the LOS_Schedule that follows it, the most
\* urgent ready task is the one that runs, unless scheduling is locked.  The
\* two exceptions are the code's: a call from an interrupt handler, and
\* LOS_MuxPost that gives a raised priority back and wakes nobody.  Both
\* leave "late" set until the next LOS_Schedule.
MostUrgentRuns ==
  /\ k.lock = 0
  /\ ~k.late
  /\ ~k.fault
  /\ k.run \in Task => at[k.run] # "sched"
  => k.run = osPriqueueTop(k)
=============================================================================
