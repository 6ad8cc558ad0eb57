----------------------------- MODULE KernelEvent -----------------------------
(***************************************************************************)
(* The event control blocks of the LiteOS kernel (ipc/los_event.c).  A     *)
(* write wakes every reader whose condition holds, and each looks again    *)
(* when it runs.                                                           *)
(***************************************************************************)
EXTENDS KernelTasks

CONSTANTS
  Event,   \* the event control blocks
  Bit,     \* the bits of uwEventID that are used
  Read,    \* what the application reads for: [mask, all, clear]
  Written  \* what it writes, and what it keeps when it clears: sets of bits

EventList(e) == <<"event", e>>

VARIABLES
  bits   \* bits[e]: uwEventID, as a set

EventInit == bits = [e \in Event |-> {}]

\* uwMode: all of the mask or any of it, and whether a read clears.
ASSUME EventAssumption ==
  /\ Read \subseteq [mask : (SUBSET Bit) \ {{}}, all : BOOLEAN, clear : BOOLEAN]
  /\ Written \subseteq SUBSET Bit
  /\ \A e \in Event : EventList(e) \in PendList /\ \A r \in Read : For(EventList(e), r) # None

Satisfied(r, set) == IF r.all THEN r.mask \subseteq set ELSE r.mask \cap set # {}
LOS_EventPoll(e, r) ==
  bits' = IF Satisfied(r, bits[e]) /\ r.clear THEN [bits EXCEPT ![e] = @ \ r.mask] ELSE bits

LOS_EventRead(e, r, timeout) ==
  /\ Calls("event")
  /\ LOS_EventPoll(e, r)
  /\ \/ Satisfied(r, bits[e]) /\ ThenReturn(k)
     \/ /\ ~Satisfied(r, bits[e])
        /\ timeout # "none"
        /\ k.lock = 0
        /\ ThenSchedule(osTaskWait(k, EventList(e), "PEND", timeout = "ticks"), For(EventList(e), r))

\* LOS_EventRead behind its LOS_Schedule: what woke it may be gone again.
EventReadReturns(e, r) ==
  /\ Checks(For(EventList(e), r))
  /\ IF TimedOut(k.run) THEN UNCHANGED bits ELSE LOS_EventPoll(e, r)
  /\ ThenReturn(Cleared(k))

\* Mutant: every reader is compared with the bits written.
Wakes_written(e, written, t) == Satisfied(wait[t][2], written)

\* A reader of any bit is compared with the bits written, a reader of all
\* bits with all that are set.
Wakes(e, written, t) ==
  LET r == wait[t][2] IN Satisfied(r, IF r.all THEN bits[e] \cup written ELSE written)

Readers(e, written) == {t \in Task : OnList(k.pend[EventList(e)], t) /\ Wakes(e, written, t)}
ReadersWoken(e, written) == WakeAll(k, k.pend[EventList(e)], Readers(e, written), "PEND")
Set(e, written) == bits' = [bits EXCEPT ![e] = @ \cup written]

LOS_EventWrite(e, written) ==
  /\ Calls("event")
  /\ Set(e, written)
  /\ IF Readers(e, written) = {}
     THEN ThenReturn(k)
     ELSE ThenSchedule(ReadersWoken(e, written), None)

\* LOS_EventWrite by an interrupt handler.
InterruptWrites(e, written) ==
  /\ InterruptCalls("event")
  /\ Set(e, written)
  /\ IF Readers(e, written) = {}
     THEN UNCHANGED <<k, at, wait>>
     ELSE ThenResume(ReadersWoken(e, written))

LOS_EventClear(e, kept) ==
  /\ Calls("event")
  /\ bits' = [bits EXCEPT ![e] = @ \cap kept]
  /\ ThenReturn(k)

EventNext ==
  /\ \E e \in Event \cap app.handles :
       \/ \E r \in Read : \/ \E timeout \in app.timeouts : LOS_EventRead(e, r, timeout)
                         \/ EventReadReturns(e, r)
       \/ \E set \in Written : \/ LOS_EventWrite(e, set)
                              \/ InterruptWrites(e, set)
                              \/ LOS_EventClear(e, set)
  /\ UNCHANGED app

-----------------------------------------------------------------------------

\* No reader sleeps on a condition that holds: the bits a task waits for are
\* never set while it stays in the list, although a write looks at the bits
\* it writes itself for some readers and at all bits for others.
EventWaitersAreUnsatisfied ==
  \A e \in Event : \A i \in DOMAIN k.pend[EventList(e)] :
    ~Satisfied(wait[k.pend[EventList(e)][i]][2], bits[e])
=============================================================================
