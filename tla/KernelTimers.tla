----------------------------- MODULE KernelTimers -----------------------------
(***************************************************************************)
(* The tick of the LiteOS kernel (los_tick.c): it scans the tasks' waits   *)
(* and then the software timers.  The two do not meet elsewhere, so an     *)
(* application uses one or the other.                                      *)
(***************************************************************************)
EXTENDS TaskTimers, SoftwareTimers

VARIABLE uses   \* which of the two the application uses; rigid

vars == <<sortVars, swtmrVars, uses>>

Init == TaskTimersInit /\ osSwTmrInit /\ uses \in {"waits", "timers"}

osTickHandler == osTaskScan /\ osSwtmrScan /\ UNCHANGED <<asked, uses>>

Next == \/ osTickHandler
        \/ uses = "waits" /\ TaskTimersCall /\ UNCHANGED <<swtmrVars, uses>>
        \/ uses = "timers" /\ (SwtmrCall \/ osSwTmrTask) /\ UNCHANGED <<sortVars, uses>>

\* The tick handler runs to its end.
Spec == Init /\ [][Next]_vars

\* As this target is built: waking Swt_Task leaves the tick handler in the middle.
ParkingSpec ==
  Init /\ [][Next \/ (TickHandlerResumes /\ UNCHANGED <<sortVars, uses>>)]_vars

-----------------------------------------------------------------------------

\* Every difference is a number the fields can hold, and only callbacks there is room for are queued.
TimersTypeOK ==
  /\ SwtmrTypeOK
  /\ g_stTskSortLink.cursor \in Wheel
  /\ \A i \in Wheel : \A j \in DOMAIN g_stTskSortLink.list[i] :
       g_stTskSortLink.list[i][j] \in [item : Task, delta : 0..MaxTimeout]

\* Waits of tasks and software timers end at the tick they were meant to end at,
\* whatever else is linked into the two lists or taken out of them meanwhile
\* (osTaskScan, osSwtmrScan and all that starts, stops or repeats a wait), and no difference
\* or queue leaves its range on the way.
DeadlinesAreExact == []TimersTypeOK /\ WaitsAreExact /\ TimersAreExact

\* The callback of a timer that expires is dropped only if some timer expired twice while
\* Swt_Task called none: the queue of the callbacks has a place for every timer.
OnlyRepeatedCallbacksAreDropped ==
  [][\A t \in Timer :
       /\ Remaining(t) = 1
       /\ g_stTskSortLink.cursor' # g_stTskSortLink.cursor
       /\ ~Contains(m_uwSwTmrHandlerQueue', t)
       => ~IsInjective(m_uwSwTmrHandlerQueue')]_vars
=============================================================================
