------------------------------ MODULE TaskTimers ------------------------------
(***************************************************************************)
(* The tasks' delays and timeouts (los_task.c): a wheel of lists, one step *)
(* per tick, where a task also counts how often the wheel must turn before *)
(* its wait is over, as a difference to the task before it.                *)
(***************************************************************************)
EXTENDS DeltaList

CONSTANTS
  Task,          \* the tasks that wait
  SortLinkLen,   \* OS_TSK_SORTLINK_LEN, a power of two
  MaxTimeout     \* bound on the ticks waited for

\* Full turns before the wait is over.
Turns(n) == IF n % SortLinkLen = 0 THEN n \div SortLinkLen - 1 ELSE n \div SortLinkLen

ASSUME TaskTimersAssumption ==
  /\ SortLinkLen \in Nat \ {0} /\ MaxTimeout \in Nat
  /\ \A n \in 1..MaxTimeout : Turns(n) < Wrap

VARIABLES
  g_stTskSortLink,   \* [cursor, list]: the wheel
  asked              \* asked[t]: the ticks t last asked for; history

sortVars == <<g_stTskSortLink, asked>>
Wheel == 0..SortLinkLen - 1

TaskTimersInit ==
  /\ g_stTskSortLink = [cursor |-> 0, list |-> [i \in Wheel |-> <<>>]]
  /\ asked = [t \in Task |-> 0]

Index(t) == {i \in Wheel : Listed(g_stTskSortLink.list[i], t)}
Waits(t) == Index(t) # {}

\* t begins a wait of n ticks.
osTaskAdd2TimerList(t, n) ==
  LET i == (g_stTskSortLink.cursor + n) % SortLinkLen IN
  /\ ~Waits(t)
  /\ g_stTskSortLink' = [g_stTskSortLink EXCEPT !.list[i] = Insert(@, t, Turns(n))]
  /\ asked' = [asked EXCEPT ![t] = n]

\* t is woken, or deleted, before its wait is over.
osTimerListDelete(t) == \E i \in Index(t) :
  /\ g_stTskSortLink' = [g_stTskSortLink EXCEPT !.list[i] = Unlinked(@, t)]
  /\ UNCHANGED asked

\* One turn less for those that stay.
Turned(list) ==
  LET stay == SubSeq(list, Len(Due(list)) + 1, Len(list))
  IN  [i \in DOMAIN stay |-> IF i = 1 THEN [stay[i] EXCEPT !.delta = @ - 1] ELSE stay[i]]

osTaskScan ==
  LET cursor == (g_stTskSortLink.cursor + 1) % SortLinkLen
  IN  g_stTskSortLink' = [g_stTskSortLink EXCEPT !.cursor = cursor, !.list[cursor] = Turned(@)]

TaskTimersCall == \E t \in Task : \/ \E n \in 1..MaxTimeout : osTaskAdd2TimerList(t, n)
                                  \/ osTimerListDelete(t)

-----------------------------------------------------------------------------

\* The ticks until the wait of t is over, read off the wheel.
TicksLeft(t) ==
  LET i == CHOOSE j \in Wheel : j \in Index(t)
      distance == ((i - g_stTskSortLink.cursor - 1) % SortLinkLen) + 1
  IN  IF Waits(t) THEN distance + SortLinkLen * Number(g_stTskSortLink.list[i], t) ELSE 0

TaskWaits == INSTANCE Deadlines WITH
  Item <- Task,
  Plan <- [ticks : 0..MaxTimeout, repeats : {FALSE}, loose : {FALSE}],
  plan <- [t \in Task |-> [ticks |-> asked[t], repeats |-> FALSE, loose |-> FALSE]],
  left <- [t \in Task |-> TicksLeft(t)]

\* A task that waits for n ticks waits for exactly n scans, whatever other
\* tasks are linked in before it or taken off in front of it meanwhile.
WaitsAreExact == TaskWaits!Spec
=============================================================================
