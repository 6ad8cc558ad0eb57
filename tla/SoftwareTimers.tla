---------------------------- MODULE SoftwareTimers ----------------------------
(***************************************************************************)
(* The software timers of the LiteOS kernel (los_swtmr.c, built with       *)
(* LOSCFG_BASE_CORE_SWTMR_ALIGN): a list of the timers that tick, each     *)
(* with the ticks between it and the one before it, a queue of callbacks   *)
(* and the task that calls them.  Periodic timers that are not sensitive   *)
(* to alignment are started in phase with one that ticks already.          *)
(***************************************************************************)
EXTENDS DeltaList

CONSTANTS
  LOSCFG_BASE_CORE_SWTMR_LIMIT,   \* the number of control blocks
  LOS_COMMON_DIVISOR,
  TimerPlan,   \* the arguments of LOS_SwtmrCreate: [mode, interval, sensitive]
  Parks        \* the tick handler is left in the middle when it wakes Swt_Task

Timer == 0..LOSCFG_BASE_CORE_SWTMR_LIMIT - 1

ASSUME SoftwareTimersAssumption ==
  /\ LOSCFG_BASE_CORE_SWTMR_LIMIT \in Nat
  /\ LOS_COMMON_DIVISOR \in Nat \ {0}
  /\ TimerPlan # {}
  /\ \A p \in TimerPlan : p.mode \in {"once", "period", "no_selfdelete"} /\ p.interval \in 1..Wrap - 1
  /\ Parks \in BOOLEAN
  /\ Parks => \A p \in TimerPlan : p.mode = "period" => p.sensitive   \* what is parked is not aligned with

VARIABLES
  swtmr,                 \* swtmr[t]: [ucState, plan], the control block
  m_pstSwtmrSortList,    \* the timers that tick, a DeltaList
  m_uwSwTmrAlignID,      \* m_uwSwTmrAlignID[t]: the bits that are set
  m_uwSwTmrHandlerQueue, \* the timers whose callbacks are to be called
  swt,                   \* what Swt_Task does: "waits" for a callback or "runs" one
  parked                 \* the timers at which tick handlers were left, the last one last

swtmrVars == <<swtmr, m_pstSwtmrSortList, m_uwSwTmrAlignID, m_uwSwTmrHandlerQueue, swt, parked>>
callVars == <<swtmr, m_pstSwtmrSortList, m_uwSwTmrAlignID>>
taskSwtVars == <<m_uwSwTmrHandlerQueue, swt, parked>>

osSwTmrInit ==
  /\ swtmr \in [Timer -> {[ucState |-> "UNUSED", plan |-> CHOOSE p \in TimerPlan : TRUE]}]
  /\ m_pstSwtmrSortList = <<>>
  /\ m_uwSwTmrAlignID = [t \in Timer |-> {}]
  /\ m_uwSwTmrHandlerQueue = <<>> /\ swt = "waits" /\ parked = <<>>

Interval(t) == swtmr[t].plan.interval

-----------------------------------------------------------------------------
(* Starting a timer                                                        *)

Aligned(u, bits) == {"ALREADY", "CAN"} \subseteq bits[u]
Multiple(u, bits) == Aligned(u, bits) /\ "MULTI" \in bits[u]
Divides(i, j) == j % i = 0

\* Of several timers, one whose interval is nearest to that of t.
Nearest(t, timers) ==
  LET distance(u) == IF Interval(u) >= Interval(t) THEN Interval(u) ELSE -Interval(u)
  IN  CHOOSE u \in timers :
        \A v \in timers : \/ distance(u) < distance(v)
                          \/ distance(u) = distance(v) /\ u <= v

\* Mutant: what has passed of u's interval is not counted.
InPhase_whole(t, u, list) == Interval(t)

\* The ticks until t can next expire together with u.
InPhase(t, u, list) == Interval(t) - ((Interval(u) - Number(list, u)) % Interval(t))

\* list with t in it: in phase with a timer that ticks already, or for its interval.
osSwTmrStart(t, list, bits) ==
  LET larger == {u \in Timer \ {t} : Multiple(u, bits) /\ Divides(Interval(t), Interval(u))}
      little == {u \in Timer \ {t} : Multiple(u, bits) /\ Divides(Interval(u), Interval(t))}
      same == {i \in DOMAIN list : /\ Aligned(list[i].item, bits)
                                   /\ Interval(list[i].item) = Interval(t)}
  IN  CASE bits[t] = {"CAN", "MULTI"} /\ larger # {} ->
             Insert(list, t, InPhase(t, Nearest(t, larger), list))
        [] bits[t] = {"CAN", "MULTI"} /\ larger = {} /\ little # {} ->
             Behind(list, Position(list, Nearest(t, little)), t, 0)
        [] bits[t] = {"CAN"} /\ same # {} -> Behind(list, Min(same), t, 0)
        [] OTHER -> Insert(list, t, Interval(t))

\* The bits LOS_SwtmrStart sets.
CanAlign(t) ==
  IF swtmr[t].plan.mode = "period" /\ ~swtmr[t].plan.sensitive
  THEN IF Divides(LOS_COMMON_DIVISOR, Interval(t)) THEN {"CAN", "MULTI"} ELSE {"CAN"}
  ELSE {}

-----------------------------------------------------------------------------
(* The calls.  A timer the tick handler was left at is not in the list     *)
(* although it ticks: a call for it would run off the end of the list.     *)

LOS_SwtmrCreate(t, p) ==
  /\ swtmr[t].ucState = "UNUSED"
  /\ swtmr' = [swtmr EXCEPT ![t] = [ucState |-> "CREATED", plan |-> p]]
  /\ UNCHANGED <<m_pstSwtmrSortList, m_uwSwTmrAlignID, taskSwtVars>>

osSwtmrStop(t) == [list |-> Unlinked(m_pstSwtmrSortList, t),
                   bits |-> [m_uwSwTmrAlignID EXCEPT ![t] = @ \ {"ALREADY"}]]

\* What is left of t's time before it is started, stopped or deleted.
Stopped(t) == IF swtmr[t].ucState = "TICKING" THEN osSwtmrStop(t)
              ELSE [list |-> m_pstSwtmrSortList, bits |-> m_uwSwTmrAlignID]

LOS_SwtmrStart(t) ==
  LET bits == [Stopped(t).bits EXCEPT ![t] = @ \cup CanAlign(t)] IN
  /\ swtmr[t].ucState # "UNUSED" /\ ~Contains(parked, t)
  /\ m_pstSwtmrSortList' = osSwTmrStart(t, Stopped(t).list, bits)
  /\ m_uwSwTmrAlignID' = [bits EXCEPT ![t] = IF "CAN" \in @ THEN @ \cup {"ALREADY"} ELSE @]
  /\ swtmr' = [swtmr EXCEPT ![t].ucState = "TICKING"]
  /\ UNCHANGED taskSwtVars

LOS_SwtmrStop(t) ==
  /\ swtmr[t].ucState = "TICKING" /\ ~Contains(parked, t)
  /\ m_pstSwtmrSortList' = Stopped(t).list
  /\ m_uwSwTmrAlignID' = Stopped(t).bits
  /\ swtmr' = [swtmr EXCEPT ![t].ucState = "CREATED"]
  /\ UNCHANGED taskSwtVars

LOS_SwtmrDelete(t) ==
  /\ swtmr[t].ucState # "UNUSED" /\ ~Contains(parked, t)
  /\ m_pstSwtmrSortList' = Stopped(t).list
  /\ m_uwSwTmrAlignID' = [m_uwSwTmrAlignID EXCEPT ![t] = {}]
  /\ swtmr' = [swtmr EXCEPT ![t].ucState = "UNUSED"]
  /\ UNCHANGED taskSwtVars

SwtmrCall == \E t \in Timer :
  \/ \E p \in TimerPlan : LOS_SwtmrCreate(t, p)
  \/ LOS_SwtmrStart(t)
  \/ LOS_SwtmrStop(t)
  \/ LOS_SwtmrDelete(t)

-----------------------------------------------------------------------------
(* The tick                                                                *)

\* Mutant: the last place of the queue is not used.
HandleQueueSize_less == LOSCFG_BASE_CORE_SWTMR_LIMIT - 1

\* OS_SWTMR_HANDLE_QUEUE_SIZE
HandleQueueSize == LOSCFG_BASE_CORE_SWTMR_LIMIT

\* LOS_QueueWriteCopy with LOS_NO_WAIT: what does not fit is dropped.
Written(queue, timers) ==
  SubSeq(queue \o timers, 1, Min({HandleQueueSize, Len(queue) + Len(timers)}))

Periodic(t) == swtmr[t].plan.mode = "period"

\* Of the timers whose callbacks were queued, the periodic ones are armed again ...
Rearmed(list, timers) ==
  LET after[i \in 0..Len(timers)] ==
        CASE i = 0 -> list
          [] i # 0 /\ Periodic(timers[i]) -> osSwTmrStart(timers[i], after[i - 1], m_uwSwTmrAlignID)
          [] OTHER -> after[i - 1]
  IN  after[Len(timers)]

\* ... and the others tick no more.
Expired(t) ==
  CASE swtmr[t].plan.mode = "once"          -> [swtmr[t] EXCEPT !.ucState = "UNUSED"]
    [] swtmr[t].plan.mode = "period"        -> [swtmr[t] EXCEPT !.ucState = "TICKING"]
    [] swtmr[t].plan.mode = "no_selfdelete" -> [swtmr[t] EXCEPT !.ucState = "CREATED"]

Expire(timers) ==
  LET once == {t \in Range(timers) : swtmr[t].plan.mode = "once"} IN
  /\ swtmr' = [t \in Timer |-> IF Contains(timers, t) THEN Expired(t) ELSE swtmr[t]]
  /\ m_uwSwTmrAlignID' = [t \in Timer |-> IF t \in once THEN {} ELSE m_uwSwTmrAlignID[t]]

LeadingZeros(list) == [i \in DOMAIN Due(list) |-> list[i].item]

\* A callback for the waiting Swt_Task switches to it at once: the handler is left with
\* timer t out of the list and not yet armed again.
ParkAt(list, done, left) ==
  /\ m_pstSwtmrSortList' = Tail(list)
  /\ parked' = Append(left, Head(list).item)
  /\ swt' = "runs"
  /\ UNCHANGED m_uwSwTmrHandlerQueue
  /\ Expire(done)

\* The loop of the handler, with done the timers it has to finish with first and left
\* those other handlers were left at.
TimeoutLoop(list, done, left) ==
  LET due == LeadingZeros(list) IN
  IF Parks /\ swt = "waits" /\ due # <<>>
  THEN ParkAt(list, done, left)
  ELSE /\ m_pstSwtmrSortList' = Rearmed(SubSeq(list, Len(due) + 1, Len(list)), due)
       /\ m_uwSwTmrHandlerQueue' = Written(m_uwSwTmrHandlerQueue, due)
       /\ Expire(done \o due)
       /\ parked' = left
       /\ UNCHANGED swt

osSwTmrTimeoutHandle(list) == TimeoutLoop(list, <<>>, parked)

\* Only the first difference is counted down; at zero the timers that are due expire.
osSwtmrScan ==
  LET list == [m_pstSwtmrSortList EXCEPT ![1].delta = (@ - 1) % Wrap] IN
  IF m_pstSwtmrSortList = <<>> THEN UNCHANGED swtmrVars
  ELSE IF list[1].delta = 0 THEN osSwTmrTimeoutHandle(list)
  ELSE m_pstSwtmrSortList' = list /\ UNCHANGED <<swtmr, m_uwSwTmrAlignID, taskSwtVars>>

\* The interrupted task runs again: the handler goes on where it was left.
TickHandlerResumes ==
  /\ parked # <<>> /\ swt = "waits"
  /\ LET done == <<Last(parked)>>
     IN  TimeoutLoop(Rearmed(m_pstSwtmrSortList, done), done, Front(parked))

\* Swt_Task begins with the next callback, or waits for one.
osSwTmrTask ==
  /\ IF m_uwSwTmrHandlerQueue # <<>>
     THEN swt' = "runs" /\ m_uwSwTmrHandlerQueue' = Tail(m_uwSwTmrHandlerQueue)
     ELSE swt = "runs" /\ swt' = "waits" /\ UNCHANGED m_uwSwTmrHandlerQueue
  /\ UNCHANGED <<callVars, parked>>

-----------------------------------------------------------------------------

SwtmrTypeOK ==
  /\ swtmr \in [Timer -> [ucState : {"UNUSED", "CREATED", "TICKING"}, plan : TimerPlan]]
  /\ \A i \in DOMAIN m_pstSwtmrSortList : m_pstSwtmrSortList[i] \in [item : Timer, delta : 0..Wrap - 1]
  /\ m_uwSwTmrAlignID \in [Timer -> SUBSET {"ALREADY", "CAN", "MULTI"}]
  /\ m_uwSwTmrHandlerQueue \in BoundedSeq(Timer, LOSCFG_BASE_CORE_SWTMR_LIMIT)
  /\ swt \in {"waits", "runs"} /\ parked \in Seq(Timer)

\* osSwtmrTimeGet, as LOS_SwtmrTimeGet reports it
Remaining(t) == IF Listed(m_pstSwtmrSortList, t) THEN Number(m_pstSwtmrSortList, t) ELSE 0

\* A timer that ticks is not further from its end than the interval it was created with:
\* what LOS_SwtmrTimeGet reports are remaining ticks of that interval.
RemainingIsWithinInterval == \A t \in Timer : swtmr[t].ucState = "TICKING" => Remaining(t) <= Interval(t)

\* Timers that are aligned and whose intervals divide one another expire together whenever
\* the longer one expires, also after either was stopped and started at another time.  This
\* holds if of the plans' intervals that are multiples of LOS_COMMON_DIVISOR one always
\* divides the other: a new timer is put in phase with one other only (osSwTmrStart), and
\* one of 12 ticks cannot be with both of two of 4 and 6 that were started apart.
AlignedTimersExpireTogether == \A t, u \in Timer :
  /\ t # u
  /\ \/ Multiple(t, m_uwSwTmrAlignID) /\ Multiple(u, m_uwSwTmrAlignID) /\ Divides(Interval(t), Interval(u))
     \/ Aligned(t, m_uwSwTmrAlignID) /\ Aligned(u, m_uwSwTmrAlignID) /\ Interval(t) = Interval(u)
  => (Remaining(u) - Remaining(t)) % Interval(t) = 0

Loose(p) == p.mode = "period" /\ ~p.sensitive

Callbacks == INSTANCE Deadlines WITH
  Item <- Timer,
  Plan <- {[ticks |-> p.interval, repeats |-> p.mode = "period", loose |-> Loose(p)] : p \in TimerPlan},
  plan <- [t \in Timer |-> [ticks |-> Interval(t), repeats |-> Periodic(t), loose |-> Loose(swtmr[t].plan)]],
  left <- [t \in Timer |-> Remaining(t)]

\* A timer expires after exactly its interval, a periodic one again after exactly its
\* interval every time, whatever other timers are started, stopped and deleted meanwhile;
\* only the first time of one that may be aligned is shorter.
TimersAreExact == Callbacks!Spec
=============================================================================
