---------------------------- MODULE KernelProofs ----------------------------
(***************************************************************************)
(* Proofs about the kernel's tasks, for every number of tasks, priorities, *)
(* objects and applications.                                               *)
(***************************************************************************)
EXTENDS Kernel, MinLemmas, FiniteSetTheorems, SequenceTheorems

-----------------------------------------------------------------------------
(* Lists of tasks                                                          *)

Distinct(list) == \A i, j \in DOMAIN list : list[i] = list[j] => i = j

\* What is behind the place a task was taken from moves up by one.
LEMMA RemoveAtPlace ==
  ASSUME NEW T, NEW list \in Seq(T), NEW i \in DOMAIN list
  PROVE  /\ RemoveAt(list, i) \in Seq(T)
         /\ Len(RemoveAt(list, i)) = Len(list) - 1
         /\ \A j \in 1..Len(list) - 1 :
              RemoveAt(list, i)[j] = IF j < i THEN list[j] ELSE list[j + 1]
<1> DEFINE front == SubSeq(list, 1, i - 1)
           back == SubSeq(list, i + 1, Len(list))
<1>1. /\ Len(list) \in Nat
      /\ i \in 1..Len(list)
  BY LenProperties
<1>2. /\ front \in Seq(T) /\ Len(front) = i - 1
      /\ \A j \in 1..i - 1 : front[j] = list[j]
  BY <1>1, SubSeqProperties
<1>3. /\ back \in Seq(T) /\ Len(back) = Len(list) - i
      /\ \A j \in 1..Len(list) - i : back[j] = list[i + j]
  BY <1>1, SubSeqProperties
<1> HIDE DEF front, back
<1>4. /\ front \o back \in Seq(T)
      /\ Len(front \o back) = Len(front) + Len(back)
      /\ \A j \in 1..Len(front) + Len(back) :
           (front \o back)[j] = IF j <= Len(front) THEN front[j] ELSE back[j - Len(front)]
  BY <1>2, <1>3, ConcatProperties
<1>5. RemoveAt(list, i) = front \o back
  BY DEF RemoveAt, front, back
<1>6. ASSUME NEW j \in 1..Len(list) - 1
      PROVE  (front \o back)[j] = IF j < i THEN list[j] ELSE list[j + 1]
  <2>1. CASE j < i
    <3>1. j \in 1..Len(front) + Len(back) /\ j <= Len(front) /\ j \in 1..i - 1
      BY <1>1, <1>2, <1>3, <2>1
    <3>2. (front \o back)[j] = front[j]
      BY <1>4, <3>1
    <3>3. front[j] = list[j]
      BY <1>2, <3>1
    <3> QED
      BY <2>1, <3>2, <3>3
  <2>2. CASE ~(j < i)
    <3>1. j - Len(front) \in 1..Len(list) - i /\ i + (j - Len(front)) = j + 1 /\ ~(j <= Len(front))
      BY <1>1, <1>2, <2>2
    <3>2. (front \o back)[j] = back[j - Len(front)]
      <4>1. j \in 1..Len(front) + Len(back)
        BY <1>1, <1>2, <1>3
      <4> QED
        BY <1>4, <3>1, <4>1
    <3>3. back[j - Len(front)] = list[j + 1]
      BY <1>3, <3>1
    <3> QED
      BY <2>2, <3>2, <3>3
  <2> QED
    BY <2>1, <2>2
<1>7. Len(front \o back) = Len(list) - 1
  BY <1>1, <1>2, <1>3, <1>4
<1> QED
  BY <1>4, <1>5, <1>6, <1>7

\* A task is taken off a list it is on once; the others keep their order.
LEMMA WithoutList ==
  ASSUME NEW T, NEW list \in Seq(T), Distinct(list), NEW t
  PROVE  /\ Without(list, t) \in Seq(T)
         /\ Distinct(Without(list, t))
         /\ ~OnList(Without(list, t), t)
         /\ \A u \in T : u # t => (OnList(Without(list, t), u) <=> OnList(list, u))
         /\ ~OnList(list, t) => Without(list, t) = list
         /\ list # <<>> /\ list[1] # t => Without(list, t) # <<>> /\ Without(list, t)[1] = list[1]
<1>1. CASE ~OnList(list, t)
  BY <1>1 DEF Without
<1>2. CASE OnList(list, t)
  <2> DEFINE i == CHOOSE j \in DOMAIN list : list[j] = t
             w == RemoveAt(list, i)
  <2>1. i \in DOMAIN list /\ list[i] = t
    BY <1>2 DEF OnList
  <2>2. Without(list, t) = w
    BY <1>2 DEF Without
  <2> HIDE DEF i
  <2>3. /\ w \in Seq(T) /\ Len(w) = Len(list) - 1
        /\ \A j \in 1..Len(list) - 1 : w[j] = IF j < i THEN list[j] ELSE list[j + 1]
    BY <2>1, RemoveAtPlace
  <2> HIDE DEF w
  <2>4. /\ DOMAIN list = 1..Len(list) /\ Len(list) \in Nat
        /\ DOMAIN w = 1..Len(list) - 1
    BY <2>3, LenProperties
  <2> DEFINE from(j) == IF j < i THEN j ELSE j + 1
  <2>5. Distinct(w)
    <3>1. \A j \in DOMAIN w : from(j) \in DOMAIN list /\ w[j] = list[from(j)]
      BY <2>1, <2>3, <2>4
    <3>2. \A j, m \in DOMAIN w : from(j) = from(m) => j = m
      BY <2>1, <2>4
    <3> HIDE DEF from
    <3> QED
      BY <3>1, <3>2 DEF Distinct
  <2>6. ~OnList(w, t)
    <3>1. SUFFICES ASSUME NEW j \in 1..Len(list) - 1, w[j] = t PROVE FALSE
      BY <2>4 DEF OnList
    <3>2. CASE j < i
      BY <2>1, <2>3, <2>4, <3>1, <3>2 DEF Distinct
    <3>3. CASE ~(j < i)
      <4>1. j + 1 \in DOMAIN list /\ j + 1 # i
        BY <2>1, <2>4, <3>3
      <4>2. list[j + 1] = t
        BY <2>1, <2>3, <2>4, <3>1, <3>3
      <4> QED
        BY <2>1, <4>1, <4>2 DEF Distinct
    <3> QED
      BY <3>2, <3>3
  <2>7. ASSUME NEW u \in T, u # t
        PROVE  OnList(w, u) <=> OnList(list, u)
    <3>1. ASSUME NEW j \in DOMAIN w, w[j] = u PROVE OnList(list, u)
      <4>1. CASE j < i
        <5>1. j \in DOMAIN list /\ list[j] = u
          BY <2>3, <2>4, <3>1, <4>1
        <5> QED
          BY <5>1 DEF OnList
      <4>2. CASE ~(j < i)
        <5>1. j + 1 \in DOMAIN list /\ list[j + 1] = u
          BY <2>3, <2>4, <3>1, <4>2
        <5> QED
          BY <5>1 DEF OnList
      <4> QED
        BY <4>1, <4>2
    <3>2. ASSUME NEW j \in DOMAIN list, list[j] = u PROVE OnList(w, u)
      <4>1. CASE j < i
        <5>1. j \in 1..Len(list) - 1
          BY <2>1, <2>4, <4>1
        <5>2. w[j] = list[j]
          BY <2>3, <4>1, <5>1
        <5> QED
          BY <2>4, <3>2, <5>1, <5>2 DEF OnList
      <4>2. CASE j > i
        <5>1. j - 1 \in 1..Len(list) - 1 /\ ~(j - 1 < i) /\ (j - 1) + 1 = j
          BY <2>1, <2>4, <4>2
        <5>2. w[j - 1] = list[j]
          BY <2>3, <5>1
        <5> QED
          BY <2>4, <3>2, <5>1, <5>2 DEF OnList
      <4> QED
        BY <2>1, <2>4, <2>7, <3>2, <4>1, <4>2
    <3> QED
      BY <3>1, <3>2 DEF OnList
  <2>8. ASSUME list # <<>>, list[1] # t PROVE w # <<>> /\ w[1] = list[1]
    <3>1. i > 1 /\ Len(list) > 1
      BY <2>1, <2>4, <2>8
    <3> QED
      BY <2>3, <2>4, <3>1
  <2> QED
    BY <1>2, <2>2, <2>3, <2>5, <2>6, <2>7, <2>8
<1> QED
  BY <1>1, <1>2

\* A task that is on no list is put behind the others.
LEMMA AppendList ==
  ASSUME NEW T, NEW list \in Seq(T), NEW t \in T, Distinct(list), ~OnList(list, t)
  PROVE  /\ Append(list, t) \in Seq(T)
         /\ Distinct(Append(list, t))
         /\ OnList(Append(list, t), t)
         /\ \A u \in T : u # t => (OnList(Append(list, t), u) <=> OnList(list, u))
         /\ Append(list, t) # <<>>
         /\ list # <<>> => Append(list, t)[1] = list[1]
<1> DEFINE a == Append(list, t)
<1>1. /\ a \in Seq(T) /\ a # <<>> /\ Len(a) = Len(list) + 1
      /\ \A j \in 1..Len(list) : a[j] = list[j]
      /\ a[Len(list) + 1] = t
  BY AppendProperties
<1>2. /\ DOMAIN list = 1..Len(list) /\ Len(list) \in Nat
      /\ DOMAIN a = 1..Len(list) + 1
  BY <1>1, LenProperties
<1> HIDE DEF a
<1>3. Distinct(a)
  BY <1>1, <1>2 DEF Distinct, OnList
<1>4. OnList(a, t)
  BY <1>1, <1>2 DEF OnList
<1>5. ASSUME NEW u \in T, u # t PROVE OnList(a, u) <=> OnList(list, u)
  BY <1>1, <1>2, <1>5 DEF OnList
<1>6. list # <<>> => a[1] = list[1]
  <2>1. list # <<>> => 1 \in 1..Len(list)
    BY <1>2, EmptySeq
  <2> QED
    BY <1>1, <2>1
<1> QED
  BY <1>1, <1>3, <1>4, <1>5, <1>6 DEF a

-----------------------------------------------------------------------------
(* The functions of the source, by the fields of the state they return     *)

KState ==
  [status : [AnyTask -> SUBSET Flag], prio : [AnyTask -> 0..Lowest],
   ready : [0..Lowest -> Seq(AnyTask)], pend : [PendList -> Seq(Task)],
   timers : SUBSET Task, run : AnyTask, lock : 0..MaxLock,
   late : BOOLEAN, fault : BOOLEAN]

SameRun(r, s) == r.run = s.run /\ r.lock = s.lock /\ r.late = s.late /\ r.fault = s.fault

PutReady(s, status, ready) == [s EXCEPT !.status = status, !.ready = ready]
PutPend(s, status, pend, timers) == [s EXCEPT !.status = status, !.pend = pend, !.timers = timers]

\* Writing the flags and the ready lists leaves the other fields and the type.
LEMMA PutReadyFields ==
  ASSUME NEW s \in KState, NEW x \in [AnyTask -> SUBSET Flag], NEW y \in [0..Lowest -> Seq(AnyTask)],
         NEW r, r = PutReady(s, x, y)
  PROVE  /\ r \in KState /\ r.status = x /\ r.ready = y
         /\ r.prio = s.prio /\ r.pend = s.pend /\ r.timers = s.timers /\ SameRun(r, s)
BY DEF PutReady, KState, SameRun

\* Writing the flags, the pend lists and the sort links leaves the other fields and the type.
LEMMA PutPendFields ==
  ASSUME NEW s \in KState, NEW x \in [AnyTask -> SUBSET Flag], NEW y \in [PendList -> Seq(Task)],
         NEW z \in SUBSET Task, NEW r, r = PutPend(s, x, y, z)
  PROVE  /\ r \in KState /\ r.status = x /\ r.pend = y /\ r.timers = z
         /\ r.prio = s.prio /\ r.ready = s.ready /\ SameRun(r, s)
BY DEF PutPend, KState, SameRun

\* Taking a task off a list leaves a list.
LEMMA WithoutTyped ==
  ASSUME NEW T, NEW list \in Seq(T), NEW t
  PROVE  Without(list, t) \in Seq(T)
<1>1. CASE OnList(list, t)
  <2> DEFINE i == CHOOSE j \in DOMAIN list : list[j] = t
  <2>1. i \in DOMAIN list
    BY <1>1 DEF OnList
  <2> HIDE DEF i
  <2>2. RemoveAt(list, i) \in Seq(T)
    BY <2>1, RemoveAtPlace
  <2> QED
    BY <1>1, <2>2 DEF Without, i
<1>2. CASE ~OnList(list, t)
  BY <1>2 DEF Without
<1> QED
  BY <1>1, <1>2

EnqueueSpec(r, s, t) ==
  /\ r \in KState
  /\ r.status = [s.status EXCEPT ![t] = s.status[t] \cup {"READY"}]
  /\ r.ready = [s.ready EXCEPT ![s.prio[t]] = Append(s.ready[s.prio[t]], t)]
  /\ r.prio = s.prio /\ r.pend = s.pend /\ r.timers = s.timers /\ SameRun(r, s)

\* What osPriqueueEnqueue does to each field of the kernel's state.
LEMMA EnqueueFields ==
  ASSUME NEW s \in KState, NEW t \in AnyTask, NEW r, r = osPriqueueEnqueue(s, t)
  PROVE  EnqueueSpec(r, s, t)
<1> DEFINE x == [s.status EXCEPT ![t] = s.status[t] \cup {"READY"}]
           y == [s.ready EXCEPT ![s.prio[t]] = Append(s.ready[s.prio[t]], t)]
<1>4. Append(s.ready[s.prio[t]], t) \in Seq(AnyTask)
  BY AppendProperties DEF KState
<1>1. x \in [AnyTask -> SUBSET Flag] /\ y \in [0..Lowest -> Seq(AnyTask)]
  BY <1>4 DEF KState, Flag
<1>2. r = PutReady(s, x, y)
  BY DEF osPriqueueEnqueue, PutReady, KState
<1> HIDE DEF x, y
<1>3. /\ r \in KState /\ r.status = x /\ r.ready = y
      /\ r.prio = s.prio /\ r.pend = s.pend /\ r.timers = s.timers /\ SameRun(r, s)
  BY <1>1, <1>2, PutReadyFields
<1> QED
  BY <1>3 DEF x, y, EnqueueSpec

DequeueSpec(r, s, t) ==
  /\ r \in KState
  /\ r.status = [s.status EXCEPT ![t] = s.status[t] \ {"READY"}]
  /\ r.ready = [s.ready EXCEPT ![s.prio[t]] = Without(s.ready[s.prio[t]], t)]
  /\ r.prio = s.prio /\ r.pend = s.pend /\ r.timers = s.timers /\ SameRun(r, s)

\* What osPriqueueDequeue does to each field.
LEMMA DequeueFields ==
  ASSUME NEW s \in KState, NEW t \in AnyTask, NEW r, r = osPriqueueDequeue(s, t)
  PROVE  DequeueSpec(r, s, t)
<1> DEFINE x == [s.status EXCEPT ![t] = s.status[t] \ {"READY"}]
           y == [s.ready EXCEPT ![s.prio[t]] = Without(s.ready[s.prio[t]], t)]
<1>1. x \in [AnyTask -> SUBSET Flag]
  BY DEF KState, Flag
<1>4. Without(s.ready[s.prio[t]], t) \in Seq(AnyTask)
  BY WithoutTyped DEF KState
<1>5. y \in [0..Lowest -> Seq(AnyTask)]
  BY <1>4 DEF KState
<1>2. r = PutReady(s, x, y)
  BY DEF osPriqueueDequeue, PutReady, KState
<1> HIDE DEF x, y
<1>3. /\ r \in KState /\ r.status = x /\ r.ready = y
      /\ r.prio = s.prio /\ r.pend = s.pend /\ r.timers = s.timers /\ SameRun(r, s)
  BY <1>1, <1>2, <1>5, PutReadyFields
<1> QED
  BY <1>3 DEF x, y, DequeueSpec

WaitSpec(r, s, t, list, flag, timed) ==
  /\ r \in KState
  /\ r.status = [s.status EXCEPT ![t] = (s.status[t] \ {"READY"}) \cup {flag}
                                            \cup (IF timed THEN {"TIMEOUT"} ELSE {})]
  /\ r.ready = [s.ready EXCEPT ![s.prio[t]] = Without(s.ready[s.prio[t]], t)]
  /\ r.pend = [s.pend EXCEPT ![list] = Append(s.pend[list], t)]
  /\ r.timers = IF timed THEN s.timers \cup {t} ELSE s.timers
  /\ r.prio = s.prio /\ SameRun(r, s)

\* What osTaskWait does to each field: off the ready list, onto the pend list
\* and, with a timeout, onto the sort link.
LEMMA WaitFields ==
  ASSUME NEW s \in KState, NEW t \in Task, t = s.run, NEW list \in PendList, NEW flag \in Blocking,
         NEW timed, NEW r, r = osTaskWait(s, list, flag, timed)
  PROVE  WaitSpec(r, s, t, list, flag, timed)
<1> DEFINE d == osPriqueueDequeue(s, t)
           x == [d.status EXCEPT ![t] = d.status[t] \cup {flag} \cup (IF timed THEN {"TIMEOUT"} ELSE {})]
           y == [d.pend EXCEPT ![list] = Append(d.pend[list], t)]
           z == IF timed THEN d.timers \cup {t} ELSE d.timers
<1>1. t \in AnyTask /\ t \in Task
  BY DEF AnyTask
<1>2. /\ d \in KState
      /\ d.status = [s.status EXCEPT ![t] = s.status[t] \ {"READY"}]
      /\ d.ready = [s.ready EXCEPT ![s.prio[t]] = Without(s.ready[s.prio[t]], t)]
      /\ d.prio = s.prio /\ d.pend = s.pend /\ d.timers = s.timers /\ SameRun(d, s)
  BY <1>1, DequeueFields DEF DequeueSpec
<1>3. r = [d EXCEPT !.status[t] = @ \cup {flag} \cup (IF timed THEN {"TIMEOUT"} ELSE {}),
                    !.pend[list] = Append(@, t),
                    !.timers = IF timed THEN @ \cup {t} ELSE @]
  BY DEF osTaskWait
<1> HIDE DEF d
<1>4. r = PutPend(d, x, y, z)
  BY <1>2, <1>3 DEF PutPend, KState
<1>5. x \in [AnyTask -> SUBSET Flag]
  BY <1>1, <1>2 DEF KState, Flag, Blocking
<1>6. y \in [PendList -> Seq(Task)]
  BY <1>1, <1>2 DEF KState
<1>7. z \in SUBSET Task
  BY <1>1, <1>2 DEF KState
<1>8. /\ x = [s.status EXCEPT ![t] = (s.status[t] \ {"READY"}) \cup {flag} \cup (IF timed THEN {"TIMEOUT"} ELSE {})]
      /\ y = [s.pend EXCEPT ![list] = Append(s.pend[list], t)]
      /\ z = IF timed THEN s.timers \cup {t} ELSE s.timers
  BY <1>1, <1>2 DEF KState
<1> HIDE DEF x, y, z
<1>9. /\ r \in KState /\ r.status = x /\ r.pend = y /\ r.timers = z
      /\ r.prio = d.prio /\ r.ready = d.ready /\ SameRun(r, d)
  <2>1. d \in KState
    BY <1>2
  <2> QED
    BY <1>4, <1>5, <1>6, <1>7, <2>1, PutPendFields
<1> QED
  BY <1>2, <1>8, <1>9 DEF SameRun, WaitSpec

\* Writing a priority changes nothing else.
LEMMA PrioFields ==
  ASSUME NEW s \in KState, NEW t \in AnyTask, NEW p \in 0..Lowest, NEW r, r = [s EXCEPT !.prio[t] = p]
  PROVE  /\ r \in KState /\ r.prio = [s.prio EXCEPT ![t] = p]
         /\ r.status = s.status /\ r.ready = s.ready /\ r.pend = s.pend /\ r.timers = s.timers
         /\ SameRun(r, s)
BY DEF KState, SameRun

Flagged(s, t, f) == [s EXCEPT !.status[t] = f]

\* Writing the flags of a task changes nothing else.
LEMMA StatusFields ==
  ASSUME NEW s \in KState, NEW t \in AnyTask, NEW f \in SUBSET Flag, NEW r, r = Flagged(s, t, f)
  PROVE  /\ r \in KState /\ r.status = [s.status EXCEPT ![t] = f]
         /\ r.prio = s.prio /\ r.ready = s.ready /\ r.pend = s.pend /\ r.timers = s.timers
         /\ SameRun(r, s)
BY DEF KState, SameRun, Flagged

PriModifySpec(r, s, t, p, off) ==
  /\ r \in KState
  /\ r.status = s.status
  /\ off \in [0..Lowest -> Seq(AnyTask)]
  /\ r.ready = [off EXCEPT ![p] = Append(off[p], t)]
  /\ r.prio = [s.prio EXCEPT ![t] = p]
  /\ r.pend = s.pend /\ r.timers = s.timers /\ SameRun(r, s)

\* What osTaskPriModify does to each field when the task is ready: it moves to
\* the end of the ready list of its new priority.
LEMMA PriModifyFields ==
  ASSUME NEW s \in KState, NEW t \in AnyTask, NEW p \in 0..Lowest, "READY" \in s.status[t],
         NEW r, r = osTaskPriModify(s, t, p),
         NEW off, off = [s.ready EXCEPT ![s.prio[t]] = Without(s.ready[s.prio[t]], t)]
  PROVE  PriModifySpec(r, s, t, p, off)
<1> DEFINE d == osPriqueueDequeue(s, t)
           e == [d EXCEPT !.prio[t] = p]
<1>1. /\ d \in KState
      /\ d.status = [s.status EXCEPT ![t] = s.status[t] \ {"READY"}]
      /\ d.ready = off
      /\ d.prio = s.prio /\ d.pend = s.pend /\ d.timers = s.timers /\ SameRun(d, s)
  BY DequeueFields DEF DequeueSpec
<1> HIDE DEF d
<1>2. /\ e \in KState /\ e.prio = [d.prio EXCEPT ![t] = p]
      /\ e.status = d.status /\ e.ready = d.ready /\ e.pend = d.pend /\ e.timers = d.timers
      /\ SameRun(e, d)
  BY <1>1, PrioFields
<1>3. r = osPriqueueEnqueue(e, t)
  BY DEF osTaskPriModify, d
<1> HIDE DEF e
<1>4. /\ r \in KState
      /\ r.status = [e.status EXCEPT ![t] = e.status[t] \cup {"READY"}]
      /\ r.ready = [e.ready EXCEPT ![e.prio[t]] = Append(e.ready[e.prio[t]], t)]
      /\ r.prio = e.prio /\ r.pend = e.pend /\ r.timers = e.timers /\ SameRun(r, e)
  BY <1>2, <1>3, EnqueueFields DEF EnqueueSpec
<1>5. r.status = s.status
  BY <1>1, <1>2, <1>4 DEF KState
<1>6. e.prio[t] = p
  BY <1>1, <1>2 DEF KState
<1>7. off \in [0..Lowest -> Seq(AnyTask)]
  BY <1>1 DEF KState
<1>8. r.ready = [off EXCEPT ![p] = Append(off[p], t)]
  BY <1>1, <1>2, <1>4, <1>6
<1>9. r.prio = [s.prio EXCEPT ![t] = p] /\ r.pend = s.pend /\ r.timers = s.timers
  BY <1>1, <1>2, <1>4
<1>10. SameRun(r, s)
  BY <1>1, <1>2, <1>4 DEF SameRun
<1> QED
  BY <1>4, <1>5, <1>7, <1>8, <1>9, <1>10 DEF PriModifySpec

\* The flags of a task that is woken.
Woke(f, ended) == (f \ ended) \cup (IF "SUSPEND" \in f THEN {} ELSE {"READY"})

Off(pend, t) == [l \in PendList |-> Without(pend[l], t)]

WithoutWait(s, t, f) == [Unlink(s, t) EXCEPT !.status[t] = f]

\* What taking a task off its pend list and off the sort link does to each field.
LEMMA UnlinkFields ==
  ASSUME NEW s \in KState, NEW t \in Task, NEW f \in SUBSET Flag, NEW u, u = WithoutWait(s, t, f)
  PROVE  /\ u \in KState
         /\ u.status = [s.status EXCEPT ![t] = f]
         /\ u.pend = Off(s.pend, t)
         /\ u.timers = s.timers \ {t}
         /\ u.prio = s.prio /\ u.ready = s.ready /\ SameRun(u, s)
<1> DEFINE x == [s.status EXCEPT ![t] = f]
           y == Off(s.pend, t)
           z == s.timers \ {t}
<1>1. t \in AnyTask
  BY DEF AnyTask
<1>2. x \in [AnyTask -> SUBSET Flag] /\ z \in SUBSET Task
  BY <1>1 DEF KState
<1>3. y \in [PendList -> Seq(Task)]
  <2>1. \A l \in PendList : Without(s.pend[l], t) \in Seq(Task)
    BY WithoutTyped DEF KState
  <2> QED
    BY <2>1 DEF Off
<1>4. u = PutPend(s, x, y, z)
  BY <1>1 DEF PutPend, KState, Unlink, Off, WithoutWait
<1> HIDE DEF x, y, z
<1>5. /\ u \in KState /\ u.status = x /\ u.pend = y /\ u.timers = z
      /\ u.prio = s.prio /\ u.ready = s.ready /\ SameRun(u, s)
  BY <1>2, <1>3, <1>4, PutPendFields
<1> QED
  BY <1>5 DEF x, y, z

ResumedSpec(r, s, t, ended) ==
  /\ r \in KState
  /\ r.status = [s.status EXCEPT ![t] = Woke(s.status[t], ended)]
  /\ r.ready = IF "SUSPEND" \in s.status[t] THEN s.ready
               ELSE [s.ready EXCEPT ![s.prio[t]] = Append(s.ready[s.prio[t]], t)]
  /\ r.pend = Off(s.pend, t)
  /\ r.timers = s.timers \ {t}
  /\ r.prio = s.prio /\ SameRun(r, s)

\* What the end of a wait does to each field, suspended or not.
LEMMA ResumedFields ==
  ASSUME NEW s \in KState, NEW t \in Task, NEW ended, "SUSPEND" \notin ended,
         NEW r, r = Resumed(s, t, ended)
  PROVE  ResumedSpec(r, s, t, ended)
<1> DEFINE u == WithoutWait(s, t, s.status[t] \ ended)
<1>1. t \in AnyTask /\ s.status \in [AnyTask -> SUBSET Flag]
  BY DEF AnyTask, KState
<1>2. s.status[t] \ ended \in SUBSET Flag
  BY <1>1
<1>3. /\ u \in KState /\ u.status = [s.status EXCEPT ![t] = s.status[t] \ ended]
      /\ u.pend = Off(s.pend, t) /\ u.timers = s.timers \ {t}
      /\ u.prio = s.prio /\ u.ready = s.ready /\ SameRun(u, s)
  <2>1. u = WithoutWait(s, t, s.status[t] \ ended)
    OBVIOUS
  <2> HIDE DEF u
  <2> QED
    BY <1>2, <2>1, UnlinkFields
<1>4. r = EnqueueUnlessSuspended(u, t)
  <2>1. Unlink(s, t).status = s.status
    BY DEF Unlink, KState
  <2>2. Resumed(s, t, ended) = EnqueueUnlessSuspended(WithoutWait(s, t, Unlink(s, t).status[t] \ ended), t)
    BY Zenon DEF Resumed, WithoutWait
  <2> QED
    BY <2>1, <2>2
<1> HIDE DEF u
<1>5. u.status[t] = s.status[t] \ ended
  BY <1>1, <1>3
<1>6. CASE "SUSPEND" \in s.status[t]
  <2>1. r = u
    BY <1>4, <1>5, <1>6 DEF EnqueueUnlessSuspended
  <2>2. u.status = [s.status EXCEPT ![t] = Woke(s.status[t], ended)]
    BY <1>1, <1>3, <1>6 DEF Woke
  <2> QED
    BY <1>3, <1>6, <2>1, <2>2 DEF ResumedSpec
<1>7. CASE "SUSPEND" \notin s.status[t]
  <2>1. r = osPriqueueEnqueue(u, t)
    BY <1>4, <1>5, <1>7 DEF EnqueueUnlessSuspended
  <2>2. /\ r \in KState
        /\ r.status = [u.status EXCEPT ![t] = u.status[t] \cup {"READY"}]
        /\ r.ready = [u.ready EXCEPT ![u.prio[t]] = Append(u.ready[u.prio[t]], t)]
        /\ r.prio = u.prio /\ r.pend = u.pend /\ r.timers = u.timers /\ SameRun(r, u)
    BY <1>1, <1>3, <2>1, EnqueueFields DEF EnqueueSpec
  <2>3. r.status = [s.status EXCEPT ![t] = Woke(s.status[t], ended)]
    BY <1>1, <1>3, <1>5, <1>7, <2>2 DEF Woke
  <2> QED
    BY <1>3, <1>7, <2>2, <2>3 DEF SameRun, ResumedSpec
<1> QED
  BY <1>6, <1>7


-----------------------------------------------------------------------------
(* Flags and lists                                                         *)

\* The flag of a task that waits in a list.
FlagOf(l) == IF l[1] = "queue" THEN "PEND_QUEUE" ELSE "PEND"

InList(f) == "PEND" \in f \/ "PEND_QUEUE" \in f

StatusOK(f) ==
  /\ \A x, y \in f \cap (Blocking \cup {"READY", "UNUSED"}) : x = y
  /\ ~("READY" \in f /\ "SUSPEND" \in f)
  /\ "UNUSED" \in f => f = {"UNUSED"}

StatusesOK(status) == status[Idle] = {"READY"} /\ \A t \in AnyTask : StatusOK(status[t])

ReadyOK(status, prio, ready) ==
  /\ \A p \in 0..Lowest : Distinct(ready[p])
  /\ \A p \in 0..Lowest, t \in AnyTask : OnList(ready[p], t) <=> "READY" \in status[t] /\ p = prio[t]

PendOK(status, pend) ==
  /\ \A l \in PendList : Distinct(pend[l])
  /\ \A l \in PendList, t \in Task : OnList(pend[l], t) => FlagOf(l) \in status[t]
  /\ \A l, m \in PendList, t \in Task : OnList(pend[l], t) /\ OnList(pend[m], t) => l = m
  /\ \A t \in Task : InList(status[t]) => \E l \in PendList : OnList(pend[l], t)

TimersOK(status, timers) == \A t \in Task :
  t \in timers <=> "DELAY" \in status[t] \/ (InList(status[t]) /\ "TIMEOUT" \in status[t])

Links(s) ==
  /\ s \in KState
  /\ StatusesOK(s.status)
  /\ ReadyOK(s.status, s.prio, s.ready)
  /\ PendOK(s.status, s.pend)
  /\ TimersOK(s.status, s.timers)

Statuses == [AnyTask -> SUBSET Flag]
Readies == [0..Lowest -> Seq(AnyTask)]
Pends == [PendList -> Seq(Task)]

\* A task that is made READY at the end of its ready list keeps the lists true.
LEMMA ReadyAppend ==
  ASSUME NEW st \in Statuses, NEW pr \in [AnyTask -> 0..Lowest], NEW rd \in Readies, NEW t \in AnyTask,
         ReadyOK(st, pr, rd), "READY" \notin st[t], NEW f \in SUBSET Flag, "READY" \in f,
         NEW st1, st1 = [st EXCEPT ![t] = f],
         NEW rd1, rd1 = [rd EXCEPT ![pr[t]] = Append(rd[pr[t]], t)]
  PROVE  ReadyOK(st1, pr, rd1)
<1>1. pr[t] \in 0..Lowest /\ rd[pr[t]] \in Seq(AnyTask) /\ Distinct(rd[pr[t]]) /\ ~OnList(rd[pr[t]], t)
  BY DEF ReadyOK, Readies
<1>2. /\ Distinct(Append(rd[pr[t]], t))
      /\ OnList(Append(rd[pr[t]], t), t)
      /\ \A u \in AnyTask : u # t => (OnList(Append(rd[pr[t]], t), u) <=> OnList(rd[pr[t]], u))
  BY <1>1, AppendList
<1>3. /\ rd1[pr[t]] = Append(rd[pr[t]], t)
      /\ \A p \in 0..Lowest : p # pr[t] => rd1[p] = rd[p]
  BY <1>1 DEF Readies
<1>4. st1[t] = f /\ \A u \in AnyTask : u # t => st1[u] = st[u]
  BY DEF Statuses
<1>5. \A p \in 0..Lowest : Distinct(rd1[p])
  BY <1>2, <1>3 DEF ReadyOK
<1>6. ASSUME NEW p \in 0..Lowest, NEW u \in AnyTask
      PROVE  OnList(rd1[p], u) <=> "READY" \in st1[u] /\ p = pr[u]
  <2>1. OnList(rd[p], u) <=> "READY" \in st[u] /\ p = pr[u]
    BY DEF ReadyOK
  <2>2. CASE p = pr[t] /\ u = t
    BY <1>2, <1>3, <1>4, <2>2
  <2>3. CASE p = pr[t] /\ u # t
    BY <1>2, <1>3, <1>4, <2>1, <2>3
  <2>4. CASE p # pr[t]
    BY <1>3, <1>4, <2>1, <2>4
  <2> QED
    BY <2>2, <2>3, <2>4
<1> QED
  BY <1>5, <1>6 DEF ReadyOK

\* A task that is taken off its ready list and loses READY keeps them true.
LEMMA ReadyWithout ==
  ASSUME NEW st \in Statuses, NEW pr \in [AnyTask -> 0..Lowest], NEW rd \in Readies, NEW t \in AnyTask,
         ReadyOK(st, pr, rd), NEW f \in SUBSET Flag, "READY" \notin f,
         NEW st1, st1 = [st EXCEPT ![t] = f],
         NEW rd1, rd1 = [rd EXCEPT ![pr[t]] = Without(rd[pr[t]], t)]
  PROVE  ReadyOK(st1, pr, rd1)
<1>1. pr[t] \in 0..Lowest /\ rd[pr[t]] \in Seq(AnyTask) /\ Distinct(rd[pr[t]])
  BY DEF ReadyOK, Readies
<1>2. /\ Distinct(Without(rd[pr[t]], t))
      /\ ~OnList(Without(rd[pr[t]], t), t)
      /\ \A u \in AnyTask : u # t => (OnList(Without(rd[pr[t]], t), u) <=> OnList(rd[pr[t]], u))
  BY <1>1, WithoutList
<1>3. /\ rd1[pr[t]] = Without(rd[pr[t]], t)
      /\ \A p \in 0..Lowest : p # pr[t] => rd1[p] = rd[p]
  BY <1>1 DEF Readies
<1>4. st1[t] = f /\ \A u \in AnyTask : u # t => st1[u] = st[u]
  BY DEF Statuses
<1>5. \A p \in 0..Lowest : Distinct(rd1[p])
  BY <1>2, <1>3 DEF ReadyOK
<1>6. ASSUME NEW p \in 0..Lowest, NEW u \in AnyTask
      PROVE  OnList(rd1[p], u) <=> "READY" \in st1[u] /\ p = pr[u]
  <2>1. OnList(rd[p], u) <=> "READY" \in st[u] /\ p = pr[u]
    BY DEF ReadyOK
  <2>2. CASE p = pr[t] /\ u = t
    BY <1>2, <1>3, <1>4, <2>2
  <2>3. CASE p = pr[t] /\ u # t
    BY <1>2, <1>3, <1>4, <2>1, <2>3
  <2>4. CASE p # pr[t]
    BY <1>3, <1>4, <2>1, <2>4
  <2> QED
    BY <2>2, <2>3, <2>4
<1> QED
  BY <1>5, <1>6 DEF ReadyOK

\* The ready lists depend on READY alone.
LEMMA ReadySame ==
  ASSUME NEW st, NEW pr, NEW rd, ReadyOK(st, pr, rd), NEW st1,
         \A t \in AnyTask : "READY" \in st1[t] <=> "READY" \in st[t]
  PROVE  ReadyOK(st1, pr, rd)
BY DEF ReadyOK

\* A task that is not READY may change its priority.
LEMMA ReadyPrio ==
  ASSUME NEW st, NEW pr \in [AnyTask -> 0..Lowest], NEW rd, ReadyOK(st, pr, rd),
         NEW t \in AnyTask, "READY" \notin st[t], NEW p \in 0..Lowest
  PROVE  ReadyOK(st, [pr EXCEPT ![t] = p], rd)
BY DEF ReadyOK

\* A task that waits in no list may join one, with that list's flag.
LEMMA PendAppend ==
  ASSUME NEW st \in Statuses, NEW pend \in Pends, NEW t \in Task, NEW l \in PendList,
         PendOK(st, pend), ~InList(st[t]), NEW f \in SUBSET Flag, FlagOf(l) \in f,
         NEW st1, st1 = [st EXCEPT ![t] = f],
         NEW pend1, pend1 = [pend EXCEPT ![l] = Append(pend[l], t)]
  PROVE  PendOK(st1, pend1)
<1>1. pend[l] \in Seq(Task) /\ Distinct(pend[l]) /\ \A m \in PendList : ~OnList(pend[m], t)
  BY DEF PendOK, Pends, InList, FlagOf
<1>2. /\ Distinct(Append(pend[l], t))
      /\ OnList(Append(pend[l], t), t)
      /\ \A u \in Task : u # t => (OnList(Append(pend[l], t), u) <=> OnList(pend[l], u))
  BY <1>1, AppendList
<1>3. pend1[l] = Append(pend[l], t) /\ \A m \in PendList : m # l => pend1[m] = pend[m]
  BY DEF Pends
<1>4. st1[t] = f /\ \A u \in Task : u # t => st1[u] = st[u]
  BY DEF Statuses, AnyTask
<1>5. /\ \A m \in PendList, u \in Task : u # t => (OnList(pend1[m], u) <=> OnList(pend[m], u))
      /\ \A m \in PendList : OnList(pend1[m], t) <=> m = l
      /\ \A m \in PendList : Distinct(pend1[m])
  <2>1. ASSUME NEW m \in PendList
        PROVE  /\ \A u \in Task : u # t => (OnList(pend1[m], u) <=> OnList(pend[m], u))
               /\ OnList(pend1[m], t) <=> m = l
               /\ Distinct(pend1[m])
    <3>1. CASE m = l
      BY <1>2, <1>3, <3>1
    <3>2. CASE m # l
      BY <1>1, <1>3, <3>2 DEF PendOK
    <3> QED
      BY <3>1, <3>2
  <2> QED
    BY <2>1
<1>6. \A m \in PendList, u \in Task : OnList(pend1[m], u) => FlagOf(m) \in st1[u]
  BY <1>4, <1>5 DEF PendOK
<1>7. \A m, n \in PendList, u \in Task : OnList(pend1[m], u) /\ OnList(pend1[n], u) => m = n
  BY <1>5 DEF PendOK
<1>8. \A u \in Task : InList(st1[u]) => \E m \in PendList : OnList(pend1[m], u)
  BY <1>4, <1>5 DEF PendOK
<1> QED
  BY <1>5, <1>6, <1>7, <1>8 DEF PendOK

\* A task that is taken off all pend lists and loses their flags keeps them
\* true; nobody else moves.
LEMMA PendWithout ==
  ASSUME NEW st \in Statuses, NEW pend \in Pends, NEW t \in Task,
         PendOK(st, pend), NEW f \in SUBSET Flag, ~InList(f),
         NEW st1, st1 = [st EXCEPT ![t] = f],
         NEW pend1, pend1 = Off(pend, t)
  PROVE  /\ PendOK(st1, pend1)
         /\ \A l \in PendList : ~OnList(pend[l], t) => pend1[l] = pend[l]
         /\ \A l \in PendList, u \in Task : OnList(pend1[l], u) <=> u # t /\ OnList(pend[l], u)
<1>1. ASSUME NEW l \in PendList
      PROVE  /\ Distinct(pend1[l]) /\ ~OnList(pend1[l], t)
             /\ \A u \in Task : u # t => (OnList(pend1[l], u) <=> OnList(pend[l], u))
             /\ ~OnList(pend[l], t) => pend1[l] = pend[l]
  <2>1. pend[l] \in Seq(Task) /\ Distinct(pend[l])
    BY DEF PendOK, Pends
  <2>2. pend1[l] = Without(pend[l], t)
    BY DEF Off
  <2> QED
    BY <2>1, <2>2, WithoutList
<1>2. st1[t] = f /\ \A u \in Task : u # t => st1[u] = st[u]
  BY DEF Statuses, AnyTask
<1>3. \A l \in PendList : Distinct(pend1[l])
  BY <1>1
<1>4. \A l \in PendList, u \in Task : OnList(pend1[l], u) <=> u # t /\ OnList(pend[l], u)
  BY <1>1
<1>5. \A l \in PendList, u \in Task : OnList(pend1[l], u) => FlagOf(l) \in st1[u]
  BY <1>2, <1>4 DEF PendOK
<1>6. \A l, m \in PendList, u \in Task : OnList(pend1[l], u) /\ OnList(pend1[m], u) => l = m
  BY <1>4 DEF PendOK
<1>7. \A u \in Task : InList(st1[u]) => \E l \in PendList : OnList(pend1[l], u)
  BY <1>2, <1>4 DEF PendOK
<1> QED
  BY <1>1, <1>3, <1>4, <1>5, <1>6, <1>7 DEF PendOK

\* The pend lists depend on PEND and PEND_QUEUE alone.
LEMMA PendSame ==
  ASSUME NEW st, NEW pend, PendOK(st, pend), NEW st1,
         \A t \in Task : /\ "PEND" \in st1[t] <=> "PEND" \in st[t]
                         /\ "PEND_QUEUE" \in st1[t] <=> "PEND_QUEUE" \in st[t]
  PROVE  PendOK(st1, pend)
BY DEF PendOK, FlagOf, InList


-----------------------------------------------------------------------------
(* What each function does to the flags and the lists                      *)

\* On no list of ready tasks, and in no wait.
Detached(f) == f \cap (Blocking \cup {"READY", "UNUSED", "SUSPEND"}) = {}

\* osPriqueueEnqueue keeps flags and lists together, for a task that is in none.
LEMMA EnqueueLinks ==
  ASSUME NEW s, Links(s), NEW t \in AnyTask,
         Detached(s.status[t]),
         NEW r, r = osPriqueueEnqueue(s, t)
  PROVE  Links(r)
<1> DEFINE f == s.status[t] \cup {"READY"}
<1>1. s \in KState /\ t \in AnyTask
  BY DEF Links
<1>2. /\ s.status \in Statuses /\ s.prio \in [AnyTask -> 0..Lowest] /\ s.ready \in Readies
      /\ f \in SUBSET Flag /\ t # Idle /\ "READY" \notin s.status[t] /\ "READY" \in f
  BY <1>1 DEF KState, Statuses, Readies, Flag, Links, StatusesOK, Detached
<1>3. /\ r \in KState
      /\ r.status = [s.status EXCEPT ![t] = f]
      /\ r.ready = [s.ready EXCEPT ![s.prio[t]] = Append(s.ready[s.prio[t]], t)]
      /\ r.prio = s.prio /\ r.pend = s.pend /\ r.timers = s.timers
  <2>1. f = s.status[t] \cup {"READY"}
    OBVIOUS
  <2> HIDE DEF f
  <2> QED
    BY <1>1, <2>1, EnqueueFields DEF EnqueueSpec
<1>9. \A x \in Blocking \cup {"TIMEOUT"} : x \in f <=> x \in s.status[t]
  BY DEF Blocking
<1> HIDE DEF f
<1>4. r.status[t] = f /\ \A u \in AnyTask : u # t => r.status[u] = s.status[u]
  BY <1>2, <1>3 DEF Statuses
<1>5. ReadyOK(r.status, r.prio, r.ready)
  <2>1. ReadyOK(s.status, s.prio, s.ready)
    BY DEF Links
  <2>2. PICK st, pr, rd, st1, rd1 : /\ st = s.status /\ pr = s.prio /\ rd = s.ready
                                    /\ st1 = r.status /\ rd1 = r.ready
    OBVIOUS
  <2>3. /\ st \in Statuses /\ pr \in [AnyTask -> 0..Lowest] /\ rd \in Readies
        /\ ReadyOK(st, pr, rd) /\ "READY" \notin st[t] /\ f \in SUBSET Flag /\ "READY" \in f
        /\ st1 = [st EXCEPT ![t] = f] /\ rd1 = [rd EXCEPT ![pr[t]] = Append(rd[pr[t]], t)]
    BY <1>2, <1>3, <2>1, <2>2
  <2>4. ReadyOK(st1, pr, rd1)
    BY <2>3, ReadyAppend
  <2> QED
    BY <1>3, <2>2, <2>4
<1>6. PendOK(r.status, r.pend)
  <2>1. \A u \in Task : /\ "PEND" \in r.status[u] <=> "PEND" \in s.status[u]
                        /\ "PEND_QUEUE" \in r.status[u] <=> "PEND_QUEUE" \in s.status[u]
    BY <1>4, <1>9 DEF AnyTask, Blocking
  <2> QED
    BY <1>3, <2>1, PendSame DEF Links
<1>7. TimersOK(r.status, r.timers)
  <2>1. ASSUME NEW u \in Task
        PROVE  u \in r.timers <=> "DELAY" \in r.status[u] \/ (InList(r.status[u]) /\ "TIMEOUT" \in r.status[u])
    BY <1>3, <1>4, <1>9 DEF Links, TimersOK, InList, AnyTask, Blocking
  <2> QED
    BY <2>1 DEF TimersOK
<1>8. StatusesOK(r.status)
  <2>1. StatusOK(f)
    BY DEF StatusOK, Blocking, Detached, f
  <2>2. Idle \in AnyTask
    BY DEF AnyTask
  <2> QED
    BY <1>2, <1>4, <2>1, <2>2 DEF Links, StatusesOK
<1> QED
  BY <1>3, <1>5, <1>6, <1>7, <1>8 DEF Links

\* osPriqueueDequeue keeps them together, for a READY task; for one that is not
\* READY the source would unlink it from the list it waits in.
LEMMA DequeueLinks ==
  ASSUME NEW s, Links(s), NEW t \in Task, "READY" \in s.status[t],
         NEW r, r = osPriqueueDequeue(s, t)
  PROVE  Links(r)
<1> DEFINE f == s.status[t] \ {"READY"}
<1>1. s \in KState /\ t \in AnyTask /\ Idle \in AnyTask /\ t # Idle
  BY TasksAssumption DEF Links, AnyTask
<1>2. /\ s.status \in Statuses /\ s.prio \in [AnyTask -> 0..Lowest] /\ s.ready \in Readies
      /\ f \in SUBSET Flag /\ "READY" \notin f
  BY <1>1 DEF KState, Statuses, Readies
<1>3. /\ r \in KState
      /\ r.status = [s.status EXCEPT ![t] = f]
      /\ r.ready = [s.ready EXCEPT ![s.prio[t]] = Without(s.ready[s.prio[t]], t)]
      /\ r.prio = s.prio /\ r.pend = s.pend /\ r.timers = s.timers
  BY <1>1, DequeueFields DEF DequeueSpec
<1>9. \A x \in Blocking \cup {"TIMEOUT"} : x \in f <=> x \in s.status[t]
  BY DEF Blocking
<1> HIDE DEF f
<1>4. r.status[t] = f /\ \A u \in AnyTask : u # t => r.status[u] = s.status[u]
  BY <1>1, <1>2, <1>3 DEF Statuses
<1>5. ReadyOK(r.status, r.prio, r.ready)
  BY <1>1, <1>2, <1>3, ReadyWithout DEF Links
<1>6. PendOK(r.status, r.pend)
  <2>1. \A u \in Task : /\ "PEND" \in r.status[u] <=> "PEND" \in s.status[u]
                        /\ "PEND_QUEUE" \in r.status[u] <=> "PEND_QUEUE" \in s.status[u]
    BY <1>4, <1>9 DEF AnyTask, Blocking
  <2> QED
    BY <1>3, <2>1, PendSame DEF Links
<1>7. TimersOK(r.status, r.timers)
  <2>1. ASSUME NEW u \in Task
        PROVE  u \in r.timers <=> "DELAY" \in r.status[u] \/ (InList(r.status[u]) /\ "TIMEOUT" \in r.status[u])
    BY <1>3, <1>4, <1>9 DEF Links, TimersOK, InList, AnyTask, Blocking
  <2> QED
    BY <2>1 DEF TimersOK
<1>8. StatusesOK(r.status)
  <2>1. StatusOK(f)
    BY <1>1 DEF StatusOK, Blocking, Links, StatusesOK, f
  <2> QED
    BY <1>1, <1>4, <2>1 DEF Links, StatusesOK
<1> QED
  BY <1>3, <1>5, <1>6, <1>7, <1>8 DEF Links

\* osTaskWait keeps them together, for a running task whose TIMEOUT is clear.
LEMMA WaitLinks ==
  ASSUME NEW s, Links(s), NEW t \in Task, t = s.run,
         "READY" \in s.status[t], "TIMEOUT" \notin s.status[t],
         NEW list \in PendList, NEW timed,
         NEW r, r = osTaskWait(s, list, FlagOf(list), timed)
  PROVE  Links(r)
<1> DEFINE f == (s.status[t] \ {"READY"}) \cup {FlagOf(list)} \cup (IF timed THEN {"TIMEOUT"} ELSE {})
<1>1. /\ s \in KState /\ t \in AnyTask /\ Idle \in AnyTask /\ t # Idle
      /\ FlagOf(list) \in {"PEND", "PEND_QUEUE"}
  BY TasksAssumption DEF Links, AnyTask, FlagOf
<1>2. /\ s.status \in Statuses /\ s.prio \in [AnyTask -> 0..Lowest] /\ s.ready \in Readies
      /\ s.pend \in Pends /\ f \in SUBSET Flag
  BY <1>1 DEF KState, Statuses, Readies, Pends, Flag, Blocking
<1>3. /\ r \in KState
      /\ r.status = [s.status EXCEPT ![t] = f]
      /\ r.ready = [s.ready EXCEPT ![s.prio[t]] = Without(s.ready[s.prio[t]], t)]
      /\ r.pend = [s.pend EXCEPT ![list] = Append(s.pend[list], t)]
      /\ r.timers = IF timed THEN s.timers \cup {t} ELSE s.timers
      /\ r.prio = s.prio
  <2>1. /\ f = (s.status[t] \ {"READY"}) \cup {FlagOf(list)} \cup (IF timed THEN {"TIMEOUT"} ELSE {})
        /\ FlagOf(list) \in Blocking
    BY <1>1 DEF Blocking
  <2> HIDE DEF f
  <2>2. WaitSpec(r, s, t, list, FlagOf(list), timed)
    BY <1>1, <2>1, WaitFields
  <2> QED
    BY <2>1, <2>2 DEF WaitSpec
<1>4. r.status[t] = f /\ \A u \in AnyTask : u # t => r.status[u] = s.status[u]
  BY <1>1, <1>2, <1>3 DEF Statuses
<1>5. s.status[t] \cap (Blocking \cup {"READY", "UNUSED"}) = {"READY"}
  BY <1>1 DEF StatusOK, Links, StatusesOK
<1>6. ReadyOK(r.status, r.prio, r.ready)
  <2>1. "READY" \notin f
    BY <1>1
  <2>2. ReadyOK(s.status, s.prio, s.ready)
    BY DEF Links
  <2> HIDE DEF f
  <2>3. PICK st, rd : st = r.status /\ rd = r.ready
    OBVIOUS
  <2>4. /\ st = [s.status EXCEPT ![t] = f]
        /\ rd = [s.ready EXCEPT ![s.prio[t]] = Without(s.ready[s.prio[t]], t)]
    BY <1>3, <2>3
  <2>5. ReadyOK(st, s.prio, rd)
    BY <1>1, <1>2, <2>1, <2>2, <2>4, ReadyWithout
  <2> QED
    BY <1>3, <2>3, <2>5
<1>7. PendOK(r.status, r.pend)
  <2>1. ~InList(s.status[t])
    BY <1>5 DEF InList, Blocking
  <2>2. FlagOf(list) \in f
    OBVIOUS
  <2>3. PendOK(s.status, s.pend)
    BY DEF Links
  <2> HIDE DEF f
  <2>4. PICK st, pend : st = r.status /\ pend = r.pend
    OBVIOUS
  <2>5. st = [s.status EXCEPT ![t] = f] /\ pend = [s.pend EXCEPT ![list] = Append(s.pend[list], t)]
    BY <1>3, <2>4
  <2>6. PendOK(st, pend)
    BY <1>2, <2>1, <2>2, <2>3, <2>5, PendAppend
  <2> QED
    BY <2>4, <2>6
<1>8. TimersOK(r.status, r.timers)
  <2>1. t \notin s.timers
    BY <1>5 DEF Links, TimersOK, InList, Blocking
  <2>2. InList(f) /\ "DELAY" \notin f /\ ("TIMEOUT" \in f <=> timed)
    BY <1>1, <1>5 DEF InList, Blocking
  <2> HIDE DEF f
  <2>3. ASSUME NEW u \in Task
        PROVE  u \in r.timers <=> "DELAY" \in r.status[u] \/ (InList(r.status[u]) /\ "TIMEOUT" \in r.status[u])
    <3>1. CASE u = t
      BY <1>3, <1>4, <2>1, <2>2, <3>1
    <3>2. CASE u # t
      BY <1>3, <1>4, <3>2 DEF Links, TimersOK, AnyTask
    <3> QED
      BY <3>1, <3>2
  <2> QED
    BY <2>3 DEF TimersOK
<1>9. StatusesOK(r.status)
  <2>1. StatusOK(f)
    <3>1. f \cap (Blocking \cup {"READY", "UNUSED"}) = {FlagOf(list)}
      BY <1>1, <1>5 DEF Blocking
    <3> QED
      BY <1>1, <3>1 DEF StatusOK
  <2> QED
    BY <1>1, <1>4, <2>1 DEF Links, StatusesOK
<1> QED
  BY <1>3, <1>6, <1>7, <1>8, <1>9 DEF Links

\* The end of a wait keeps them together and moves nobody else, if it ends the
\* wait the task is in.
LEMMA ResumedLinks ==
  ASSUME NEW s, Links(s), NEW t \in Task, NEW ended \in SUBSET (Blocking \cup {"TIMEOUT"}),
         s.status[t] \cap ended \cap Blocking # {},
         NEW r, r = Resumed(s, t, ended)
  PROVE  /\ Links(r)
         /\ \A l \in PendList : ~OnList(s.pend[l], t) => r.pend[l] = s.pend[l]
         /\ \A l \in PendList, u \in Task : OnList(r.pend[l], u) <=> u # t /\ OnList(s.pend[l], u)
<1> DEFINE f == Woke(s.status[t], ended)
<1>1. /\ s \in KState /\ t \in AnyTask /\ Idle \in AnyTask /\ t # Idle /\ "SUSPEND" \notin ended
  BY TasksAssumption DEF Links, AnyTask, Blocking
<1>2. /\ s.status \in Statuses /\ s.prio \in [AnyTask -> 0..Lowest] /\ s.ready \in Readies
      /\ s.pend \in Pends /\ f \in SUBSET Flag
  BY <1>1 DEF KState, Statuses, Readies, Pends, Flag, Blocking, Woke
<1>3. /\ r \in KState
      /\ r.status = [s.status EXCEPT ![t] = f]
      /\ r.ready = IF "SUSPEND" \in s.status[t] THEN s.ready
                   ELSE [s.ready EXCEPT ![s.prio[t]] = Append(s.ready[s.prio[t]], t)]
      /\ r.pend = Off(s.pend, t)
      /\ r.timers = s.timers \ {t}
      /\ r.prio = s.prio
  <2>1. ResumedSpec(r, s, t, ended)
    BY <1>1, ResumedFields
  <2> QED
    BY <2>1 DEF ResumedSpec
<1>4. r.status[t] = f /\ \A u \in AnyTask : u # t => r.status[u] = s.status[u]
  BY <1>1, <1>2, <1>3 DEF Statuses
<1>5. PICK x \in Blocking : s.status[t] \cap (Blocking \cup {"READY", "UNUSED"}) = {x} /\ x \in ended
  BY <1>1 DEF StatusOK, Links, StatusesOK
<1>6. /\ f \cap (Blocking \cup {"UNUSED"}) = {}
      /\ "READY" \notin s.status[t]
      /\ "READY" \in f <=> "SUSPEND" \notin s.status[t]
      /\ "SUSPEND" \in f <=> "SUSPEND" \in s.status[t]
  BY <1>1, <1>5 DEF Woke, Blocking
<1> HIDE DEF f
<1>7. ReadyOK(r.status, r.prio, r.ready)
  <2>1. CASE "SUSPEND" \in s.status[t]
    <3>1. \A u \in AnyTask : "READY" \in r.status[u] <=> "READY" \in s.status[u]
      BY <1>4, <1>6, <2>1
    <3> QED
      BY <1>3, <2>1, <3>1, ReadySame DEF Links
  <2>2. CASE "SUSPEND" \notin s.status[t]
    <3>1. ReadyOK(s.status, s.prio, s.ready)
      BY DEF Links
    <3>2. /\ r.status = [s.status EXCEPT ![t] = f]
          /\ r.ready = [s.ready EXCEPT ![s.prio[t]] = Append(s.ready[s.prio[t]], t)]
      BY <1>3, <2>2
    <3>3. "READY" \notin s.status[t] /\ "READY" \in f
      BY <1>6, <2>2
    <3>4. PICK st, pr, rd, st1, rd1 : /\ st = s.status /\ pr = s.prio /\ rd = s.ready
                                    /\ st1 = r.status /\ rd1 = r.ready
      OBVIOUS
    <3>5. /\ st \in Statuses /\ pr \in [AnyTask -> 0..Lowest] /\ rd \in Readies /\ t \in AnyTask
          /\ ReadyOK(st, pr, rd) /\ "READY" \notin st[t] /\ f \in SUBSET Flag /\ "READY" \in f
          /\ st1 = [st EXCEPT ![t] = f] /\ rd1 = [rd EXCEPT ![pr[t]] = Append(rd[pr[t]], t)]
      BY <1>1, <1>2, <3>1, <3>2, <3>3, <3>4
    <3>6. ReadyOK(st1, pr, rd1)
      BY <3>5, ReadyAppend
    <3> QED
      BY <1>3, <3>4, <3>6
  <2> QED
    BY <2>1, <2>2
<1>8. ~InList(f) /\ "DELAY" \notin f
  BY <1>6 DEF InList, Blocking
<1>9. /\ PendOK(r.status, r.pend)
      /\ \A l \in PendList : ~OnList(s.pend[l], t) => r.pend[l] = s.pend[l]
      /\ \A l \in PendList, u \in Task : OnList(r.pend[l], u) <=> u # t /\ OnList(s.pend[l], u)
  BY <1>2, <1>3, <1>8, PendWithout DEF Links
<1>10. TimersOK(r.status, r.timers)
  <2>1. ASSUME NEW u \in Task
        PROVE  u \in r.timers <=> "DELAY" \in r.status[u] \/ (InList(r.status[u]) /\ "TIMEOUT" \in r.status[u])
    <3>1. CASE u = t
      BY <1>3, <1>4, <1>8, <3>1
    <3>2. CASE u # t
      BY <1>3, <1>4, <3>2 DEF Links, TimersOK, AnyTask
    <3> QED
      BY <3>1, <3>2
  <2> QED
    BY <2>1 DEF TimersOK
<1>11. StatusesOK(r.status)
  <2>1. StatusOK(f)
    BY <1>6 DEF StatusOK
  <2> QED
    BY <1>1, <1>4, <2>1 DEF Links, StatusesOK
<1> QED
  BY <1>3, <1>7, <1>9, <1>10, <1>11 DEF Links

\* The states the loop of WakeAll goes through, up to r.
LoopSpec(w, s, list, who, flag, r) ==
  /\ w[0] = s
  /\ \A i \in 1..Len(list) :
       w[i] = IF list[i] \in who THEN osTaskWake(w[i - 1], list[i], flag) ELSE w[i - 1]
  /\ r = w[Len(list)]

\* The loop of WakeAll as a function of the places it has passed.
LEMMA WakeAllLoop ==
  ASSUME NEW s, NEW list, Len(list) \in Nat, NEW who, NEW flag
  PROVE  \E w : LoopSpec(w, s, list, who, flag, WakeAll(s, list, who, flag))
<1> DEFINE Step(x, i) == IF list[i] \in who THEN osTaskWake(x, list[i], flag) ELSE x
           Loop(w, n) == w = [i \in 0..n |-> IF i = 0 THEN s ELSE Step(w[i - 1], i)]
           P == {n \in 0..Len(list) : \E w : Loop(w, n)}
<1>1. 0 \in P
  <2> DEFINE w == [i \in 0..0 |-> s]
  <2>1. Loop(w, 0)
    OBVIOUS
  <2>2. 0 \in 0..Len(list)
    OBVIOUS
  <2> HIDE DEF w, Loop
  <2> QED
    BY <2>1, <2>2
<1>2. ASSUME NEW n \in 0..Len(list) - 1, n \in P
      PROVE  n + 1 \in P
  <2>1. PICK v : Loop(v, n)
    BY <1>2
  <2> DEFINE w == [i \in 0..n + 1 |-> IF i = n + 1 THEN Step(v[n], n + 1) ELSE v[i]]
  <2>2. \A i \in 0..n : v[i] = IF i = 0 THEN s ELSE Step(v[i - 1], i)
    BY <2>1
  <2>3. \A i \in 0..n : w[i] = v[i]
    OBVIOUS
  <2>4. w[n + 1] = Step(v[n], n + 1)
    OBVIOUS
  <2> HIDE DEF Step
  <2>5. ASSUME NEW i \in 0..n + 1
        PROVE  w[i] = IF i = 0 THEN s ELSE Step(w[i - 1], i)
    <3>1. CASE i = n + 1
      BY <2>3, <2>4, <3>1
    <3>2. CASE i # n + 1 /\ i # 0
      <4>1. i \in 0..n /\ i - 1 \in 0..n
        BY <3>2
      <4> QED
        BY <2>2, <2>3, <3>2, <4>1
    <3>3. CASE i = 0
      BY <2>2, <2>3, <3>3
    <3> QED
      BY <3>1, <3>2, <3>3
  <2>6. w = [i \in 0..n + 1 |-> w[i]]
    OBVIOUS
  <2> HIDE DEF w
  <2>7. Loop(w, n + 1)
    BY <2>5, <2>6
  <2> QED
    BY <2>7
<1>3. Len(list) \in P
  <2> HIDE DEF P
  <2>1. PICK m : m = Len(list) /\ m \in Nat
    OBVIOUS
  <2>2. \A i \in 0..m - 1 : i \in P => i + 1 \in P
    BY <1>2, <2>1
  <2>3. \A i \in 0..m : i \in P
    BY <1>1, <2>1, <2>2, UpTo
  <2> QED
    BY <2>1, <2>3
<1> DEFINE w == CHOOSE w : Loop(w, Len(list))
<1>4. Loop(w, Len(list))
  BY <1>3
<1>5. WakeAll(s, list, who, flag) = w[Len(list)]
  BY DEF WakeAll
<1> HIDE DEF w
<1>6. w[0] = s
  BY <1>4
<1>7. \A i \in 1..Len(list) : w[i] = Step(w[i - 1], i)
  <2>1. w = [i \in 0..Len(list) |-> IF i = 0 THEN s ELSE Step(w[i - 1], i)]
    BY <1>4
  <2> HIDE DEF Step
  <2>2. TAKE i \in 1..Len(list)
  <2>3. i \in 0..Len(list) /\ i # 0
    OBVIOUS
  <2> QED
    BY <2>1, <2>3
<1> QED
  BY <1>5, <1>6, <1>7 DEF LoopSpec

\* x is s after the tasks D that waited in l have been woken.
WokenSpec(x, s, l, D) ==
  /\ Links(x) /\ SameRun(x, s) /\ x.prio = s.prio
  /\ \A t \in AnyTask :
       x.status[t] = IF t \in D THEN Woke(s.status[t], {FlagOf(l), "TIMEOUT"}) ELSE s.status[t]
  /\ \A m \in PendList, u \in Task : OnList(x.pend[m], u) <=> OnList(s.pend[m], u) /\ u \notin D
  /\ \A m \in PendList : m # l => x.pend[m] = s.pend[m]

\* One more task of the list woken.
LEMMA WakeNext ==
  ASSUME NEW s, Links(s), NEW l \in PendList, NEW D, NEW x, WokenSpec(x, s, l, D),
         NEW t \in Task, OnList(s.pend[l], t), t \notin D,
         NEW r, r = osTaskWake(x, t, FlagOf(l))
  PROVE  WokenSpec(r, s, l, D \cup {t})
<1> DEFINE ended == {FlagOf(l), "TIMEOUT"}
<1>1. /\ Links(x) /\ SameRun(x, s) /\ x.prio = s.prio
      /\ x.status[t] = s.status[t] /\ t \in AnyTask
      /\ FlagOf(l) \in s.status[t]
  BY DEF WokenSpec, Links, PendOK, AnyTask
<1>2. ended \in SUBSET (Blocking \cup {"TIMEOUT"}) /\ x.status[t] \cap ended \cap Blocking # {}
  BY <1>1 DEF FlagOf, Blocking
<1>3. r = Resumed(x, t, ended)
  BY DEF osTaskWake
<1>4. "SUSPEND" \notin ended
  BY DEF FlagOf
<1> HIDE DEF ended
<1>5. /\ Links(r)
      /\ \A m \in PendList : ~OnList(x.pend[m], t) => r.pend[m] = x.pend[m]
      /\ \A m \in PendList, u \in Task : OnList(r.pend[m], u) <=> u # t /\ OnList(x.pend[m], u)
  BY <1>1, <1>2, <1>3, ResumedLinks
<1>6. x \in KState /\ x.status \in Statuses
  BY <1>1 DEF Links, KState, Statuses
<1>7. r.status = [x.status EXCEPT ![t] = Woke(x.status[t], ended)] /\ r.prio = x.prio /\ SameRun(r, x)
  <2>1. ResumedSpec(r, x, t, ended)
    BY <1>3, <1>4, <1>6, ResumedFields
  <2> QED
    BY <2>1 DEF ResumedSpec
<1>8. r.status[t] = Woke(x.status[t], ended) /\ \A u \in AnyTask : u # t => r.status[u] = x.status[u]
  BY <1>1, <1>6, <1>7 DEF Statuses
<1>9. ASSUME NEW u \in AnyTask
      PROVE  r.status[u] = IF u \in D \cup {t} THEN Woke(s.status[u], ended) ELSE s.status[u]
  <2>1. x.status[u] = IF u \in D THEN Woke(s.status[u], ended) ELSE s.status[u]
    BY DEF WokenSpec, ended
  <2> QED
    BY <1>1, <1>8, <2>1
<1>10. ASSUME NEW m \in PendList, NEW u \in Task
       PROVE  OnList(r.pend[m], u) <=> OnList(s.pend[m], u) /\ u \notin D \cup {t}
  BY <1>5 DEF WokenSpec
<1>11. ASSUME NEW m \in PendList, m # l
       PROVE  r.pend[m] = s.pend[m]
  <2>1. ~OnList(s.pend[m], t)
    BY <1>11 DEF Links, PendOK
  <2>2. ~OnList(x.pend[m], t) /\ x.pend[m] = s.pend[m]
    BY <1>11, <2>1 DEF WokenSpec
  <2> QED
    BY <1>5, <2>2
<1>12. SameRun(r, s) /\ r.prio = s.prio
  BY <1>1, <1>7 DEF SameRun
<1> QED
  BY <1>5, <1>9, <1>10, <1>11, <1>12 DEF WokenSpec, ended

\* Of the tasks that wait in l, those in who are woken.
LEMMA WakeAllSpec ==
  ASSUME NEW s, Links(s), NEW l \in PendList, NEW who,
         NEW r, r = WakeAll(s, s.pend[l], who, FlagOf(l))
  PROVE  WokenSpec(r, s, l, {t \in Task : t \in who /\ OnList(s.pend[l], t)})
<1> DEFINE list == s.pend[l]
           D(i) == {t \in Task : t \in who /\ \E j \in 1..i : list[j] = t}
<1>1. /\ list \in Seq(Task) /\ Distinct(list)
      /\ Len(list) \in Nat /\ DOMAIN list = 1..Len(list)
      /\ \A i \in 1..Len(list) : list[i] \in Task
  BY LenProperties DEF Links, KState, PendOK
<1>2. PICK w : /\ w[0] = s
               /\ \A i \in 1..Len(list) :
                    w[i] = IF list[i] \in who THEN osTaskWake(w[i - 1], list[i], FlagOf(l)) ELSE w[i - 1]
               /\ r = w[Len(list)]
  <2>1. r = WakeAll(s, list, who, FlagOf(l))
    OBVIOUS
  <2>2. Len(list) \in Nat
    BY <1>1
  <2> HIDE DEF list
  <2>3. PICK w : LoopSpec(w, s, list, who, FlagOf(l), WakeAll(s, list, who, FlagOf(l)))
    BY <2>2, WakeAllLoop
  <2> QED
    BY <2>1, <2>3 DEF LoopSpec
<1> HIDE DEF list
<1> DEFINE P == {i \in 0..Len(list) : WokenSpec(w[i], s, l, D(i))}
<1>3. 0 \in P
  <2>1. D(0) = {}
    OBVIOUS
  <2> HIDE DEF D
  <2>2. WokenSpec(s, s, l, {})
    BY DEF WokenSpec, SameRun
  <2>3. 0 \in 0..Len(list)
    BY <1>1
  <2>4. WokenSpec(w[0], s, l, D(0))
    BY <1>2, <2>1, <2>2
  <2> QED
    BY <2>3, <2>4
<1>4. ASSUME NEW i \in 0..Len(list) - 1, i \in P
      PROVE  i + 1 \in P
  <2>1. /\ i + 1 \in 1..Len(list) /\ (i + 1) - 1 = i /\ i + 1 \in 0..Len(list)
        /\ list[i + 1] \in Task
    BY <1>1
  <2>2. /\ WokenSpec(w[i], s, l, D(i))
        /\ w[i + 1] = IF list[i + 1] \in who THEN osTaskWake(w[i], list[i + 1], FlagOf(l)) ELSE w[i]
    BY <1>2, <1>4, <2>1
  <2>3. CASE list[i + 1] \notin who
    <3>1. D(i + 1) = D(i)
      BY <1>1, <2>1, <2>3
    <3> HIDE DEF D
    <3> QED
      BY <2>1, <2>2, <2>3, <3>1
  <2>4. CASE list[i + 1] \in who
    <3>1. D(i + 1) = D(i) \cup {list[i + 1]}
      BY <1>1, <2>1, <2>4
    <3>2. list[i + 1] \notin D(i)
      BY <1>1, <2>1 DEF Distinct
    <3>3. OnList(s.pend[l], list[i + 1])
      BY <1>1, <2>1 DEF OnList, list
    <3> HIDE DEF D
    <3>4. WokenSpec(w[i + 1], s, l, D(i) \cup {list[i + 1]})
      BY <2>1, <2>2, <2>4, <3>2, <3>3, WakeNext
    <3> QED
      BY <2>1, <3>1, <3>4
  <2> QED
    BY <2>3, <2>4
<1>5. Len(list) \in P
  <2> HIDE DEF P
  <2>1. \A i \in 0..Len(list) : i \in P
    BY <1>1, <1>3, <1>4, UpTo
  <2> QED
    BY <1>1, <2>1
<1>6. D(Len(list)) = {t \in Task : t \in who /\ OnList(s.pend[l], t)}
  BY <1>1 DEF OnList, list
<1> HIDE DEF D
<1> QED
  BY <1>2, <1>5, <1>6


\* The lists stay as they are when no flag changes that says where a task is.
LEMMA StatusLinks ==
  ASSUME NEW s, Links(s), NEW r \in KState,
         r.prio = s.prio, r.ready = s.ready, r.pend = s.pend, r.timers = s.timers,
         StatusesOK(r.status),
         \A t \in AnyTask : \A x \in Blocking \cup {"READY"} : x \in r.status[t] <=> x \in s.status[t],
         \A t \in Task : InList(r.status[t]) => ("TIMEOUT" \in r.status[t] <=> "TIMEOUT" \in s.status[t])
  PROVE  Links(r)
<1>1. ReadyOK(r.status, r.prio, r.ready)
  BY ReadySame DEF Links
<1>2. \A t \in Task : /\ "PEND" \in r.status[t] <=> "PEND" \in s.status[t]
                      /\ "PEND_QUEUE" \in r.status[t] <=> "PEND_QUEUE" \in s.status[t]
                      /\ "DELAY" \in r.status[t] <=> "DELAY" \in s.status[t]
  BY DEF AnyTask, Blocking
<1>3. PendOK(r.status, r.pend)
  BY <1>2, PendSame DEF Links
<1>4. TimersOK(r.status, r.timers)
  <2>1. ASSUME NEW t \in Task
        PROVE  t \in r.timers <=> "DELAY" \in r.status[t] \/ (InList(r.status[t]) /\ "TIMEOUT" \in r.status[t])
    BY <1>2 DEF Links, TimersOK, InList
  <2> QED
    BY <2>1 DEF TimersOK
<1> QED
  BY <1>1, <1>3, <1>4 DEF Links

Restated(r, s, t, f) ==
  /\ Links(r) /\ r.status = [s.status EXCEPT ![t] = f]
  /\ r.prio = s.prio /\ r.ready = s.ready /\ r.pend = s.pend /\ r.timers = s.timers
  /\ SameRun(r, s)

\* The flags of one task change, none of which says where it is.
LEMMA OneStatusLinks ==
  ASSUME NEW s, Links(s), NEW t \in Task, NEW f \in SUBSET Flag, StatusOK(f),
         \A x \in Blocking \cup {"READY"} : x \in f <=> x \in s.status[t],
         InList(f) => ("TIMEOUT" \in f <=> "TIMEOUT" \in s.status[t]),
         NEW r, r = Flagged(s, t, f)
  PROVE  Restated(r, s, t, f)
<1>1. s \in KState /\ t \in AnyTask /\ Idle \in AnyTask /\ t # Idle
  BY TasksAssumption DEF Links, AnyTask
<1>2. /\ r \in KState /\ r.status = [s.status EXCEPT ![t] = f]
      /\ r.prio = s.prio /\ r.ready = s.ready /\ r.pend = s.pend /\ r.timers = s.timers
      /\ SameRun(r, s)
  BY <1>1, StatusFields
<1>3. r.status[t] = f /\ \A u \in AnyTask : u # t => r.status[u] = s.status[u]
  BY <1>1, <1>2 DEF KState
<1>4. StatusesOK(r.status)
  BY <1>1, <1>3 DEF Links, StatusesOK
<1>5. \A u \in AnyTask : \A x \in Blocking \cup {"READY"} : x \in r.status[u] <=> x \in s.status[u]
  BY <1>3
<1>6. \A u \in Task : InList(r.status[u]) => ("TIMEOUT" \in r.status[u] <=> "TIMEOUT" \in s.status[u])
  BY <1>3 DEF AnyTask
<1>7. Links(r)
  BY <1>2, <1>4, <1>5, <1>6, StatusLinks
<1> QED
  BY <1>2, <1>7 DEF Restated

Reprioritised(r, s, t, p) ==
  /\ Links(r) /\ r.status = s.status /\ r.pend = s.pend /\ r.timers = s.timers
  /\ r.prio = [s.prio EXCEPT ![t] = p] /\ SameRun(r, s)
  /\ "READY" \notin s.status[t] => r.ready = s.ready

\* osTaskPriModify keeps flags and lists together, ready or not.
LEMMA PriModifyLinks ==
  ASSUME NEW s, Links(s), NEW t \in Task, NEW p \in 0..Lowest, NEW r, r = osTaskPriModify(s, t, p)
  PROVE  Reprioritised(r, s, t, p)
<1>1. /\ s \in KState /\ t \in AnyTask
      /\ s.status \in Statuses /\ s.prio \in [AnyTask -> 0..Lowest] /\ s.ready \in Readies
  BY DEF Links, AnyTask, KState, Statuses, Readies
<1>2. CASE "READY" \in s.status[t]
  <2> DEFINE off == [s.ready EXCEPT ![s.prio[t]] = Without(s.ready[s.prio[t]], t)]
             st == [s.status EXCEPT ![t] = s.status[t] \ {"READY"}]
             pr == [s.prio EXCEPT ![t] = p]
  <2>1. off = [s.ready EXCEPT ![s.prio[t]] = Without(s.ready[s.prio[t]], t)]
    OBVIOUS
  <2>2. st = [s.status EXCEPT ![t] = s.status[t] \ {"READY"}] /\ s.status[t] \ {"READY"} \in SUBSET Flag
    BY <1>1 DEF Statuses
  <2>3. pr = [s.prio EXCEPT ![t] = p]
    OBVIOUS
  <2> HIDE DEF off, st, pr
  <2>4. /\ r \in KState /\ r.status = s.status /\ r.pend = s.pend /\ r.timers = s.timers /\ SameRun(r, s)
        /\ off \in [0..Lowest -> Seq(AnyTask)]
        /\ r.ready = [off EXCEPT ![p] = Append(off[p], t)] /\ r.prio = [s.prio EXCEPT ![t] = p]
    <3>1. PriModifySpec(r, s, t, p, off)
      BY <1>1, <1>2, <2>1, PriModifyFields
    <3> QED
      BY <3>1 DEF PriModifySpec
  <2>5. ReadyOK(s.status, s.prio, s.ready)
    BY DEF Links
  <2>6. ReadyOK(st, s.prio, off)
    BY <1>1, <2>1, <2>2, <2>5, ReadyWithout
  <2>7. st \in Statuses /\ "READY" \notin st[t] /\ off \in Readies /\ pr \in [AnyTask -> 0..Lowest] /\ pr[t] = p
    BY <1>1, <2>2, <2>3, <2>4 DEF Statuses, Readies
  <2>8. ReadyOK(st, pr, off)
    BY <1>1, <2>3, <2>6, <2>7, ReadyPrio
  <2>9. s.status = [st EXCEPT ![t] = s.status[t]] /\ s.status[t] \in SUBSET Flag
    BY <1>1, <2>2 DEF Statuses
  <2>10. ReadyOK(s.status, pr, r.ready)
    <3>1. r.ready = [off EXCEPT ![pr[t]] = Append(off[pr[t]], t)]
      BY <2>4, <2>7
    <3>2. PICK f, rd : f = s.status[t] /\ rd = r.ready
      OBVIOUS
    <3>3. /\ f \in SUBSET Flag /\ "READY" \in f /\ s.status = [st EXCEPT ![t] = f]
          /\ rd = [off EXCEPT ![pr[t]] = Append(off[pr[t]], t)]
      BY <1>2, <2>9, <3>1, <3>2
    <3>4. ReadyOK(s.status, pr, rd)
      BY <1>1, <2>7, <2>8, <3>3, ReadyAppend
    <3> QED
      BY <3>2, <3>4
  <2> QED
    BY <1>2, <2>3, <2>4, <2>10 DEF Links, Reprioritised
<1>3. CASE "READY" \notin s.status[t]
  <2>1. r = [s EXCEPT !.prio[t] = p]
    BY <1>3 DEF osTaskPriModify
  <2>2. /\ r \in KState /\ r.prio = [s.prio EXCEPT ![t] = p]
        /\ r.status = s.status /\ r.ready = s.ready /\ r.pend = s.pend /\ r.timers = s.timers
        /\ SameRun(r, s)
    BY <1>1, <2>1, PrioFields
  <2>3. ReadyOK(r.status, r.prio, r.ready)
    BY <1>1, <1>3, <2>2, ReadyPrio DEF Links
  <2> QED
    BY <2>2, <2>3 DEF Links, Reprioritised
<1> QED
  BY <1>2, <1>3

\* The running task is delayed.
Delayed(s, t) == [osPriqueueDequeue(s, t) EXCEPT !.status[t] = @ \cup {"DELAY"}, !.timers = @ \cup {t}]

\* LOS_TaskDelay keeps them together.
LEMMA DelayLinks ==
  ASSUME NEW s, Links(s), NEW t \in Task, "READY" \in s.status[t],
         NEW r, r = Delayed(s, t)
  PROVE  /\ Links(r) /\ SameRun(r, s) /\ r.prio = s.prio
         /\ r.status = [s.status EXCEPT ![t] = (s.status[t] \ {"READY"}) \cup {"DELAY"}]
         /\ r.pend = s.pend
<1> DEFINE d == osPriqueueDequeue(s, t)
<1>0. d = osPriqueueDequeue(s, t)
  OBVIOUS
<1>5. r = [d EXCEPT !.status[t] = @ \cup {"DELAY"}, !.timers = @ \cup {t}]
  BY DEF Delayed
<1> HIDE DEF d
<1> DEFINE f == d.status[t] \cup {"DELAY"}
           x == [d.status EXCEPT ![t] = f]
           z == d.timers \cup {t}
<1>1. /\ s \in KState /\ t \in AnyTask /\ Idle \in AnyTask /\ t # Idle /\ s.status \in Statuses
  BY TasksAssumption DEF Links, AnyTask, KState, Statuses
<1>2. Links(d)
  BY <1>0, DequeueLinks
<1>3. /\ d \in KState
      /\ d.status = [s.status EXCEPT ![t] = s.status[t] \ {"READY"}]
      /\ d.prio = s.prio /\ d.pend = s.pend /\ d.timers = s.timers /\ SameRun(d, s)
  <2>1. t \in AnyTask /\ s \in KState
    BY <1>1
  <2>2. DequeueSpec(d, s, t)
    BY ONLY <2>1, <1>0, DequeueFields
  <2> QED
    BY <2>2 DEF DequeueSpec
<1>4. d.status[t] \cap (Blocking \cup {"READY", "UNUSED"}) = {}
  BY <1>1, <1>3 DEF StatusOK, Links, StatusesOK, Statuses
<1>6. x \in [AnyTask -> SUBSET Flag] /\ z \in SUBSET Task /\ f \in SUBSET Flag
  BY <1>1, <1>3 DEF KState, Flag, Blocking
<1>7. r = PutPend(d, x, d.pend, z)
  BY <1>3, <1>5 DEF PutPend, KState
<1>8. d.pend \in [PendList -> Seq(Task)]
  BY <1>3 DEF KState
<1>15. x = [s.status EXCEPT ![t] = (s.status[t] \ {"READY"}) \cup {"DELAY"}]
  BY <1>1, <1>3 DEF Statuses
<1>16. f \cap (Blocking \cup {"READY", "UNUSED"}) = {"DELAY"}
  BY <1>4 DEF Blocking
<1>17. x[t] = f /\ \A u \in AnyTask : u # t => x[u] = d.status[u]
  BY <1>1, <1>3 DEF KState
<1>18. z = d.timers \cup {t}
  OBVIOUS
<1> HIDE DEF x, z, f
<1>9. /\ r \in KState /\ r.status = x /\ r.pend = d.pend /\ r.timers = z
      /\ r.prio = d.prio /\ r.ready = d.ready /\ SameRun(r, d)
  BY <1>3, <1>6, <1>7, <1>8, PutPendFields
<1>10. ReadyOK(r.status, r.prio, r.ready)
  <2>1. \A u \in AnyTask : "READY" \in r.status[u] <=> "READY" \in d.status[u]
    BY <1>4, <1>9, <1>16, <1>17
  <2> QED
    BY <1>2, <1>9, <2>1, ReadySame DEF Links
<1>11. PendOK(r.status, r.pend)
  <2>1. \A u \in Task : /\ "PEND" \in r.status[u] <=> "PEND" \in d.status[u]
                        /\ "PEND_QUEUE" \in r.status[u] <=> "PEND_QUEUE" \in d.status[u]
    BY <1>4, <1>9, <1>16, <1>17 DEF AnyTask, Blocking
  <2> QED
    BY <1>2, <1>9, <2>1, PendSame DEF Links
<1>12. TimersOK(r.status, r.timers)
  <2>1. ASSUME NEW u \in Task
        PROVE  u \in r.timers <=> "DELAY" \in r.status[u] \/ (InList(r.status[u]) /\ "TIMEOUT" \in r.status[u])
    <3>1. CASE u = t
      BY <1>9, <1>16, <1>17, <1>18, <3>1
    <3>2. CASE u # t
      BY <1>2, <1>9, <1>17, <1>18, <3>2 DEF Links, TimersOK, AnyTask
    <3> QED
      BY <3>1, <3>2
  <2> QED
    BY <2>1 DEF TimersOK
<1>13. StatusesOK(r.status)
  <2>1. StatusOK(f)
    BY <1>16 DEF StatusOK
  <2> QED
    BY <1>1, <1>2, <1>9, <1>17, <2>1 DEF Links, StatusesOK
<1>14. SameRun(r, s)
  BY <1>3, <1>9 DEF SameRun
<1> QED
  BY <1>3, <1>9, <1>10, <1>11, <1>12, <1>13, <1>14, <1>15 DEF Links

Released(r, s, t) ==
  /\ Links(r) /\ SameRun(r, s) /\ r.prio = s.prio /\ r.ready = s.ready
  /\ r.status = [s.status EXCEPT ![t] = {"UNUSED"}]
  /\ \A l \in PendList, u \in Task : OnList(r.pend[l], u) <=> u # t /\ OnList(s.pend[l], u)
  /\ \A l \in PendList : ~OnList(s.pend[l], t) => r.pend[l] = s.pend[l]

\* A task that is not ready is taken out of its waits and gives its control block back.
LEMMA DeleteLinks ==
  ASSUME NEW s, Links(s), NEW t \in Task, "READY" \notin s.status[t],
         NEW r, r = WithoutWait(s, t, {"UNUSED"})
  PROVE  Released(r, s, t)
<1> DEFINE f == {"UNUSED"}
<1>1. /\ s \in KState /\ t \in AnyTask /\ Idle \in AnyTask /\ t # Idle
      /\ s.status \in Statuses /\ s.pend \in Pends
  BY TasksAssumption DEF Links, AnyTask, KState, Statuses, Pends
<1>2. /\ f \in SUBSET Flag /\ StatusOK(f) /\ ~InList(f) /\ "DELAY" \notin f /\ "READY" \notin f
      /\ r = WithoutWait(s, t, f)
  BY DEF Flag, StatusOK, Blocking, InList
<1> HIDE DEF f
<1>3. /\ r \in KState /\ r.status = [s.status EXCEPT ![t] = f]
      /\ r.pend = Off(s.pend, t) /\ r.timers = s.timers \ {t}
      /\ r.prio = s.prio /\ r.ready = s.ready /\ SameRun(r, s)
  BY <1>1, <1>2, UnlinkFields
<1>4. r.status[t] = f /\ \A u \in AnyTask : u # t => r.status[u] = s.status[u]
  BY <1>1, <1>3 DEF Statuses
<1>5. ReadyOK(r.status, r.prio, r.ready)
  <2>1. \A u \in AnyTask : "READY" \in r.status[u] <=> "READY" \in s.status[u]
    BY <1>2, <1>4
  <2> QED
    BY <1>3, <2>1, ReadySame DEF Links
<1>6. /\ PendOK(r.status, r.pend)
      /\ \A l \in PendList : ~OnList(s.pend[l], t) => r.pend[l] = s.pend[l]
      /\ \A l \in PendList, u \in Task : OnList(r.pend[l], u) <=> u # t /\ OnList(s.pend[l], u)
  BY <1>1, <1>2, <1>3, PendWithout DEF Links
<1>7. TimersOK(r.status, r.timers)
  <2>1. ASSUME NEW u \in Task
        PROVE  u \in r.timers <=> "DELAY" \in r.status[u] \/ (InList(r.status[u]) /\ "TIMEOUT" \in r.status[u])
    <3>1. CASE u = t
      BY <1>2, <1>3, <1>4, <3>1
    <3>2. CASE u # t
      BY <1>3, <1>4, <3>2 DEF Links, TimersOK, AnyTask
    <3> QED
      BY <3>1, <3>2
  <2> QED
    BY <2>1 DEF TimersOK
<1>8. StatusesOK(r.status)
  BY <1>1, <1>2, <1>4 DEF Links, StatusesOK
<1> QED
  BY <1>3, <1>5, <1>6, <1>7, <1>8 DEF Links, f, Released
-----------------------------------------------------------------------------
(* The scheduler                                                           *)

\* p is the most urgent priority of a ready task.
IsTop(ready, p) == /\ p \in 0..Lowest /\ ready[p] # <<>>
                   /\ \A q \in 0..p - 1 : ready[q] = <<>>

\* The idle task is always ready: there is a most urgent ready task.
LEMMA SomeTop ==
  ASSUME NEW s, Links(s)
  PROVE  \E p : IsTop(s.ready, p)
<1> DEFINE S == {p \in 0..Lowest : s.ready[p] # <<>>}
<1>1. Idle \in AnyTask /\ s \in KState /\ "READY" \in s.status[Idle] /\ s.prio[Idle] \in 0..Lowest
  BY DEF AnyTask, Links, KState, StatusesOK
<1>2. OnList(s.ready[s.prio[Idle]], Idle)
  BY <1>1 DEF Links, ReadyOK
<1>3. s.prio[Idle] \in S
  <2>1. s.ready[s.prio[Idle]] # <<>>
    BY <1>2 DEF OnList
  <2> QED
    BY <1>1, <2>1
<1>4. S \in SUBSET Nat /\ S # {}
  BY <1>3
<1>5. Min(S) \in S /\ \A y \in S : Min(S) <= y
  BY <1>4, MinIsLeast
<1> DEFINE p == Min(S)
<1> HIDE DEF p
<1>6. p \in S /\ \A y \in S : p <= y
  BY <1>5 DEF p
<1>7. p \in 0..Lowest /\ s.ready[p] # <<>>
  BY <1>6
<1>8. ASSUME NEW q \in 0..p - 1 PROVE s.ready[q] = <<>>
  <2>1. q \in 0..Lowest /\ ~(p <= q)
    BY <1>7, TasksAssumption
  <2> QED
    BY <1>6, <2>1
<1> QED
  BY <1>7, <1>8 DEF IsTop

\* The most urgent ready task is the first of the list with the least number.
LEMMA TopIs ==
  ASSUME NEW s, NEW p, IsTop(s.ready, p)
  PROVE  osPriqueueTop(s) = Head(s.ready[p])
<1> DEFINE T(q) == /\ q \in 0..Lowest /\ s.ready[q] # <<>> /\ \A i \in 0..q - 1 : s.ready[i] = <<>>
           c == CHOOSE q \in 0..Lowest : /\ s.ready[q] # <<>> /\ \A i \in 0..q - 1 : s.ready[i] = <<>>
<1>1. T(p)
  BY DEF IsTop
<1>2. T(c)
  BY <1>1
<1>3. osPriqueueTop(s) = Head(s.ready[c])
  BY DEF osPriqueueTop
<1>4. ASSUME NEW q, T(q) PROVE q = p
  <2>1. q \in 0..Lowest /\ p \in 0..Lowest /\ Lowest \in Nat
    BY <1>1, <1>4, TasksAssumption
  <2>2. ~(q < p)
    BY <1>1, <1>4, <2>1
  <2>3. ~(p < q)
    BY <1>1, <1>4, <2>1
  <2> QED
    BY <2>1, <2>2, <2>3
<1> HIDE DEF c
<1>5. c = p
  BY <1>2, <1>4
<1> QED
  BY <1>3, <1>5

\* The task that is to run is ready.
LEMMA TopIsReady ==
  ASSUME NEW s, Links(s)
  PROVE  osPriqueueTop(s) \in AnyTask /\ "READY" \in s.status[osPriqueueTop(s)]
<1>1. PICK p : IsTop(s.ready, p)
  BY SomeTop
<1> DEFINE list == s.ready[p]
<1>2. list \in Seq(AnyTask) /\ list # <<>> /\ p \in 0..Lowest
  BY <1>1 DEF IsTop, Links, KState
<1>3. Head(list) = list[1] /\ 1 \in DOMAIN list /\ Head(list) \in AnyTask
  BY <1>2
<1>4. OnList(s.ready[p], Head(list))
  BY <1>3 DEF OnList
<1>5. "READY" \in s.status[Head(list)]
  BY <1>2, <1>3, <1>4 DEF Links, ReadyOK
<1> QED
  BY <1>1, <1>3, <1>5, TopIs

\* The ready lists alone say who is to run.
LEMMA SameTop ==
  ASSUME NEW s, NEW r, r.ready = s.ready
  PROVE  osPriqueueTop(r) = osPriqueueTop(s)
BY DEF osPriqueueTop

\* Taking off a task that is not to run does not change who is to run.
LEMMA TopStays ==
  ASSUME NEW s, Links(s), NEW t \in Task, t # osPriqueueTop(s),
         NEW r, r.ready = [s.ready EXCEPT ![s.prio[t]] = Without(s.ready[s.prio[t]], t)]
  PROVE  osPriqueueTop(r) = osPriqueueTop(s)
<1>1. PICK p : IsTop(s.ready, p)
  BY SomeTop
<1>2. osPriqueueTop(s) = Head(s.ready[p])
  BY <1>1, TopIs
<1>3. /\ p \in 0..Lowest /\ s.ready[p] # <<>> /\ s.prio[t] \in 0..Lowest /\ s.ready \in Readies
      /\ \A q \in 0..p - 1 : s.ready[q] = <<>>
      /\ \A q \in 0..Lowest : Distinct(s.ready[q]) /\ s.ready[q] \in Seq(AnyTask)
  BY <1>1 DEF IsTop, Links, KState, AnyTask, ReadyOK, Readies
<1>4. s.ready[p][1] # t /\ Head(s.ready[p]) = s.ready[p][1]
  BY <1>2, <1>3
<1>5. r.ready[s.prio[t]] = Without(s.ready[s.prio[t]], t) /\ \A q \in 0..Lowest : q # s.prio[t] => r.ready[q] = s.ready[q]
  BY <1>3 DEF Readies
<1>6. r.ready[p] # <<>> /\ r.ready[p][1] = s.ready[p][1] /\ r.ready[p] \in Seq(AnyTask)
  <2>1. CASE p = s.prio[t]
    BY <1>3, <1>4, <1>5, <2>1, WithoutList
  <2>2. CASE p # s.prio[t]
    BY <1>3, <1>5, <2>2
  <2> QED
    BY <2>1, <2>2
<1>7. ASSUME NEW q \in 0..p - 1 PROVE r.ready[q] = <<>>
  <2>1. q \in 0..Lowest /\ s.ready[q] = <<>>
    BY <1>3, TasksAssumption
  <2>2. CASE q = s.prio[t]
    <3>1. ~OnList(s.ready[q], t)
      BY <2>1 DEF OnList
    <3> QED
      BY <1>5, <2>1, <2>2, <3>1 DEF Without
  <2>3. CASE q # s.prio[t]
    BY <1>5, <2>1, <2>3
  <2> QED
    BY <2>2, <2>3
<1>8. IsTop(r.ready, p)
  BY <1>3, <1>6, <1>7 DEF IsTop
<1>9. osPriqueueTop(r) = Head(r.ready[p])
  BY <1>8, TopIs
<1>10. Head(r.ready[p]) = r.ready[p][1]
  BY <1>6
<1> QED
  BY <1>2, <1>4, <1>6, <1>9, <1>10

\* The fields that are not about lists change.
LEMMA RunLinks ==
  ASSUME NEW s, Links(s), NEW r \in KState, r.status = s.status, r.prio = s.prio,
         r.ready = s.ready, r.pend = s.pend, r.timers = s.timers
  PROVE  Links(r)
BY DEF Links

Scheduled(r, s) ==
  /\ Links(r)
  /\ r.status = s.status /\ r.prio = s.prio /\ r.ready = s.ready /\ r.pend = s.pend /\ r.timers = s.timers
  /\ r.lock = s.lock /\ r.fault = s.fault
  /\ s.lock = 0 => r.run = osPriqueueTop(r) /\ r.run \in AnyTask /\ "READY" \in r.status[r.run]
  /\ s.lock # 0 => r = s

\* LOS_Schedule keeps them together and, unless scheduling is locked, runs the
\* most urgent ready task.
LEMMA ScheduleLinks ==
  ASSUME NEW s, Links(s), NEW r, r = LOS_Schedule(s)
  PROVE  Scheduled(r, s)
<1>1. CASE s.lock = 0
  <2>1. r = [s EXCEPT !.run = osPriqueueTop(s), !.late = FALSE]
    BY <1>1 DEF LOS_Schedule
  <2>2. osPriqueueTop(s) \in AnyTask /\ "READY" \in s.status[osPriqueueTop(s)]
    BY TopIsReady
  <2> DEFINE top == osPriqueueTop(s)
  <2>3. r = [s EXCEPT !.run = top, !.late = FALSE] /\ top \in AnyTask
    BY <2>1, <2>2
  <2>4. top = osPriqueueTop(s)
    OBVIOUS
  <2> HIDE DEF top
  <2>5. /\ r \in KState /\ r.status = s.status /\ r.prio = s.prio /\ r.ready = s.ready
        /\ r.pend = s.pend /\ r.timers = s.timers /\ r.lock = s.lock /\ r.fault = s.fault
        /\ r.run = top
    BY <2>3 DEF Links, KState
  <2>6. Links(r)
    BY <2>5, RunLinks
  <2>7. osPriqueueTop(r) = top
    BY <2>4, <2>5, SameTop
  <2> QED
    BY <1>1, <2>2, <2>4, <2>5, <2>6, <2>7 DEF Scheduled
<1>2. CASE s.lock # 0
  BY <1>2 DEF LOS_Schedule, Scheduled
<1> QED
  BY <1>1, <1>2
-----------------------------------------------------------------------------
(* The invariant, and the ways a call leaves the kernel                    *)

\* A task with these flags waits for an object, or its wait has timed out.
Waits(f) == InList(f) \/ "TIMEOUT" \in f

InWait(t) == wait[t] # None /\ at[t] # "app"

Control ==
  /\ \A t \in Task : Waits(k.status[t]) => InWait(t)
  /\ k.run \in Task /\ at[k.run] # "sched" => "READY" \in k.status[k.run]
  /\ k.lock # 0 => "READY" \in k.status[k.run] /\ "lock" \in app.calls

TasksInv ==
  /\ Links(k)
  /\ app \in Application
  /\ at \in [Task -> {"app", "sched", "check"}]
  /\ wait = [t \in Task |-> wait[t]]
  /\ ~k.fault => Control
  /\ MostUrgentRuns

\* The running task is in a call, not before its LOS_Schedule.
Running == ~k.fault /\ k.run \in Task /\ at[k.run] # "sched"

Settled(s) == s.lock = 0 /\ ~s.late => s.run = osPriqueueTop(s)

\* The state s a call has set: the waits of the other tasks have not begun.
Kept(s) == /\ Links(s) /\ s.run = k.run /\ s.fault = k.fault
           /\ \A t \in Task : t # k.run /\ Waits(s.status[t]) => Waits(k.status[t])

\* A running task that is not before a LOS_Schedule is READY and in no list; in
\* its own code its TIMEOUT is clear too, so that it may begin a wait.
LEMMA RunningFacts ==
  ASSUME TasksInv, Running
  PROVE  /\ Links(k) /\ "READY" \in k.status[k.run] /\ ~InList(k.status[k.run])
         /\ Settled(k) /\ k.run \in AnyTask
         /\ at[k.run] = "app" => ~Waits(k.status[k.run])
         /\ k.lock # 0 => "lock" \in app.calls
<1>1. Links(k) /\ Control /\ k.run \in Task /\ k.run \in AnyTask
  BY DEF TasksInv, Running, AnyTask
<1>2. "READY" \in k.status[k.run]
  BY <1>1 DEF Control, Running
<1>3. ~InList(k.status[k.run])
  <2>1. StatusOK(k.status[k.run])
    BY <1>1 DEF Links, StatusesOK
  <2> QED
    BY <1>2, <2>1 DEF StatusOK, InList, Blocking
<1>4. Settled(k)
  BY DEF TasksInv, MostUrgentRuns, Running, Settled
<1>5. at[k.run] = "app" => ~Waits(k.status[k.run])
  BY <1>1 DEF Control, InWait
<1>6. k.lock # 0 => "lock" \in app.calls
  BY <1>1 DEF Control
<1> QED
  BY <1>1, <1>2, <1>3, <1>4, <1>5, <1>6

\* A call that returns, with the state s, keeps the invariant.
LEMMA ReturnStep ==
  ASSUME TasksInv, Running, NEW s, Kept(s),
         "READY" \in s.status[k.run], "TIMEOUT" \notin s.status[k.run],
         s.lock # 0 => "lock" \in app.calls, Settled(s),
         ThenReturn(s), UNCHANGED app
  PROVE  TasksInv'
<1>1. k' = s /\ at' = [at EXCEPT ![k.run] = "app"] /\ wait' = [wait EXCEPT ![k.run] = None] /\ app' = app
  BY DEF ThenReturn
<1>2. /\ Links(s) /\ s.run = k.run /\ s.fault = k.fault /\ ~k.fault /\ k.run \in Task /\ k.run \in AnyTask
      /\ Control /\ at \in [Task -> {"app", "sched", "check"}] /\ wait = [t \in Task |-> wait[t]]
      /\ app \in Application
  BY DEF TasksInv, Running, Kept, AnyTask
<1>3. /\ at' \in [Task -> {"app", "sched", "check"}] /\ wait' = [t \in Task |-> wait'[t]]
      /\ \A t \in Task : t # k.run => at'[t] = at[t] /\ wait'[t] = wait[t]
      /\ at'[k.run] = "app"
  BY <1>1, <1>2
<1>4. Control'
  <2>1. ~InList(s.status[k.run])
    <3>1. StatusOK(s.status[k.run])
      BY <1>2 DEF Links, StatusesOK
    <3> QED
      BY <3>1 DEF StatusOK, InList, Blocking
  <2>2. ASSUME NEW t \in Task, Waits(s.status[t]) PROVE wait'[t] # None /\ at'[t] # "app"
    <3>1. t # k.run
      BY <2>1, <2>2 DEF Waits
    <3>2. Waits(k.status[t])
      BY <2>2, <3>1 DEF Kept
    <3> QED
      BY <1>2, <1>3, <3>1, <3>2 DEF Control, InWait
  <2> QED
    BY <1>1, <1>2, <2>2 DEF Control, InWait
<1>5. MostUrgentRuns'
  BY <1>1, <1>2 DEF MostUrgentRuns, Settled
<1> QED
  BY <1>1, <1>2, <1>3, <1>4, <1>5 DEF TasksInv

\* A call that goes on to LOS_Schedule, with the state s, keeps it.
LEMMA ScheduleStep ==
  ASSUME TasksInv, Running, NEW s, NEW w, Kept(s),
         w = None => ~Waits(s.status[k.run]),
         s.lock # 0 => "READY" \in s.status[k.run] /\ "lock" \in app.calls,
         ThenSchedule(s, w), UNCHANGED app
  PROVE  TasksInv'
<1>1. k' = s /\ at' = [at EXCEPT ![k.run] = "sched"] /\ wait' = [wait EXCEPT ![k.run] = w] /\ app' = app
  BY DEF ThenSchedule
<1>2. /\ Links(s) /\ s.run = k.run /\ s.fault = k.fault /\ ~k.fault /\ k.run \in Task /\ k.run \in AnyTask
      /\ Control /\ at \in [Task -> {"app", "sched", "check"}] /\ wait = [t \in Task |-> wait[t]]
      /\ app \in Application
  BY DEF TasksInv, Running, Kept, AnyTask
<1>3. /\ at' \in [Task -> {"app", "sched", "check"}] /\ wait' = [t \in Task |-> wait'[t]]
      /\ \A t \in Task : t # k.run => at'[t] = at[t] /\ wait'[t] = wait[t]
      /\ at'[k.run] = "sched" /\ wait'[k.run] = w
  BY <1>1, <1>2
<1>4. Control'
  <2>2. ASSUME NEW t \in Task, Waits(s.status[t]) PROVE wait'[t] # None /\ at'[t] # "app"
    <3>1. CASE t = k.run
      BY <1>3, <2>2, <3>1
    <3>2. CASE t # k.run
      <4>1. Waits(k.status[t])
        BY <2>2, <3>2 DEF Kept
      <4> QED
        BY <1>2, <1>3, <3>2, <4>1 DEF Control, InWait
    <3> QED
      BY <3>1, <3>2
  <2> QED
    BY <1>1, <1>2, <1>3, <2>2 DEF Control, InWait
<1>5. MostUrgentRuns'
  BY <1>1, <1>2, <1>3 DEF MostUrgentRuns
<1> QED
  BY <1>1, <1>2, <1>3, <1>4, <1>5 DEF TasksInv

\* An interrupt handler that sets the state s keeps it.
LEMMA ResumeStep ==
  ASSUME TasksInv, ~k.fault, NEW s, Links(s), s.run = k.run, s.fault = k.fault, s.lock = k.lock,
         \A t \in Task : Waits(s.status[t]) => Waits(k.status[t]),
         "READY" \in k.status[k.run] => "READY" \in s.status[k.run],
         ThenResume(s), UNCHANGED app
  PROVE  TasksInv'
<1> DEFINE z == [s EXCEPT !.late = TRUE]
<1>1. k' = z /\ at' = at /\ wait' = wait /\ app' = app
  BY DEF ThenResume
<1>2. /\ z \in KState /\ z.status = s.status /\ z.prio = s.prio
      /\ z.ready = s.ready /\ z.pend = s.pend /\ z.timers = s.timers
      /\ z.run = k.run /\ z.fault = k.fault /\ z.lock = k.lock
  BY DEF Links, KState
<1>3. z.late
  BY DEF Links, KState
<1> HIDE DEF z
<1>4. Links(z)
  BY <1>2, RunLinks
<1>5. Control'
  <2>1. Control
    BY DEF TasksInv
  <2> QED
    BY <1>1, <1>2, <2>1 DEF Control, InWait
<1>6. MostUrgentRuns'
  BY <1>1, <1>3 DEF MostUrgentRuns
<1> QED
  BY <1>1, <1>4, <1>5, <1>6 DEF TasksInv

\* So does a step that leaves the tasks alone.
LEMMA SameStep ==
  ASSUME TasksInv, UNCHANGED <<k, at, wait, app>>
  PROVE  TasksInv'
BY DEF TasksInv, Control, InWait, MostUrgentRuns

\* A call that returns and leaves the tasks alone.
LEMMA ReturnSame ==
  ASSUME TasksInv, Running, "TIMEOUT" \notin k.status[k.run], ThenReturn(k), UNCHANGED app
  PROVE  TasksInv'
<1>1. Kept(k)
  BY DEF Kept, TasksInv
<1> QED
  BY <1>1, RunningFacts, ReturnStep

\* The call clears the flag TIMEOUT and returns.
LEMMA ReturnCleared ==
  ASSUME TasksInv, Running, ThenReturn(Cleared(k)), UNCHANGED app
  PROVE  TasksInv'
<1> DEFINE t == k.run
           f == k.status[t] \ {"TIMEOUT"}
           s == Cleared(k)
<1>1. /\ Links(k) /\ "READY" \in k.status[t] /\ ~InList(k.status[t])
      /\ Settled(k)
      /\ k.lock # 0 => "lock" \in app.calls
  BY RunningFacts
<1>2. t \in Task /\ t \in AnyTask /\ k \in KState /\ StatusOK(k.status[t]) /\ k.status[t] \in SUBSET Flag
  BY <1>1 DEF Running, AnyTask, Links, StatusesOK, KState
<1>3. f \in SUBSET Flag /\ StatusOK(f) /\ ~InList(f) /\ "READY" \in f /\ "TIMEOUT" \notin f
  BY <1>1, <1>2 DEF StatusOK, InList
<1>4. \A x \in Blocking \cup {"READY"} : x \in f <=> x \in k.status[t]
  BY DEF Blocking
<1>5. s = Flagged(k, t, f)
  BY DEF Cleared, Flagged
<1>6. t = k.run
  OBVIOUS
<1> HIDE DEF s, f, t
<1>7. /\ Links(s) /\ s.status = [k.status EXCEPT ![t] = f]
      /\ s.prio = k.prio /\ s.ready = k.ready /\ s.pend = k.pend /\ s.timers = k.timers
      /\ SameRun(s, k)
  <2>1. Restated(s, k, t, f)
    BY <1>1, <1>2, <1>3, <1>4, <1>5, OneStatusLinks
  <2> QED
    BY <2>1 DEF Restated
<1>8. s.status[t] = f /\ \A u \in Task : u # t => s.status[u] = k.status[u]
  BY <1>2, <1>7 DEF KState, AnyTask
<1>9. Kept(s) /\ s.lock = k.lock /\ s.late = k.late /\ s.run = k.run
  BY <1>6, <1>7, <1>8 DEF Kept, SameRun
<1>10. osPriqueueTop(s) = osPriqueueTop(k)
  BY <1>7, SameTop
<1>11. Settled(s)
  BY <1>1, <1>9, <1>10 DEF Settled
<1>12. ThenReturn(s)
  BY DEF s
<1> QED
  BY <1>1, <1>3, <1>6, <1>8, <1>9, <1>11, <1>12, ReturnStep

\* The running task waits in a list; s is k, or k with a priority raised.
LEMMA WaitStep ==
  ASSUME TasksInv, Running, at[k.run] = "app",
         NEW s, Links(s), s.status = k.status, SameRun(s, k), k.lock = 0,
         NEW list \in PendList, NEW timed, NEW w, w # None,
         ThenSchedule(osTaskWait(s, list, FlagOf(list), timed), w), UNCHANGED app
  PROVE  TasksInv'
<1> DEFINE t == k.run
           r == osTaskWait(s, list, FlagOf(list), timed)
<1>1. /\ Links(k) /\ "READY" \in k.status[t] /\ ~Waits(k.status[t])
  BY RunningFacts
<1>2. t \in Task /\ t \in AnyTask /\ t = s.run /\ s \in KState /\ FlagOf(list) \in Blocking
  BY DEF Running, AnyTask, Links, SameRun, FlagOf, Blocking
<1>3. "READY" \in s.status[t] /\ "TIMEOUT" \notin s.status[t]
  BY <1>1 DEF Waits
<1>4. ThenSchedule(r, w) /\ r = osTaskWait(s, list, FlagOf(list), timed) /\ t = k.run
  OBVIOUS
<1> HIDE DEF r, t
<1>5. Links(r)
  BY <1>2, <1>3, <1>4, WaitLinks
<1>6. WaitSpec(r, s, t, list, FlagOf(list), timed)
  BY <1>2, <1>4, WaitFields
<1>7. \A u \in Task : u # t => r.status[u] = s.status[u]
  BY <1>2, <1>6 DEF WaitSpec, KState, AnyTask
<1>8. Kept(r) /\ r.lock = 0
  BY <1>4, <1>5, <1>6, <1>7 DEF Kept, WaitSpec, SameRun
<1> QED
  BY <1>4, <1>8, ScheduleStep

\* One task that waits in l is woken.
LEMMA WakeOne ==
  ASSUME NEW s, Links(s), NEW l \in PendList, NEW t \in Task, OnList(s.pend[l], t),
         NEW r, r = osTaskWake(s, t, FlagOf(l))
  PROVE  WokenSpec(r, s, l, {t})
<1>1. WokenSpec(s, s, l, {})
  BY DEF WokenSpec, SameRun
<1>2. WokenSpec(r, s, l, {} \cup {t})
  BY <1>1, WakeNext
<1> QED
  BY <1>2

\* Tasks that wait in l are woken; s is k, or k with a priority lowered.
LEMMA WokenKept ==
  ASSUME Links(k), NEW s, s.status = k.status, s.pend = k.pend, SameRun(s, k),
         NEW l \in PendList, NEW D, \A t \in D : t \in Task /\ OnList(k.pend[l], t),
         NEW r, WokenSpec(r, s, l, D)
  PROVE  /\ Links(r) /\ SameRun(r, k)
         /\ \A t \in AnyTask : t \notin D => r.status[t] = k.status[t]
         /\ \A t \in Task : Waits(r.status[t]) => Waits(k.status[t])
         /\ \A t \in AnyTask : "READY" \in k.status[t] => r.status[t] = k.status[t]
<1>1. Links(r) /\ SameRun(r, k)
  BY DEF WokenSpec, SameRun
<1>2. \A t \in AnyTask : t \notin D => r.status[t] = k.status[t]
  BY DEF WokenSpec
<1>3. ASSUME NEW t \in D
      PROVE  Waits(k.status[t]) /\ "READY" \notin k.status[t]
  <2>1. FlagOf(l) \in k.status[t] /\ StatusOK(k.status[t])
    BY DEF Links, PendOK, StatusesOK, AnyTask
  <2> QED
    BY <2>1 DEF FlagOf, StatusOK, Waits, InList, Blocking
<1> QED
  BY <1>1, <1>2, <1>3 DEF AnyTask

\* A call that wakes the tasks of D, which wait in l, and goes on to LOS_Schedule.
LEMMA WokenSchedule ==
  ASSUME TasksInv, Running, "TIMEOUT" \notin k.status[k.run],
         NEW s, s.status = k.status, s.pend = k.pend, SameRun(s, k),
         NEW l \in PendList, NEW D, \A t \in D : t \in Task /\ OnList(k.pend[l], t),
         NEW r, WokenSpec(r, s, l, D), ThenSchedule(r, None), UNCHANGED app
  PROVE  TasksInv'
<1>1. /\ Links(k) /\ "READY" \in k.status[k.run] /\ ~InList(k.status[k.run]) /\ k.run \in AnyTask
      /\ k.lock # 0 => "lock" \in app.calls
  BY RunningFacts
<1>2. /\ Links(r) /\ SameRun(r, k)
      /\ \A t \in Task : Waits(r.status[t]) => Waits(k.status[t])
      /\ \A t \in AnyTask : "READY" \in k.status[t] => r.status[t] = k.status[t]
  BY <1>1, WokenKept
<1>3. Kept(r) /\ r.lock = k.lock
  BY <1>2 DEF Kept, SameRun
<1>4. r.status[k.run] = k.status[k.run]
  BY <1>1, <1>2
<1>5. ~Waits(r.status[k.run])
  BY <1>1, <1>4 DEF Waits
<1> QED
  BY <1>1, <1>3, <1>4, <1>5, ScheduleStep

\* An interrupt handler that wakes the tasks of D.
LEMMA WokenResume ==
  ASSUME TasksInv, ~k.fault, NEW l \in PendList, NEW D, \A t \in D : t \in Task /\ OnList(k.pend[l], t),
         NEW r, WokenSpec(r, k, l, D), ThenResume(r), UNCHANGED app
  PROVE  TasksInv'
<1>1. Links(k) /\ k.run \in AnyTask /\ SameRun(k, k)
  BY DEF TasksInv, Links, KState, SameRun
<1>2. /\ Links(r) /\ SameRun(r, k)
      /\ \A t \in Task : Waits(r.status[t]) => Waits(k.status[t])
      /\ \A t \in AnyTask : "READY" \in k.status[t] => r.status[t] = k.status[t]
  BY <1>1, WokenKept
<1>3. r.run = k.run /\ r.fault = k.fault /\ r.lock = k.lock
  BY <1>2 DEF SameRun
<1>4. "READY" \in k.status[k.run] => "READY" \in r.status[k.run]
  BY <1>1, <1>2
<1> QED
  BY <1>2, <1>3, <1>4, ResumeStep
-----------------------------------------------------------------------------
(* The steps of the task layer                                             *)

\* A step that ends with LOS_Schedule, from the state s.
LEMMA SwitchStep ==
  ASSUME TasksInv, ~k.fault, NEW s, Links(s), s.fault = k.fault,
         s.lock # 0 => "READY" \in s.status[s.run] /\ "lock" \in app.calls,
         at' \in [Task -> {"app", "sched", "check"}], wait' = [t \in Task |-> wait'[t]],
         \A t \in Task : Waits(s.status[t]) => wait'[t] # None /\ at'[t] # "app",
         k' = LOS_Schedule(s), UNCHANGED app
  PROVE  TasksInv'
<1> DEFINE r == LOS_Schedule(s)
<1>1. Scheduled(r, s) /\ k' = r
  BY ScheduleLinks
<1> HIDE DEF r
<1>2. /\ Links(r) /\ r.status = s.status /\ r.lock = s.lock
      /\ r.lock = 0 => r.run = osPriqueueTop(r) /\ "READY" \in r.status[r.run]
      /\ r.lock # 0 => r = s
  BY <1>1 DEF Scheduled
<1>3. Control'
  BY <1>1, <1>2 DEF Control, InWait
<1>4. MostUrgentRuns'
  BY <1>1, <1>2 DEF MostUrgentRuns
<1> QED
  BY <1>1, <1>2, <1>3, <1>4 DEF TasksInv

\* The LOS_Schedule at the end of a call.
LEMMA RescheduleStep ==
  ASSUME TasksInv, Reschedule
  PROVE  TasksInv'
<1>1. /\ ~k.fault /\ k.run \in Task /\ k' = LOS_Schedule(k) /\ wait' = wait /\ app' = app
      /\ at' = [at EXCEPT ![k.run] = IF wait[k.run] = None THEN "app" ELSE "check"]
  BY DEF Reschedule
<1>2. /\ Links(k) /\ Control /\ at \in [Task -> {"app", "sched", "check"}]
      /\ wait = [t \in Task |-> wait[t]]
  BY <1>1 DEF TasksInv
<1>3. at' \in [Task -> {"app", "sched", "check"}] /\ wait' = [t \in Task |-> wait'[t]]
  BY <1>1, <1>2
<1>4. ASSUME NEW t \in Task, Waits(k.status[t]) PROVE wait'[t] # None /\ at'[t] # "app"
  <2>1. wait[t] # None /\ at[t] # "app"
    BY <1>2, <1>4 DEF Control, InWait
  <2> QED
    BY <1>1, <1>2, <2>1
<1>5. k.lock # 0 => "READY" \in k.status[k.run] /\ "lock" \in app.calls
  BY <1>2 DEF Control
<1> QED
  BY <1>1, <1>2, <1>3, <1>4, <1>5, SwitchStep

\* The tick ends a wait: osTaskScan leaves TIMEOUT for the call to find.
LEMMA TickStep ==
  ASSUME TasksInv, TickEndsWait
  PROVE  TasksInv'
<1>1. PICK t \in k.timers : ~k.fault /\ k' = osTaskScan(k, t) /\ at' = at /\ wait' = wait /\ app' = app
  BY DEF TickEndsWait
<1>2. /\ Links(k) /\ Control /\ at \in [Task -> {"app", "sched", "check"}]
      /\ wait = [u \in Task |-> wait[u]] /\ app \in Application /\ MostUrgentRuns
  BY <1>1 DEF TasksInv
<1>3. t \in Task /\ t \in AnyTask /\ k \in KState /\ k.run \in AnyTask
  BY <1>2 DEF Links, KState, AnyTask
<1>4. k.status[t] \cap Blocking # {} /\ "READY" \notin k.status[t]
  <2>1. "DELAY" \in k.status[t] \/ InList(k.status[t])
    BY <1>2, <1>3 DEF Links, TimersOK
  <2>2. StatusOK(k.status[t])
    BY <1>2, <1>3 DEF Links, StatusesOK
  <2> QED
    BY <2>1, <2>2 DEF StatusOK, InList, Blocking
<1> DEFINE over == Resumed(k, t, Blocking)
<1>5. k' = IF "SUSPEND" \in k.status[t] THEN over ELSE LOS_Schedule(over)
  BY <1>1 DEF osTaskScan
<1>6. over = Resumed(k, t, Blocking)
  OBVIOUS
<1> HIDE DEF over
<1>7. Links(over)
  BY <1>2, <1>3, <1>4, <1>6, ResumedLinks
<1>8. ResumedSpec(over, k, t, Blocking)
  BY <1>3, <1>6, ResumedFields DEF Blocking
<1>9. /\ over.status[t] = Woke(k.status[t], Blocking)
      /\ \A u \in AnyTask : u # t => over.status[u] = k.status[u]
      /\ "SUSPEND" \in k.status[t] => over.ready = k.ready
      /\ over.run = k.run /\ over.lock = k.lock /\ over.late = k.late /\ over.fault = k.fault
  BY <1>3, <1>8 DEF ResumedSpec, SameRun, KState
<1>10. ASSUME NEW u \in Task, Waits(over.status[u])
       PROVE  wait'[u] # None /\ at'[u] # "app"
  <2>1. Waits(k.status[u])
    <3>1. CASE u = t
      BY <1>9, <1>10, <3>1 DEF Woke, Waits, InList, Blocking
    <3>2. CASE u # t
      BY <1>9, <1>10, <3>2 DEF AnyTask
    <3> QED
      BY <3>1, <3>2
  <2> QED
    BY <1>1, <1>2, <2>1 DEF Control, InWait
<1>11. "READY" \in k.status[k.run] => "READY" \in over.status[k.run]
  BY <1>3, <1>4, <1>9
<1>12. over.lock # 0 => "READY" \in over.status[over.run] /\ "lock" \in app.calls
  BY <1>2, <1>9, <1>11 DEF Control
<1>13. CASE "SUSPEND" \in k.status[t]
  <2>1. k' = over
    BY <1>5, <1>13
  <2>2. Control'
    BY <1>1, <1>2, <1>9, <1>10, <1>11, <1>12, <2>1 DEF Control, InWait
  <2>3. osPriqueueTop(over) = osPriqueueTop(k)
    BY <1>9, <1>13, SameTop
  <2>4. MostUrgentRuns'
    BY <1>1, <1>2, <1>9, <2>1, <2>3 DEF MostUrgentRuns
  <2> QED
    BY <1>1, <1>2, <1>7, <2>1, <2>2, <2>4 DEF TasksInv
<1>14. CASE "SUSPEND" \notin k.status[t]
  <2>1. k' = LOS_Schedule(over)
    BY <1>5, <1>14
  <2>2. at' \in [Task -> {"app", "sched", "check"}] /\ wait' = [u \in Task |-> wait'[u]]
    BY <1>1, <1>2
  <2> QED
    BY <1>1, <1>7, <1>9, <1>10, <1>12, <2>1, <2>2, SwitchStep
<1> QED
  BY <1>13, <1>14

\* The running task goes behind the others of its priority.
LEMMA RotatedLinks ==
  ASSUME NEW s, Links(s), NEW t, t = s.run, "READY" \in s.status[t], NEW r, r = Rotated(s)
  PROVE  Links(r) /\ r.status = s.status /\ SameRun(r, s)
<1> DEFINE d == osPriqueueDequeue(s, t)
<1>1. /\ s \in KState /\ t \in AnyTask
      /\ s.status \in Statuses /\ s.prio \in [AnyTask -> 0..Lowest] /\ s.ready \in Readies
      /\ ReadyOK(s.status, s.prio, s.ready)
  BY DEF Links, KState, Statuses, Readies
<1>2. r = osPriqueueEnqueue(d, t) /\ d = osPriqueueDequeue(s, t)
  BY DEF Rotated
<1> HIDE DEF d
<1>3. DequeueSpec(d, s, t)
  BY <1>1, <1>2, DequeueFields
<1>4. /\ d \in KState /\ d.status = [s.status EXCEPT ![t] = s.status[t] \ {"READY"}]
      /\ d.ready = [s.ready EXCEPT ![s.prio[t]] = Without(s.ready[s.prio[t]], t)]
      /\ d.prio = s.prio /\ d.pend = s.pend /\ d.timers = s.timers /\ SameRun(d, s)
      /\ s.status[t] \ {"READY"} \in SUBSET Flag /\ s.status[t] \in SUBSET Flag
  BY <1>1, <1>3 DEF DequeueSpec, Statuses
<1>5. /\ r \in KState
      /\ r.status = [d.status EXCEPT ![t] = d.status[t] \cup {"READY"}]
      /\ r.ready = [d.ready EXCEPT ![d.prio[t]] = Append(d.ready[d.prio[t]], t)]
      /\ r.prio = d.prio /\ r.pend = d.pend /\ r.timers = d.timers /\ SameRun(r, d)
  <2>1. EnqueueSpec(r, d, t)
    BY <1>1, <1>2, <1>4, EnqueueFields
  <2> QED
    BY <2>1 DEF EnqueueSpec
<1>6. r.status = s.status
  BY <1>1, <1>4, <1>5 DEF Statuses
<1>7. ReadyOK(d.status, s.prio, d.ready)
  <2>1. PICK f, st, rd : f = s.status[t] \ {"READY"} /\ st = d.status /\ rd = d.ready
    OBVIOUS
  <2>2. /\ f \in SUBSET Flag /\ "READY" \notin f /\ st = [s.status EXCEPT ![t] = f]
        /\ rd = [s.ready EXCEPT ![s.prio[t]] = Without(s.ready[s.prio[t]], t)]
    BY <1>4, <2>1
  <2>3. ReadyOK(st, s.prio, rd)
    BY <1>1, <2>2, ReadyWithout
  <2> QED
    BY <2>1, <2>3
<1>8. ReadyOK(r.status, s.prio, r.ready)
  <2>1. PICK f, st, rd, st1, rd1 :
          /\ f = s.status[t] /\ st = d.status /\ rd = d.ready /\ st1 = r.status /\ rd1 = r.ready
    OBVIOUS
  <2>2. st \in Statuses /\ rd \in Readies /\ "READY" \notin st[t]
    <3>1. d.status \in Statuses /\ d.ready \in Readies
      BY <1>4 DEF KState, Statuses, Readies
    <3>2. "READY" \notin d.status[t]
      BY <1>1, <1>4 DEF Statuses
    <3> QED
      BY <2>1, <3>1, <3>2
  <2>6. st[t] \cup {"READY"} = f
    <3>1. st[t] = f \ {"READY"} /\ "READY" \in f
      BY <1>1, <1>4, <2>1 DEF Statuses
    <3> QED
      BY <3>1
  <2>7. st1 = [st EXCEPT ![t] = st[t] \cup {"READY"}]
    <3>1. r.status = [d.status EXCEPT ![t] = d.status[t] \cup {"READY"}]
      BY <1>5
    <3> QED
      BY <2>1, <3>1, Zenon
  <2>8. rd1 = [rd EXCEPT ![s.prio[t]] = Append(rd[s.prio[t]], t)]
    BY <1>4, <1>5, <2>1
  <2>3. /\ f \in SUBSET Flag /\ "READY" \in f /\ st1 = [st EXCEPT ![t] = f]
        /\ rd1 = [rd EXCEPT ![s.prio[t]] = Append(rd[s.prio[t]], t)]
    BY <1>4, <2>1, <2>6, <2>7, <2>8
  <2>4. ReadyOK(st, s.prio, rd)
    BY <1>7, <2>1
  <2>5. ReadyOK(st1, s.prio, rd1)
    BY <1>1, <2>2, <2>3, <2>4, ReadyAppend
  <2> QED
    BY <2>1, <2>5
<1>9. r.prio = s.prio /\ r.pend = s.pend /\ r.timers = s.timers /\ SameRun(r, s)
  BY <1>4, <1>5 DEF SameRun
<1> QED
  BY <1>5, <1>6, <1>8, <1>9 DEF Links

\* The tick ends a time slice.
LEMMA TimesliceStep ==
  ASSUME TasksInv, osTimesliceCheck
  PROVE  TasksInv'
<1>1. /\ ~k.fault /\ k' = LOS_Schedule(Rotated(k)) /\ at' = at /\ wait' = wait /\ app' = app
      /\ "READY" \in k.status[k.run]
  BY DEF osTimesliceCheck, CanYield
<1>2. /\ Links(k) /\ Control /\ at \in [Task -> {"app", "sched", "check"}]
      /\ wait = [u \in Task |-> wait[u]]
  BY <1>1 DEF TasksInv
<1> DEFINE s == Rotated(k)
<1>3. Links(s) /\ s.status = k.status /\ SameRun(s, k)
  BY <1>1, <1>2, RotatedLinks
<1>4. k' = LOS_Schedule(s)
  BY <1>1
<1> HIDE DEF s
<1>5. s.run = k.run /\ s.lock = k.lock /\ s.fault = k.fault
  BY <1>3 DEF SameRun
<1>6. s.lock # 0 => "READY" \in s.status[s.run] /\ "lock" \in app.calls
  BY <1>2, <1>3, <1>5 DEF Control
<1>7. \A t \in Task : Waits(s.status[t]) => wait'[t] # None /\ at'[t] # "app"
  BY <1>1, <1>2, <1>3 DEF Control, InWait
<1>8. at' \in [Task -> {"app", "sched", "check"}] /\ wait' = [u \in Task |-> wait'[u]]
  BY <1>1, <1>2
<1> QED
  BY <1>1, <1>3, <1>4, <1>5, <1>6, <1>7, <1>8, SwitchStep

\* The task layer's calls, one by one.
LEMMA YieldStep ==
  ASSUME TasksInv, LOS_TaskYield
  PROVE  TasksInv'
<1>1. Running /\ at[k.run] = "app" /\ ThenSchedule(Rotated(k), None) /\ UNCHANGED app
  BY DEF LOS_TaskYield, Calls, Running
<1>2. /\ Links(k) /\ "READY" \in k.status[k.run] /\ ~Waits(k.status[k.run])
      /\ k.lock # 0 => "lock" \in app.calls
  BY <1>1, RunningFacts
<1> DEFINE s == Rotated(k)
<1>3. Links(s) /\ s.status = k.status /\ SameRun(s, k)
  BY <1>2, RotatedLinks
<1>4. ThenSchedule(s, None)
  BY <1>1
<1> HIDE DEF s
<1>5. Kept(s) /\ s.lock = k.lock
  BY <1>3 DEF Kept, SameRun
<1> QED
  BY <1>1, <1>2, <1>3, <1>4, <1>5, ScheduleStep

\* The caller is delayed.
LEMMA DelayStep ==
  ASSUME TasksInv, LOS_TaskDelay
  PROVE  TasksInv'
<1> DEFINE t == k.run
           s == Delayed(k, t)
<1>1. Running /\ at[t] = "app" /\ k.lock = 0 /\ ThenSchedule(s, None) /\ UNCHANGED app
  BY DEF LOS_TaskDelay, Calls, Running, Delayed
<1>2. Links(k) /\ "READY" \in k.status[t] /\ ~Waits(k.status[t]) /\ t \in Task /\ t \in AnyTask
  BY <1>1, RunningFacts DEF Running
<1>3. s = Delayed(k, t) /\ t = k.run
  OBVIOUS
<1> HIDE DEF s, t
<1>4. /\ Links(s) /\ SameRun(s, k)
      /\ s.status = [k.status EXCEPT ![t] = (k.status[t] \ {"READY"}) \cup {"DELAY"}]
  BY <1>2, <1>3, DelayLinks
<1>5. /\ s.status[t] = (k.status[t] \ {"READY"}) \cup {"DELAY"}
      /\ \A u \in Task : u # t => s.status[u] = k.status[u]
  BY <1>2, <1>4 DEF Links, KState, AnyTask
<1>6. Kept(s) /\ s.lock = k.lock
  BY <1>3, <1>4, <1>5 DEF Kept, SameRun
<1>7. ~Waits(s.status[t])
  BY <1>2, <1>5 DEF Waits, InList
<1> QED
  BY <1>1, <1>3, <1>6, <1>7, ScheduleStep

\* A task other than the running one leaves the ready lists: the running task stays the one that is to run.
LEMMA OthersLeave ==
  ASSUME Links(k), Settled(k), NEW t \in Task, t # k.run,
         NEW s, s.run = k.run, s.lock = k.lock, s.late = k.late,
         \/ s.ready = k.ready
         \/ s.ready = [k.ready EXCEPT ![k.prio[t]] = Without(k.ready[k.prio[t]], t)]
  PROVE  Settled(s)
<1>1. SUFFICES ASSUME s.lock = 0, ~s.late PROVE s.run = osPriqueueTop(s)
  BY DEF Settled
<1>2. k.run = osPriqueueTop(k)
  BY <1>1 DEF Settled
<1>3. CASE s.ready = k.ready
  BY <1>2, <1>3, SameTop
<1>4. CASE s.ready = [k.ready EXCEPT ![k.prio[t]] = Without(k.ready[k.prio[t]], t)]
  BY <1>2, <1>4, TopStays
<1> QED
  BY <1>3, <1>4

\* A task is suspended, by itself or by another, while it is ready or waits.
LEMMA SuspendStep ==
  ASSUME TasksInv, NEW t \in Task, LOS_TaskSuspend(t)
  PROVE  TasksInv'
<1> DEFINE off == IF "READY" \in k.status[t] THEN osPriqueueDequeue(k, t) ELSE k
<1>1. off = IF "READY" \in k.status[t] THEN osPriqueueDequeue(k, t) ELSE k
  OBVIOUS
<1>2. /\ Running /\ at[k.run] = "app" /\ {"UNUSED", "SUSPEND"} \cap k.status[t] = {}
      /\ ~(t = k.run /\ k.lock # 0) /\ UNCHANGED app
      /\ LET s == [off EXCEPT !.status[t] = @ \cup {"SUSPEND"}]
         IN  IF t = k.run THEN ThenSchedule(s, None) ELSE ThenReturn(s)
  BY DEF LOS_TaskSuspend, Calls, Running
<1> HIDE DEF off
<1>3. /\ Links(k) /\ "READY" \in k.status[k.run] /\ ~Waits(k.status[k.run])
      /\ Settled(k) /\ t \in AnyTask /\ k \in KState
  BY <1>2, RunningFacts DEF AnyTask, Links
<1>4. k.lock # 0 => "lock" \in app.calls
  BY <1>2, RunningFacts
<1>5. /\ Links(off) /\ off.run = k.run /\ off.lock = k.lock /\ off.late = k.late /\ off.fault = k.fault
      /\ off.status = [k.status EXCEPT ![t] = k.status[t] \ {"READY"}]
      /\ \/ off.ready = k.ready
         \/ off.ready = [k.ready EXCEPT ![k.prio[t]] = Without(k.ready[k.prio[t]], t)]
  <2>1. CASE "READY" \in k.status[t]
    <3>1. off = osPriqueueDequeue(k, t)
      BY <1>1, <2>1
    <3>2. DequeueSpec(off, k, t)
      BY <1>3, <3>1, DequeueFields
    <3>3. Links(off)
      BY <1>3, <2>1, <3>1, DequeueLinks
    <3> QED
      BY <3>2, <3>3 DEF DequeueSpec, SameRun
  <2>2. CASE "READY" \notin k.status[t]
    <3>1. off = k
      BY <1>1, <2>2
    <3>2. k.status = [k.status EXCEPT ![t] = k.status[t] \ {"READY"}]
      BY <1>3, <2>2 DEF KState
    <3> QED
      BY <1>3, <3>1, <3>2
  <2> QED
    BY <2>1, <2>2
<1> DEFINE f == off.status[t] \cup {"SUSPEND"}
           s == [off EXCEPT !.status[t] = @ \cup {"SUSPEND"}]
<1>6. s = Flagged(off, t, f)
  BY DEF Flagged
<1>7. off.status[t] = k.status[t] \ {"READY"} /\ off.status[t] \in SUBSET Flag /\ StatusOK(off.status[t])
  BY <1>3, <1>5 DEF Links, KState, StatusesOK
<1>8. /\ f \in SUBSET Flag /\ StatusOK(f)
      /\ \A x \in Blocking \cup {"READY"} : x \in f <=> x \in off.status[t]
      /\ Waits(f) <=> Waits(k.status[t])
      /\ "TIMEOUT" \in f <=> "TIMEOUT" \in off.status[t]
  BY <1>2, <1>7 DEF StatusOK, Flag, Blocking, Waits, InList
<1>9. IF t = k.run THEN ThenSchedule(s, None) ELSE ThenReturn(s)
  BY <1>2
<1> HIDE DEF s, f
<1>10. /\ Links(s) /\ s.status = [off.status EXCEPT ![t] = f]
       /\ s.prio = off.prio /\ s.ready = off.ready /\ s.pend = off.pend /\ s.timers = off.timers
       /\ SameRun(s, off)
  <2>1. Restated(s, off, t, f)
    BY <1>5, <1>6, <1>8, OneStatusLinks
  <2> QED
    BY <2>1 DEF Restated
<1>11. /\ s.status[t] = f /\ \A u \in AnyTask : u # t => s.status[u] = k.status[u]
       /\ s.run = k.run /\ s.lock = k.lock /\ s.late = k.late /\ s.fault = k.fault
  BY <1>3, <1>5, <1>10 DEF KState, SameRun
<1>12. Kept(s)
  BY <1>8, <1>10, <1>11 DEF Kept, AnyTask
<1>13. CASE t = k.run
  <2>1. ~Waits(s.status[k.run]) /\ s.lock = 0
    BY <1>2, <1>3, <1>8, <1>11, <1>13
  <2> QED
    BY <1>2, <1>9, <1>12, <1>13, <2>1, ScheduleStep
<1>14. CASE t # k.run
  <2>1. Settled(s)
    BY <1>3, <1>5, <1>10, <1>11, <1>14, OthersLeave
  <2>2. "READY" \in s.status[k.run] /\ "TIMEOUT" \notin s.status[k.run]
    BY <1>2, <1>3, <1>11, <1>14 DEF Running, AnyTask, Waits
  <2>3. s.lock # 0 => "lock" \in app.calls
    BY <1>4, <1>11
  <2> QED
    BY <1>2, <1>9, <1>12, <1>14, <2>1, <2>2, <2>3, ReturnStep
<1> QED
  BY <1>13, <1>14

\* A suspended task is resumed: it becomes READY unless it still waits.
LEMMA ResumeTaskStep ==
  ASSUME TasksInv, NEW t \in Task, LOS_TaskResume(t)
  PROVE  TasksInv'
<1> DEFINE f == k.status[t] \ {"SUSPEND"}
           s == Flagged(k, t, f)
<1>1. /\ Running /\ at[k.run] = "app" /\ "SUSPEND" \in k.status[t] /\ UNCHANGED app
      /\ IF Blocking \cap k.status[t] = {} THEN ThenSchedule(osPriqueueEnqueue(s, t), None) ELSE ThenReturn(s)
  BY DEF LOS_TaskResume, Calls, Running, Flagged
<1>2. /\ Links(k) /\ "READY" \in k.status[k.run] /\ ~Waits(k.status[k.run])
      /\ Settled(k) /\ t \in AnyTask /\ k \in KState /\ k.run \in AnyTask
  BY <1>1, RunningFacts DEF AnyTask, Links
<1>3. k.lock # 0 => "lock" \in app.calls
  BY <1>1, RunningFacts
<1>4. StatusOK(k.status[t]) /\ k.status[t] \in SUBSET Flag
  BY <1>2 DEF Links, KState, StatusesOK
<1>5. "READY" \notin k.status[t] /\ "UNUSED" \notin k.status[t] /\ t # k.run
  BY <1>1, <1>2, <1>4 DEF StatusOK
<1>6. /\ f \in SUBSET Flag /\ StatusOK(f)
      /\ \A x \in Blocking \cup {"READY"} : x \in f <=> x \in k.status[t]
      /\ Waits(f) <=> Waits(k.status[t])
      /\ "TIMEOUT" \in f <=> "TIMEOUT" \in k.status[t]
      /\ Blocking \cap k.status[t] = {} => Detached(f)
  BY <1>4, <1>5 DEF StatusOK, Blocking, Waits, InList, Detached
<1>7. s = Flagged(k, t, f)
  OBVIOUS
<1> HIDE DEF s, f
<1>8. /\ Links(s) /\ s.status = [k.status EXCEPT ![t] = f]
      /\ s.prio = k.prio /\ s.ready = k.ready /\ s.pend = k.pend /\ s.timers = k.timers
      /\ SameRun(s, k)
  <2>1. Restated(s, k, t, f)
    BY <1>2, <1>6, <1>7, OneStatusLinks
  <2> QED
    BY <2>1 DEF Restated
<1>9. s.status[t] = f /\ \A u \in AnyTask : u # t => s.status[u] = k.status[u]
  BY <1>2, <1>8 DEF KState
<1>10. CASE Blocking \cap k.status[t] = {}
  <2> DEFINE r == osPriqueueEnqueue(s, t)
  <2>1. ThenSchedule(r, None) /\ r = osPriqueueEnqueue(s, t)
    BY <1>1, <1>10
  <2> HIDE DEF r
  <2>2. Detached(s.status[t]) /\ s \in KState
    BY <1>6, <1>8, <1>9, <1>10 DEF Links
  <2>3. Links(r)
    BY <1>2, <1>8, <2>1, <2>2, EnqueueLinks
  <2>4. EnqueueSpec(r, s, t)
    BY <1>2, <2>1, <2>2, EnqueueFields
  <2>5. /\ r.status[t] = f \cup {"READY"} /\ \A u \in AnyTask : u # t => r.status[u] = k.status[u]
        /\ SameRun(r, k)
    BY <1>2, <1>8, <1>9, <2>2, <2>4 DEF EnqueueSpec, KState, SameRun
  <2>6. Kept(r)
    BY <1>6, <2>3, <2>5 DEF Kept, AnyTask, SameRun, Waits, InList
  <2>7. ~Waits(r.status[k.run]) /\ "READY" \in r.status[k.run] /\ r.lock = k.lock
    BY <1>2, <1>5, <2>5 DEF SameRun
  <2> QED
    BY <1>1, <1>3, <2>1, <2>6, <2>7, ScheduleStep
<1>11. CASE Blocking \cap k.status[t] # {}
  <2>1. ThenReturn(s)
    BY <1>1, <1>11
  <2>2. s.run = k.run /\ s.lock = k.lock /\ s.late = k.late /\ s.fault = k.fault
    BY <1>8 DEF SameRun
  <2>3. Settled(s)
    BY <1>2, <1>5, <1>8, <2>2, OthersLeave
  <2>4. Kept(s)
    BY <1>6, <1>8, <1>9, <2>2 DEF Kept, AnyTask
  <2>5. "READY" \in s.status[k.run] /\ "TIMEOUT" \notin s.status[k.run]
    BY <1>2, <1>5, <1>9 DEF Waits
  <2> QED
    BY <1>1, <1>3, <2>1, <2>2, <2>3, <2>4, <2>5, ReturnStep
<1> QED
  BY <1>10, <1>11

\* A priority is set.
LEMMA PriSetStep ==
  ASSUME TasksInv, NEW t \in Task, NEW p \in 0..Lowest - 1, LOS_TaskPriSet(t, p)
  PROVE  TasksInv'
<1> DEFINE s == osTaskPriModify(k, t, p)
<1>1. /\ Running /\ at[k.run] = "app" /\ UNCHANGED app
      /\ IF "READY" \in k.status[t] THEN ThenSchedule(s, None) ELSE ThenReturn(s)
  BY DEF LOS_TaskPriSet, Calls, Running
<1>2. /\ Links(k) /\ "READY" \in k.status[k.run] /\ ~Waits(k.status[k.run])
      /\ Settled(k) /\ t \in AnyTask /\ k \in KState /\ k.run \in AnyTask
  BY <1>1, RunningFacts DEF AnyTask, Links
<1>3. k.lock # 0 => "lock" \in app.calls
  BY <1>1, RunningFacts
<1>4. p \in 0..Lowest /\ s = osTaskPriModify(k, t, p)
  BY TasksAssumption
<1> HIDE DEF s
<1>5. Links(s) /\ s.status = k.status /\ SameRun(s, k) /\ ("READY" \notin k.status[t] => s.ready = k.ready)
  <2>1. Reprioritised(s, k, t, p)
    BY <1>2, <1>4, PriModifyLinks
  <2> QED
    BY <2>1 DEF Reprioritised
<1>6. Kept(s) /\ s.lock = k.lock /\ s.late = k.late /\ s.run = k.run
  BY <1>5 DEF Kept, SameRun
<1>7. CASE "READY" \in k.status[t]
  BY <1>1, <1>2, <1>3, <1>5, <1>6, <1>7, ScheduleStep
<1>8. CASE "READY" \notin k.status[t]
  <2>1. t # k.run
    BY <1>2, <1>8
  <2>2. Settled(s)
    BY <1>2, <1>5, <1>6, <1>8, <2>1, OthersLeave
  <2> QED
    BY <1>1, <1>2, <1>3, <1>5, <1>6, <1>8, <2>2, ReturnStep DEF Waits
<1> QED
  BY <1>7, <1>8

\* Scheduling is locked once more.
LEMMA LockStep ==
  ASSUME TasksInv, LOS_TaskLock
  PROVE  TasksInv'
<1> DEFINE s == [k EXCEPT !.lock = @ + 1]
<1>1. /\ Running /\ at[k.run] = "app" /\ "lock" \in app.calls /\ k.lock < MaxLock
      /\ ThenReturn(s) /\ UNCHANGED app
  BY DEF LOS_TaskLock, Calls, Running
<1>2. Links(k) /\ "READY" \in k.status[k.run] /\ ~Waits(k.status[k.run]) /\ k \in KState
  BY <1>1, RunningFacts DEF Links
<1>3. k.lock \in 0..MaxLock /\ k.lock + 1 \in 0..MaxLock /\ k.lock + 1 # 0
  BY <1>1, <1>2, TasksAssumption DEF KState
<1>4. /\ s \in KState /\ s.status = k.status /\ s.prio = k.prio /\ s.ready = k.ready
      /\ s.pend = k.pend /\ s.timers = k.timers /\ s.run = k.run /\ s.fault = k.fault /\ s.lock # 0
  BY <1>2, <1>3 DEF KState
<1> HIDE DEF s
<1>5. Links(s)
  BY <1>2, <1>4, RunLinks
<1>6. Kept(s) /\ Settled(s)
  BY <1>4, <1>5 DEF Kept, Settled
<1> QED
  BY <1>1, <1>2, <1>4, <1>6, ReturnStep DEF Waits

\* Scheduling is unlocked once.
LEMMA UnlockStep ==
  ASSUME TasksInv, LOS_TaskUnlock
  PROVE  TasksInv'
<1> DEFINE s == [k EXCEPT !.lock = @ - 1]
<1>1. /\ Running /\ at[k.run] = "app" /\ "lock" \in app.calls /\ k.lock > 0 /\ UNCHANGED app
      /\ IF s.lock = 0 THEN ThenSchedule(s, None) ELSE ThenReturn(s)
  BY DEF LOS_TaskUnlock, Calls, Running
<1>2. Links(k) /\ "READY" \in k.status[k.run] /\ ~Waits(k.status[k.run]) /\ k \in KState
  BY <1>1, RunningFacts DEF Links
<1>3. k.lock \in 0..MaxLock /\ k.lock - 1 \in 0..MaxLock
  BY <1>1, <1>2, TasksAssumption DEF KState
<1>4. /\ s \in KState /\ s.status = k.status /\ s.prio = k.prio /\ s.ready = k.ready
      /\ s.pend = k.pend /\ s.timers = k.timers /\ s.run = k.run /\ s.fault = k.fault
  BY <1>2, <1>3 DEF KState
<1> HIDE DEF s
<1>5. Links(s)
  BY <1>2, <1>4, RunLinks
<1>6. Kept(s)
  BY <1>4, <1>5 DEF Kept
<1>7. CASE s.lock = 0
  BY <1>1, <1>2, <1>4, <1>6, <1>7, ScheduleStep
<1>8. CASE s.lock # 0
  BY <1>1, <1>2, <1>4, <1>6, <1>8, ReturnStep DEF Waits, Settled
<1> QED
  BY <1>7, <1>8

\* A deleted task is created again.
LEMMA CreateStep ==
  ASSUME TasksInv, NEW t \in Task, LOS_TaskCreate(t)
  PROVE  TasksInv'
<1> DEFINE p == app.prio[t]
           x == [k EXCEPT !.status[t] = {}, !.prio[t] = p]
           y == Flagged(k, t, {})
<1>1. /\ Running /\ at[k.run] = "app" /\ k.status[t] = {"UNUSED"} /\ UNCHANGED app
      /\ ThenSchedule(osPriqueueEnqueue(x, t), None)
  BY DEF LOS_TaskCreate, Calls, Running
<1>2. /\ Links(k) /\ "READY" \in k.status[k.run] /\ ~Waits(k.status[k.run])
      /\ t \in AnyTask /\ k \in KState /\ k.run \in AnyTask /\ t # k.run
  BY <1>1, RunningFacts DEF AnyTask, Links
<1>3. k.lock # 0 => "lock" \in app.calls
  BY <1>1, RunningFacts
<1>4. p \in 0..Lowest
  BY TasksAssumption DEF TasksInv
<1>5. y = Flagged(k, t, {})
  OBVIOUS
<1> HIDE DEF p, y
<1>6. /\ x \in KState /\ x.status = [k.status EXCEPT ![t] = {}] /\ x.prio = [k.prio EXCEPT ![t] = p]
      /\ x.ready = k.ready /\ x.pend = k.pend /\ x.timers = k.timers /\ SameRun(x, k)
  BY <1>2, <1>4 DEF KState, SameRun
<1> HIDE DEF x
<1>7. Restated(y, k, t, {})
  <2>1. /\ {} \in SUBSET Flag /\ StatusOK({}) /\ ~InList({})
        /\ \A e \in Blocking \cup {"READY"} : e \in {} <=> e \in k.status[t]
    BY <1>1 DEF StatusOK, InList, Blocking
  <2> QED
    BY <1>2, <1>5, <2>1, OneStatusLinks
<1>8. /\ Links(y) /\ y.status = x.status /\ y.prio = k.prio /\ y.ready = x.ready
      /\ y.pend = x.pend /\ y.timers = x.timers
  BY <1>6, <1>7 DEF Restated
<1>9. x.status[t] = {} /\ \A u \in AnyTask : u # t => x.status[u] = k.status[u]
  BY <1>2, <1>6 DEF KState
<1>10. Links(x)
  <2>1. ReadyOK(y.status, y.prio, y.ready) /\ y.prio \in [AnyTask -> 0..Lowest]
    BY <1>8 DEF Links, KState
  <2>2. ReadyOK(y.status, [y.prio EXCEPT ![t] = p], y.ready)
    BY <1>2, <1>4, <1>8, <1>9, <2>1, ReadyPrio
  <2>3. ReadyOK(x.status, x.prio, x.ready)
    BY <1>6, <1>8, <2>2
  <2> QED
    BY <1>6, <1>8, <2>3 DEF Links
<1> DEFINE r == osPriqueueEnqueue(x, t)
<1>11. r = osPriqueueEnqueue(x, t) /\ ThenSchedule(r, None)
  BY <1>1
<1> HIDE DEF r
<1>12. Detached(x.status[t])
  BY <1>9 DEF Detached
<1>13. Links(r)
  BY <1>2, <1>10, <1>11, <1>12, EnqueueLinks
<1>14. EnqueueSpec(r, x, t)
  BY <1>2, <1>6, <1>11, EnqueueFields
<1>15. /\ r.status[t] = {"READY"} /\ \A u \in AnyTask : u # t => r.status[u] = k.status[u]
       /\ SameRun(r, k)
  BY <1>2, <1>6, <1>9, <1>14 DEF EnqueueSpec, KState, SameRun
<1>16. Kept(r)
  BY <1>13, <1>15 DEF Kept, AnyTask, SameRun, Waits, InList
<1>17. ~Waits(r.status[k.run]) /\ "READY" \in r.status[k.run] /\ r.lock = k.lock
  BY <1>2, <1>15 DEF SameRun
<1> QED
  BY <1>1, <1>3, <1>11, <1>16, <1>17, ScheduleStep

\* A task is deleted: it leaves every list, or the core traps.
LEMMA DeleteStep ==
  ASSUME TasksInv, NEW t \in Task, LOS_TaskDelete(t)
  PROVE  TasksInv'
<1> DEFINE unlocked == IF t = k.run THEN [k EXCEPT !.lock = 0] ELSE k
           off == IF "READY" \in k.status[t] THEN osPriqueueDequeue(unlocked, t) ELSE unlocked
           s == WithoutWait(off, t, {"UNUSED"})
<1>1. /\ Running /\ at[k.run] = "app" /\ UNCHANGED app
      /\ IF TimedOut(t) /\ t \notin k.timers
         THEN k' = [k EXCEPT !.fault = TRUE]
         ELSE k' = IF t = k.run THEN LOS_Schedule(s) ELSE s
      /\ at' = [at EXCEPT ![t] = "app"]
      /\ wait' = [wait EXCEPT ![t] = None]
  BY DEF LOS_TaskDelete, Calls, Running, WithoutWait
<1>2. /\ Links(k) /\ "READY" \in k.status[k.run] /\ ~Waits(k.status[k.run])
      /\ Settled(k) /\ t \in AnyTask /\ k \in KState /\ k.run \in AnyTask
  BY <1>1, RunningFacts DEF AnyTask, Links
<1>3. k.lock # 0 => "lock" \in app.calls
  BY <1>1, RunningFacts
<1>4. /\ Control /\ at \in [Task -> {"app", "sched", "check"}]
      /\ wait = [u \in Task |-> wait[u]] /\ app \in Application
  BY <1>1 DEF TasksInv, Running
<1>5. at' \in [Task -> {"app", "sched", "check"}] /\ wait' = [u \in Task |-> wait'[u]]
  BY <1>1, <1>4
<1>6. CASE TimedOut(t) /\ t \notin k.timers
  <2> DEFINE z == [k EXCEPT !.fault = TRUE]
  <2>1. k' = z
    BY <1>1, <1>6
  <2>2. /\ z \in KState /\ z.status = k.status /\ z.prio = k.prio /\ z.ready = k.ready
        /\ z.pend = k.pend /\ z.timers = k.timers
    BY <1>2 DEF KState
  <2>3. z.fault
    BY <1>2 DEF KState
  <2> HIDE DEF z
  <2>4. Links(z)
    BY <1>2, <2>2, RunLinks
  <2>5. MostUrgentRuns'
    BY <2>1, <2>3 DEF MostUrgentRuns
  <2> QED
    BY <1>1, <1>4, <1>5, <2>1, <2>3, <2>4, <2>5 DEF TasksInv
<1>7. CASE ~(TimedOut(t) /\ t \notin k.timers)
  <2>1. k' = IF t = k.run THEN LOS_Schedule(s) ELSE s
    BY <1>1, <1>7
  <2>2. off = IF "READY" \in k.status[t] THEN osPriqueueDequeue(unlocked, t) ELSE unlocked
    OBVIOUS
  <2>3. s = WithoutWait(off, t, {"UNUSED"})
    OBVIOUS
  <2> HIDE DEF s, off
  <2>4. /\ unlocked \in KState /\ unlocked.status = k.status /\ unlocked.prio = k.prio
        /\ unlocked.ready = k.ready /\ unlocked.pend = k.pend /\ unlocked.timers = k.timers
        /\ unlocked.run = k.run /\ unlocked.fault = k.fault /\ unlocked.late = k.late
        /\ t = k.run => unlocked.lock = 0
        /\ t # k.run => unlocked.lock = k.lock
    <3>1. CASE t = k.run
      <4>1. 0 \in 0..MaxLock
        BY TasksAssumption
      <4> QED
        BY <1>2, <3>1, <4>1 DEF KState
    <3>2. CASE t # k.run
      BY <1>2, <3>2
    <3> QED
      BY <3>1, <3>2
  <2> HIDE DEF unlocked
  <2>5. Links(unlocked)
    BY <1>2, <2>4, RunLinks
  <2>6. /\ Links(off) /\ off.run = k.run /\ off.late = k.late /\ off.fault = k.fault
        /\ off.lock = unlocked.lock
        /\ off.status = [k.status EXCEPT ![t] = k.status[t] \ {"READY"}]
        /\ \/ off.ready = k.ready
           \/ off.ready = [k.ready EXCEPT ![k.prio[t]] = Without(k.ready[k.prio[t]], t)]
    <3>1. CASE "READY" \in k.status[t]
      <4>1. off = osPriqueueDequeue(unlocked, t)
        BY <2>2, <3>1
      <4>2. DequeueSpec(off, unlocked, t)
        BY <1>2, <2>4, <4>1, DequeueFields
      <4>3. Links(off)
        BY <2>4, <2>5, <3>1, <4>1, DequeueLinks
      <4> QED
        BY <2>4, <4>2, <4>3 DEF DequeueSpec, SameRun
    <3>2. CASE "READY" \notin k.status[t]
      <4>1. off = unlocked
        BY <2>2, <3>2
      <4>2. k.status = [k.status EXCEPT ![t] = k.status[t] \ {"READY"}]
        BY <1>2, <3>2 DEF KState
      <4> QED
        BY <2>4, <2>5, <4>1, <4>2
    <3> QED
      BY <3>1, <3>2
  <2>7. "READY" \notin off.status[t] /\ off \in KState
    BY <1>2, <2>6 DEF KState, Links
  <2>8. Links(s) /\ SameRun(s, off) /\ s.prio = off.prio /\ s.ready = off.ready
        /\ s.status = [off.status EXCEPT ![t] = {"UNUSED"}]
    <3>1. Released(s, off, t)
      BY <2>3, <2>6, <2>7, DeleteLinks
    <3> QED
      BY <3>1 DEF Released
  <2>9. /\ s.status[t] = {"UNUSED"} /\ \A u \in AnyTask : u # t => s.status[u] = k.status[u]
        /\ s.run = k.run /\ s.late = k.late /\ s.fault = k.fault /\ s.lock = unlocked.lock
    BY <1>2, <2>6, <2>7, <2>8 DEF KState, SameRun
  <2>10. ASSUME NEW u \in Task, Waits(s.status[u])
         PROVE  wait'[u] # None /\ at'[u] # "app"
    <3>1. u # t
      BY <2>9, <2>10 DEF Waits, InList
    <3>2. wait[u] # None /\ at[u] # "app"
      BY <1>4, <2>9, <2>10, <3>1 DEF Control, InWait, AnyTask
    <3> QED
      BY <1>1, <1>4, <3>1, <3>2
  <2>11. CASE t = k.run
    <3>1. k' = LOS_Schedule(s) /\ s.lock = 0
      BY <2>1, <2>4, <2>9, <2>11
    <3>2. ~k.fault /\ app' = app
      BY <1>1 DEF Running
    <3> QED
      BY <1>5, <2>8, <2>9, <2>10, <3>1, <3>2, SwitchStep
  <2>12. CASE t # k.run
    <3>1. k' = s
      BY <2>1, <2>12
    <3>2. Settled(s)
      BY <1>2, <2>4, <2>6, <2>8, <2>9, <2>12, OthersLeave
    <3>3. s.lock = k.lock /\ "READY" \in s.status[k.run] /\ at'[k.run] = "app" /\ k.run \in Task
      BY <1>1, <1>2, <1>4, <2>4, <2>9, <2>12 DEF Running
    <3>4. Control'
      BY <1>1, <1>3, <2>9, <2>10, <3>1, <3>3 DEF Control, InWait
    <3>5. MostUrgentRuns'
      BY <2>9, <3>1, <3>2 DEF MostUrgentRuns, Settled
    <3> QED
      BY <1>1, <1>4, <1>5, <2>8, <3>1, <3>4, <3>5 DEF TasksInv
  <2> QED
    BY <2>11, <2>12
<1> QED
  BY <1>6, <1>7

\* Every step of the task layer keeps the invariant.
LEMMA TasksSteps ==
  ASSUME TasksInv, TasksNext
  PROVE  TasksInv'
<1>1. CASE Reschedule
  BY <1>1, RescheduleStep
<1>2. CASE TickEndsWait
  BY <1>2, TickStep
<1>3. CASE osTimesliceCheck
  BY <1>3, TimesliceStep
<1>4. CASE LOS_TaskYield
  BY <1>4, YieldStep
<1>5. CASE LOS_TaskDelay
  BY <1>5, DelayStep
<1>6. CASE LOS_TaskLock
  BY <1>6, LockStep
<1>7. CASE LOS_TaskUnlock
  BY <1>7, UnlockStep
<1>8. ASSUME NEW t \in Task, LOS_TaskSuspend(t) PROVE TasksInv'
  BY <1>8, SuspendStep
<1>9. ASSUME NEW t \in Task, LOS_TaskResume(t) PROVE TasksInv'
  BY <1>9, ResumeTaskStep
<1>10. ASSUME NEW t \in Task, LOS_TaskDelete(t) PROVE TasksInv'
  BY <1>10, DeleteStep
<1>11. ASSUME NEW t \in Task, LOS_TaskCreate(t) PROVE TasksInv'
  BY <1>11, CreateStep
<1>12. ASSUME NEW t \in Task, NEW p \in 0..Lowest - 1, LOS_TaskPriSet(t, p) PROVE TasksInv'
  BY <1>12, PriSetStep
<1> QED
  BY <1>1, <1>2, <1>3, <1>4, <1>5, <1>6, <1>7, <1>8, <1>9, <1>10, <1>11, <1>12 DEF TasksNext, TaskCall
-----------------------------------------------------------------------------
(* The steps of the objects                                                *)

\* Which flag a task has that waits for an object of each kind.
LEMMA FlagsOfLists ==
  /\ \A m \in Mutex : MuxList(m) \in PendList /\ FlagOf(MuxList(m)) = "PEND"
  /\ \A s \in Sem : SemList(s) \in PendList /\ FlagOf(SemList(s)) = "PEND"
  /\ \A e \in Event : EventList(e) \in PendList /\ FlagOf(EventList(e)) = "PEND"
  /\ \A q \in Queue, side \in Side \cup {"mail"} :
       QueueList(q, side) \in PendList /\ FlagOf(QueueList(q, side)) = "PEND_QUEUE"
  /\ \A l \in RWLock : /\ ReadList(l) \in PendList /\ FlagOf(ReadList(l)) = "PEND"
                       /\ WriteList(l) \in PendList /\ FlagOf(WriteList(l)) = "PEND"
BY MutexAssumption, SemAssumption, EventAssumption, QueueAssumption, RWLockAssumption
   DEF FlagOf, MuxList, SemList, EventList, QueueList, ReadList, WriteList

\* The head of a pend list waits in it.
LEMMA FirstWaits ==
  ASSUME Links(k), NEW l \in PendList, k.pend[l] # <<>>
  PROVE  Head(k.pend[l]) \in Task /\ OnList(k.pend[l], Head(k.pend[l]))
<1> DEFINE list == k.pend[l]
<1>1. list \in Seq(Task) /\ list # <<>>
  BY DEF Links, KState
<1>2. Head(list) = list[1] /\ 1 \in DOMAIN list /\ Head(list) \in Task
  BY <1>1
<1> QED
  BY <1>2 DEF OnList

\* A call that leaves the kernel as it is.
LEMMA CallReturns ==
  ASSUME TasksInv, NEW f, Calls(f), ThenReturn(k), UNCHANGED app
  PROVE  TasksInv'
<1>1. Running /\ at[k.run] = "app"
  BY DEF Calls, Running
<1>2. "TIMEOUT" \notin k.status[k.run]
  BY <1>1, RunningFacts DEF Waits
<1> QED
  BY <1>1, <1>2, ReturnSame

\* A call that waits.
LEMMA CallWaits ==
  ASSUME TasksInv, NEW f, Calls(f), k.lock = 0, NEW list \in PendList, NEW timed, NEW w, w # None,
         ThenSchedule(osTaskWait(k, list, FlagOf(list), timed), w), UNCHANGED app
  PROVE  TasksInv'
<1>1. Running /\ at[k.run] = "app" /\ Links(k) /\ SameRun(k, k)
  BY DEF Calls, Running, TasksInv, SameRun
<1> QED
  BY <1>1, WaitStep

\* A call that takes what is there, or gives it to who waits longest.
LEMMA CallHandsOver ==
  ASSUME TasksInv, Running, "TIMEOUT" \notin k.status[k.run],
         NEW l \in PendList, k.pend[l] # <<>>,
         ThenSchedule(osTaskWake(k, Head(k.pend[l]), FlagOf(l)), None), UNCHANGED app
  PROVE  TasksInv'
<1> DEFINE t == Head(k.pend[l])
           r == osTaskWake(k, t, FlagOf(l))
<1>1. Links(k) /\ SameRun(k, k)
  BY DEF TasksInv, SameRun
<1>2. t \in Task /\ OnList(k.pend[l], t)
  BY <1>1, FirstWaits
<1>3. ThenSchedule(r, None) /\ r = osTaskWake(k, t, FlagOf(l))
  OBVIOUS
<1> HIDE DEF r, t
<1>4. WokenSpec(r, k, l, {t})
  BY <1>1, <1>2, <1>3, WakeOne
<1>5. \A u \in {t} : u \in Task /\ OnList(k.pend[l], u)
  BY <1>2
<1> QED
  BY <1>1, <1>3, <1>4, <1>5, WokenSchedule

\* An interrupt handler gives an object to who waits longest.
LEMMA InterruptHandsOver ==
  ASSUME TasksInv, ~k.fault, NEW l \in PendList, k.pend[l] # <<>>,
         ThenResume(osTaskWake(k, Head(k.pend[l]), FlagOf(l))), UNCHANGED app
  PROVE  TasksInv'
<1> DEFINE t == Head(k.pend[l])
           r == osTaskWake(k, t, FlagOf(l))
<1>1. Links(k)
  BY DEF TasksInv
<1>2. t \in Task /\ OnList(k.pend[l], t)
  BY <1>1, FirstWaits
<1>3. ThenResume(r) /\ r = osTaskWake(k, t, FlagOf(l))
  OBVIOUS
<1> HIDE DEF r, t
<1>4. WokenSpec(r, k, l, {t})
  BY <1>1, <1>2, <1>3, WakeOne
<1>5. \A u \in {t} : u \in Task /\ OnList(k.pend[l], u)
  BY <1>2
<1> QED
  BY <1>3, <1>4, <1>5, WokenResume

\* A call, and an interrupt, that wakes those of a list that are in who.
LEMMA CallWakes ==
  ASSUME TasksInv, Running, "TIMEOUT" \notin k.status[k.run], NEW l \in PendList, NEW who,
         ThenSchedule(WakeAll(k, k.pend[l], who, FlagOf(l)), None), UNCHANGED app
  PROVE  TasksInv'
<1> DEFINE D == {t \in Task : t \in who /\ OnList(k.pend[l], t)}
           r == WakeAll(k, k.pend[l], who, FlagOf(l))
<1>1. Links(k) /\ SameRun(k, k)
  BY DEF TasksInv, SameRun
<1>2. WokenSpec(r, k, l, D)
  BY <1>1, WakeAllSpec
<1>3. \A u \in D : u \in Task /\ OnList(k.pend[l], u)
  OBVIOUS
<1>4. ThenSchedule(r, None)
  OBVIOUS
<1> HIDE DEF r, D
<1> QED
  BY <1>1, <1>2, <1>3, <1>4, WokenSchedule

\* An interrupt handler wakes those of a list that are in who.
LEMMA InterruptWakes ==
  ASSUME TasksInv, ~k.fault, NEW l \in PendList, NEW who,
         ThenResume(WakeAll(k, k.pend[l], who, FlagOf(l))), UNCHANGED app
  PROVE  TasksInv'
<1> DEFINE D == {t \in Task : t \in who /\ OnList(k.pend[l], t)}
           r == WakeAll(k, k.pend[l], who, FlagOf(l))
<1>1. Links(k)
  BY DEF TasksInv
<1>2. WokenSpec(r, k, l, D)
  BY <1>1, WakeAllSpec
<1>3. \A u \in D : u \in Task /\ OnList(k.pend[l], u)
  OBVIOUS
<1>4. ThenResume(r)
  OBVIOUS
<1> HIDE DEF r, D
<1> QED
  BY <1>2, <1>3, <1>4, WokenResume

\* What the steps need to know of the mutexes.
MutexesOK ==
  /\ mux \in [Mutex -> [used : BOOLEAN, count : Nat, owner : Task \cup {None}, prio : 0..Lowest]]
  /\ \A m \in Mutex : mux[m].count > 0 => mux[m].owner \in Task

\* No call on a mutex breaks the invariant; the owner's priority changes while
\* it is ready, waits or is suspended.
LEMMA MutexSteps ==
  ASSUME TasksInv, MutexesOK, MutexNext
  PROVE  TasksInv'
<1> SUFFICES ASSUME NEW m \in Mutex, UNCHANGED app,
                    \/ LOS_MuxCreate(m) \/ LOS_MuxDelete(m)
                    \/ \E timeout \in app.timeouts : LOS_MuxPend(m, timeout)
                    \/ MuxPendReturns(m)
                    \/ LOS_MuxPost(m)
             PROVE  TasksInv'
  BY DEF MutexNext
<1>1. MuxList(m) \in PendList /\ FlagOf(MuxList(m)) = "PEND" /\ For(MuxList(m), None) # None
  BY FlagsOfLists, WaitAssumption
<1>2. CASE LOS_MuxCreate(m) \/ LOS_MuxDelete(m)
  BY <1>2, CallReturns DEF LOS_MuxCreate, LOS_MuxDelete
<1>3. ASSUME NEW timeout, LOS_MuxPend(m, timeout) PROVE TasksInv'
  <2>1. Calls("mutex") /\ Running /\ at[k.run] = "app"
    BY <1>3 DEF LOS_MuxPend, Calls, Running
  <2>2. CASE PendFree(m) \/ PendAgain(m)
    BY <2>1, <2>2, CallReturns DEF PendFree, PendAgain
  <2>3. CASE PendWait(m, timeout)
    <3> DEFINE owner == mux[m].owner
               s == IF k.prio[owner] > k.prio[k.run] THEN osTaskPriModify(k, owner, k.prio[k.run]) ELSE k
               timed == timeout = "ticks"
    <3>1. /\ mux[m].count > 0 /\ k.lock = 0
          /\ ThenSchedule(osTaskWait(s, MuxList(m), "PEND", timed), For(MuxList(m), None))
      BY <2>3 DEF PendWait
    <3>2. owner \in Task /\ k.prio[k.run] \in 0..Lowest /\ Links(k)
      BY <3>1, <2>1 DEF MutexesOK, TasksInv, Links, KState, Running, AnyTask
    <3>3. Links(s) /\ s.status = k.status /\ SameRun(s, k)
      <4>1. CASE k.prio[owner] > k.prio[k.run]
        <5>1. Reprioritised(osTaskPriModify(k, owner, k.prio[k.run]), k, owner, k.prio[k.run])
          BY <3>2, PriModifyLinks
        <5> QED
          BY <4>1, <5>1 DEF Reprioritised
      <4>2. CASE ~(k.prio[owner] > k.prio[k.run])
        <5>1. s = k
          BY <4>2
        <5> HIDE DEF s
        <5> QED
          BY <3>2, <5>1 DEF SameRun
      <4> QED
        BY <4>1, <4>2
    <3> HIDE DEF s, timed
    <3>4. ThenSchedule(osTaskWait(s, MuxList(m), FlagOf(MuxList(m)), timed), For(MuxList(m), None))
      BY <1>1, <3>1
    <3> QED
      BY <1>1, <2>1, <3>1, <3>3, <3>4, WaitStep
  <2> QED
    BY <1>3, <2>2, <2>3 DEF LOS_MuxPend
<1>4. CASE MuxPendReturns(m)
  <2>1. Running /\ ThenReturn(Cleared(k))
    BY <1>4 DEF MuxPendReturns, Checks, Running
  <2> QED
    BY <2>1, ReturnCleared
<1>5. CASE LOS_MuxPost(m)
  <2> DEFINE t == k.run
             p == mux[m].prio
             s == IF k.prio[t] # mux[m].prio THEN osTaskPriModify(k, t, mux[m].prio) ELSE k
             waiters == s.pend[MuxList(m)]
  <2>1. /\ Calls("mutex") /\ Running /\ at[k.run] = "app"
        /\ IF mux[m].count > 1
           THEN ThenReturn(k)
           ELSE IF waiters = <<>>
           THEN ThenReturn([s EXCEPT !.late = @ \/ s.prio # k.prio])
           ELSE ThenSchedule(osTaskWake(s, Head(waiters), "PEND"), None)
    BY <1>5 DEF LOS_MuxPost, Calls, Running
  <2>2. /\ Links(k) /\ "READY" \in k.status[t] /\ ~Waits(k.status[t]) /\ t \in Task /\ t \in AnyTask
        /\ Settled(k) /\ p \in 0..Lowest /\ k \in KState
    BY <2>1, RunningFacts DEF Running, MutexesOK, Links
  <2>3. k.lock # 0 => "lock" \in app.calls
    BY <2>1, RunningFacts
  <2>4. /\ Links(s) /\ s.status = k.status /\ s.pend = k.pend /\ SameRun(s, k)
        /\ s.prio = k.prio => s = k
    <3>1. CASE k.prio[t] # p
      <4>1. Reprioritised(osTaskPriModify(k, t, p), k, t, p)
        BY <2>2, PriModifyLinks
      <4>2. s = osTaskPriModify(k, t, p)
        BY <3>1
      <4> HIDE DEF s
      <4>3. s.prio = [k.prio EXCEPT ![t] = p]
        BY <4>1, <4>2 DEF Reprioritised
      <4>4. s.prio # k.prio
        BY <2>2, <3>1, <4>3 DEF KState
      <4> QED
        BY <4>1, <4>2, <4>4 DEF Reprioritised
    <3>2. CASE k.prio[t] = p
      <4>1. s = k
        BY <3>2
      <4> HIDE DEF s
      <4> QED
        BY <2>2, <4>1 DEF SameRun
    <3> QED
      BY <3>1, <3>2
  <2>5. CASE mux[m].count > 1
    BY <2>1, <2>5, CallReturns
  <2>6. CASE ~(mux[m].count > 1) /\ waiters = <<>>
    <3> DEFINE changed == s.prio # k.prio
               r == [s EXCEPT !.late = @ \/ changed]
    <3>1. ThenReturn(r)
      BY <2>1, <2>6
    <3> HIDE DEF s
    <3>2. /\ r \in KState /\ r.status = s.status /\ r.prio = s.prio /\ r.ready = s.ready
          /\ r.pend = s.pend /\ r.timers = s.timers /\ r.run = s.run /\ r.lock = s.lock /\ r.fault = s.fault
      BY <2>4 DEF Links, KState
    <3>3. ~r.late => ~s.late /\ s.prio = k.prio
      BY <2>4 DEF Links, KState
    <3> HIDE DEF r
    <3>4. Links(r)
      BY <2>4, <3>2, RunLinks
    <3>5. Kept(r) /\ r.lock = k.lock
      BY <2>4, <3>2, <3>4 DEF Kept, SameRun
    <3>6. Settled(r)
      <4>1. SUFFICES ASSUME r.lock = 0, ~r.late PROVE r.run = osPriqueueTop(r)
        BY DEF Settled
      <4>2. s = k /\ ~s.late
        BY <2>4, <3>3, <4>1
      <4>3. k.run = osPriqueueTop(k)
        BY <2>2, <3>5, <4>1, <4>2 DEF Settled
      <4> QED
        BY <3>2, <4>2, <4>3, SameTop
    <3>7. "READY" \in r.status[k.run] /\ "TIMEOUT" \notin r.status[k.run]
      BY <2>2, <2>4, <3>2 DEF Waits
    <3>8. r.lock # 0 => "lock" \in app.calls
      BY <2>3, <3>5
    <3> QED
      BY <2>1, <3>1, <3>5, <3>6, <3>7, <3>8, ReturnStep
  <2>7. CASE ~(mux[m].count > 1) /\ waiters # <<>>
    <3> DEFINE h == Head(waiters)
               r == osTaskWake(s, h, FlagOf(MuxList(m)))
    <3>1. ThenSchedule(r, None)
      BY <1>1, <2>1, <2>7
    <3>2. waiters = k.pend[MuxList(m)]
      BY <2>4
    <3>3. h \in Task /\ OnList(k.pend[MuxList(m)], h)
      BY <1>1, <2>2, <2>7, <3>2, FirstWaits
    <3>4. r = osTaskWake(s, h, FlagOf(MuxList(m)))
      OBVIOUS
    <3> HIDE DEF s, h, r
    <3>5. WokenSpec(r, s, MuxList(m), {h})
      BY <1>1, <2>4, <3>3, <3>4, WakeOne
    <3>6. \A u \in {h} : u \in Task /\ OnList(k.pend[MuxList(m)], u)
      BY <3>3
    <3>7. "TIMEOUT" \notin k.status[k.run]
      BY <2>2 DEF Waits
    <3> QED
      BY <1>1, <2>1, <2>4, <3>1, <3>5, <3>6, <3>7, WokenSchedule
  <2> QED
    BY <2>5, <2>6, <2>7
<1> QED
  BY <1>2, <1>3, <1>4, <1>5
Recounted(m, n) == [mux EXCEPT ![m].count = n]

\* The mutexes keep what the steps need to know of them.
LEMMA MutexesKept ==
  ASSUME TasksInv, MutexesOK, MutexNext
  PROVE  MutexesOK'
<1> SUFFICES ASSUME NEW m \in Mutex,
                    \/ LOS_MuxCreate(m) \/ LOS_MuxDelete(m)
                    \/ \E timeout \in app.timeouts : LOS_MuxPend(m, timeout)
                    \/ MuxPendReturns(m)
                    \/ LOS_MuxPost(m)
             PROVE  MutexesOK'
  BY DEF MutexNext
<1>1. /\ mux \in [Mutex -> [used : BOOLEAN, count : Nat, owner : Task \cup {None}, prio : 0..Lowest]]
      /\ \A n \in Mutex : mux[n].count > 0 => mux[n].owner \in Task
      /\ Links(k) /\ \A t \in Task : k.prio[t] \in 0..Lowest
  BY DEF MutexesOK, TasksInv, Links, KState, AnyTask
<1>2. ASSUME mux' = mux PROVE MutexesOK'
  BY <1>2 DEF MutexesOK
<1>3. ASSUME NEW b \in [used : BOOLEAN, count : Nat, owner : Task \cup {None}, prio : 0..Lowest],
             b.count > 0 => b.owner \in Task, mux' = [mux EXCEPT ![m] = b]
      PROVE  MutexesOK'
  BY <1>1, <1>3 DEF MutexesOK
<1>4. ASSUME NEW t \in Task, NEW n \in Nat
      PROVE  /\ OwnedBy(t, n) \in [used : BOOLEAN, count : Nat, owner : Task \cup {None}, prio : 0..Lowest]
             /\ OwnedBy(t, n).owner \in Task
  BY <1>1 DEF OwnedBy
<1>0. ASSUME NEW n \in Nat, n > 0 => mux[m].count > 0, mux' = Recounted(m, n)
      PROVE  MutexesOK'
  BY <1>1, <1>0 DEF MutexesOK, Recounted
<1>5. CASE LOS_MuxCreate(m)
  <2>1. /\ Free \in [used : BOOLEAN, count : Nat, owner : Task \cup {None}, prio : 0..Lowest]
        /\ ~(Free.count > 0)
    BY TasksAssumption DEF Free
  <2> QED
    BY <1>3, <1>5, <2>1 DEF LOS_MuxCreate
<1>6. CASE LOS_MuxDelete(m)
  BY <1>1, <1>6 DEF LOS_MuxDelete, MutexesOK
<1>7. ASSUME NEW timeout, LOS_MuxPend(m, timeout) PROVE MutexesOK'
  <2>1. k.run \in Task
    BY <1>7 DEF LOS_MuxPend, Calls
  <2>2. CASE PendFree(m)
    <3>1. mux' = [mux EXCEPT ![m] = OwnedBy(k.run, 1)] /\ 1 \in Nat
      BY <2>2 DEF PendFree
    <3> HIDE DEF MutexesOK
    <3> QED
      BY <1>3, <1>4, <2>1, <3>1
  <2>3. CASE PendAgain(m)
    BY <1>1, <2>3, MutexAssumption DEF PendAgain, MutexesOK
  <2>4. CASE PendWait(m, timeout)
    BY <1>2, <2>4 DEF PendWait, mutexVars
  <2> QED
    BY <1>7, <2>2, <2>3, <2>4 DEF LOS_MuxPend
<1>8. CASE MuxPendReturns(m)
  BY <1>2, <1>8 DEF MuxPendReturns
<1>9. CASE LOS_MuxPost(m)
  <2> DEFINE t == k.run
             s == IF k.prio[t] # mux[m].prio THEN osTaskPriModify(k, t, mux[m].prio) ELSE k
             waiters == s.pend[MuxList(m)]
  <2>1. /\ t \in Task /\ mux[m].count > 0
        /\ IF mux[m].count > 1
           THEN mux' = [mux EXCEPT ![m].count = @ - 1]
           ELSE IF waiters = <<>>
           THEN mux' = [mux EXCEPT ![m].count = 0]
           ELSE mux' = [mux EXCEPT ![m] = OwnedBy(Head(waiters), 1)]
    BY <1>9 DEF LOS_MuxPost, Calls
  <2>2. CASE mux[m].count > 1
    <3>1. mux' = [mux EXCEPT ![m].count = @ - 1]
      BY <2>1, <2>2
    <3> HIDE DEF t, s, waiters, MutexesOK
    <3>2. PICK n \in Nat : n = mux[m].count - 1
      BY <1>1, <2>2
    <3>3. mux' = Recounted(m, n)
      BY <3>1, <3>2 DEF Recounted
    <3> QED
      BY <1>0, <2>1, <3>3
  <2>3. CASE ~(mux[m].count > 1) /\ waiters = <<>>
    <3>1. mux' = [mux EXCEPT ![m].count = 0]
      BY <2>1, <2>3
    <3> HIDE DEF t, s, waiters, MutexesOK
    <3>2. PICK n \in Nat : n = 0
      OBVIOUS
    <3>3. mux' = Recounted(m, n)
      BY <3>1, <3>2 DEF Recounted
    <3> QED
      BY <1>0, <3>2, <3>3
  <2>4. CASE ~(mux[m].count > 1) /\ waiters # <<>>
    <3>1. s.pend = k.pend
      <4>1. CASE k.prio[t] # mux[m].prio
        <5>1. Reprioritised(osTaskPriModify(k, t, mux[m].prio), k, t, mux[m].prio)
          BY <1>1, <2>1, PriModifyLinks
        <5> QED
          BY <4>1, <5>1 DEF Reprioritised
      <4>2. CASE k.prio[t] = mux[m].prio
        BY <4>2
      <4> QED
        BY <4>1, <4>2
    <3>2. Head(waiters) \in Task /\ mux' = [mux EXCEPT ![m] = OwnedBy(Head(waiters), 1)] /\ 1 \in Nat
      BY <1>1, <2>1, <2>4, <3>1, FirstWaits, FlagsOfLists
    <3> DEFINE h == Head(waiters)
    <3> HIDE DEF h, MutexesOK
    <3>3. h \in Task /\ mux' = [mux EXCEPT ![m] = OwnedBy(h, 1)]
      BY <3>2 DEF h
    <3> QED
      BY <1>3, <1>4, <3>3
  <2> QED
    BY <2>2, <2>3, <2>4
<1> QED
  BY <1>5, <1>6, <1>7, <1>8, <1>9


\* A semaphore is deleted: its waiters are woken and find their flag TIMEOUT set.
LEMMA SemDeleteStep ==
  ASSUME TasksInv, NEW s \in Sem, LOS_SemDelete(s), UNCHANGED app
  PROVE  TasksInv'
<1> DEFINE l == SemList(s)
           waiters == k.pend[l]
           woken == WakeAll(k, waiters, Task, "PEND")
           status == [t \in AnyTask |-> IF OnList(waiters, t) THEN woken.status[t] \cup {"TIMEOUT"}
                                                              ELSE woken.status[t]]
           r == [woken EXCEPT !.status = status]
           D == {t \in Task : t \in Task /\ OnList(k.pend[l], t)}
<1>1. Running /\ at[k.run] = "app" /\ ThenSchedule(r, None)
  BY DEF LOS_SemDelete, Calls, Running
<1>2. l \in PendList /\ FlagOf(l) = "PEND"
  BY FlagsOfLists
<1>3. /\ Links(k) /\ "READY" \in k.status[k.run] /\ ~Waits(k.status[k.run])
      /\ k \in KState /\ k.run \in AnyTask /\ SameRun(k, k)
  BY <1>1, RunningFacts DEF Links, SameRun
<1>4. k.lock # 0 => "lock" \in app.calls
  BY <1>1, RunningFacts
<1>5. WokenSpec(woken, k, l, D)
  <2>1. woken = WakeAll(k, k.pend[l], Task, FlagOf(l))
    BY <1>2
  <2> HIDE DEF woken, l
  <2> QED
    BY <1>2, <1>3, <2>1, WakeAllSpec
<1>6. D = {t \in Task : OnList(k.pend[l], t)} /\ waiters = k.pend[l]
  OBVIOUS
<1>7. status = [t \in AnyTask |-> IF OnList(waiters, t) THEN woken.status[t] \cup {"TIMEOUT"}
                                                        ELSE woken.status[t]]
  OBVIOUS
<1> HIDE DEF l, waiters, woken, status, D
<1>8. \A t \in D : t \in Task /\ OnList(k.pend[l], t)
  BY <1>6
<1>9. /\ Links(woken) /\ SameRun(woken, k)
      /\ \A t \in AnyTask : t \notin D => woken.status[t] = k.status[t]
      /\ \A t \in Task : Waits(woken.status[t]) => Waits(k.status[t])
      /\ \A t \in AnyTask : "READY" \in k.status[t] => woken.status[t] = k.status[t]
  BY <1>2, <1>3, <1>5, <1>8, WokenKept
<1>10. woken \in KState
  BY <1>9 DEF Links
<1>11. ASSUME NEW t \in AnyTask
       PROVE  /\ status[t] = IF t \in D THEN woken.status[t] \cup {"TIMEOUT"} ELSE woken.status[t]
              /\ t \in D => FlagOf(l) \in k.status[t] /\ woken.status[t] = Woke(k.status[t], {FlagOf(l), "TIMEOUT"})
              /\ status[t] \in SUBSET Flag
  <2>1. OnList(waiters, t) => t \in Task
    BY <1>2, <1>3, <1>6 DEF OnList, KState
  <2>2. t \in D <=> OnList(waiters, t)
    BY <1>6, <2>1
  <2>3. t \in D => FlagOf(l) \in k.status[t] /\ woken.status[t] = Woke(k.status[t], {FlagOf(l), "TIMEOUT"})
    BY <1>2, <1>3, <1>5, <1>6 DEF WokenSpec, Links, PendOK
  <2> QED
    BY <1>7, <1>10, <2>2, <2>3 DEF KState, Flag
<1>12. status \in [AnyTask -> SUBSET Flag]
  BY <1>7, <1>11
<1>13. /\ r \in KState /\ r.status = status /\ r.prio = woken.prio /\ r.ready = woken.ready
       /\ r.pend = woken.pend /\ r.timers = woken.timers /\ SameRun(r, woken)
  BY <1>10, <1>12 DEF KState, SameRun
<1> HIDE DEF r
<1>14. StatusesOK(status)
  <2>1. Idle \in AnyTask /\ Idle \notin D
    BY <1>6, TasksAssumption DEF AnyTask
  <2>2. ASSUME NEW t \in AnyTask PROVE StatusOK(status[t])
    <3>1. StatusOK(woken.status[t]) /\ StatusOK(k.status[t])
      BY <1>3, <1>9 DEF Links, StatusesOK
    <3>2. CASE t \notin D
      BY <1>11, <3>1, <3>2
    <3>3. CASE t \in D
      <4>1. "UNUSED" \notin woken.status[t]
        BY <1>2, <1>11, <3>1, <3>3 DEF StatusOK, Woke
      <4>2. status[t] = woken.status[t] \cup {"TIMEOUT"}
        BY <1>11, <3>3
      <4>3. status[t] \cap (Blocking \cup {"READY", "UNUSED"}) = woken.status[t] \cap (Blocking \cup {"READY", "UNUSED"})
        BY <4>2 DEF Blocking
      <4> QED
        BY <3>1, <4>1, <4>2, <4>3 DEF StatusOK, Blocking
    <3> QED
      BY <3>2, <3>3
  <2> QED
    BY <1>9, <1>11, <2>1, <2>2 DEF Links, StatusesOK
<1>15. \A t \in AnyTask : \A x \in Blocking \cup {"READY"} : x \in status[t] <=> x \in woken.status[t]
  BY <1>11 DEF Blocking
<1>16. ASSUME NEW t \in Task, InList(status[t])
       PROVE  "TIMEOUT" \in status[t] <=> "TIMEOUT" \in woken.status[t]
  <2>1. t \notin D
    <3>1. SUFFICES ASSUME t \in D PROVE FALSE
      OBVIOUS
    <3>2. StatusOK(k.status[t]) /\ t \in AnyTask
      BY <1>3 DEF Links, StatusesOK, AnyTask
    <3>3. "PEND" \in k.status[t] /\ status[t] = Woke(k.status[t], {"PEND", "TIMEOUT"}) \cup {"TIMEOUT"}
      BY <1>2, <1>11, <3>1, <3>2
    <3>4. "PEND_QUEUE" \notin k.status[t]
      BY <3>2, <3>3 DEF StatusOK, Blocking
    <3> QED
      BY <1>16, <3>3, <3>4 DEF Woke, InList
  <2> QED
    BY <1>11, <2>1 DEF AnyTask
<1>17. Links(r)
  BY <1>9, <1>13, <1>14, <1>15, <1>16, StatusLinks
<1>18. \A t \in Task : Waits(r.status[t]) => Waits(k.status[t])
  <2>1. ASSUME NEW t \in Task, Waits(r.status[t]) PROVE Waits(k.status[t])
    <3>1. CASE t \in D
      BY <1>2, <1>11, <3>1 DEF Waits, InList, AnyTask
    <3>2. CASE t \notin D
      BY <1>9, <1>11, <1>13, <2>1, <3>2 DEF AnyTask
    <3> QED
      BY <3>1, <3>2
  <2> QED
    BY <2>1
<1>19. Kept(r) /\ r.lock = k.lock
  BY <1>9, <1>13, <1>17, <1>18 DEF Kept, SameRun
<1>20. r.status[k.run] = k.status[k.run]
  <2>1. k.run \notin D
    <3>1. SUFFICES ASSUME k.run \in D PROVE FALSE
      OBVIOUS
    <3>2. FlagOf(l) \in k.status[k.run] /\ k.run \in Task
      BY <1>3, <1>6, <1>11, <3>1
    <3> QED
      BY <1>2, <1>3, <3>2 DEF Waits, InList
  <2> QED
    BY <1>3, <1>9, <1>11, <1>13, <2>1
<1> QED
  BY <1>1, <1>3, <1>4, <1>19, <1>20, ScheduleStep

\* No call on a semaphore breaks the invariant.
LEMMA SemSteps ==
  ASSUME TasksInv, SemNext
  PROVE  TasksInv'
<1> SUFFICES ASSUME NEW s \in Sem, UNCHANGED app,
                    \/ \E n \in 0..MaxCount : LOS_SemCreate(s, n)
                    \/ LOS_SemDelete(s)
                    \/ \E timeout \in app.timeouts : LOS_SemPend(s, timeout)
                    \/ SemPendReturns(s)
                    \/ LOS_SemPost(s) \/ InterruptPosts(s)
             PROVE  TasksInv'
  BY DEF SemNext
<1>1. SemList(s) \in PendList /\ FlagOf(SemList(s)) = "PEND" /\ For(SemList(s), None) # None
  BY FlagsOfLists, WaitAssumption
<1>2. ASSUME NEW n, LOS_SemCreate(s, n) PROVE TasksInv'
  BY <1>2, CallReturns DEF LOS_SemCreate
<1>3. CASE LOS_SemDelete(s)
  BY <1>3, SemDeleteStep
<1>4. ASSUME NEW timeout, LOS_SemPend(s, timeout) PROVE TasksInv'
  <2>1. CASE SemTake(s)
    BY <1>4, <2>1, CallReturns DEF LOS_SemPend, SemTake
  <2>2. CASE SemWait(s, timeout)
    <3> DEFINE timed == timeout = "ticks"
    <3>1. ThenSchedule(osTaskWait(k, SemList(s), FlagOf(SemList(s)), timed), For(SemList(s), None))
      BY <1>1, <2>2 DEF SemWait
    <3> HIDE DEF timed
    <3>2. Calls("sem") /\ k.lock = 0
      BY <1>4, <2>2 DEF LOS_SemPend, SemWait
    <3> QED
      BY <1>1, <3>1, <3>2, CallWaits
  <2> QED
    BY <1>4, <2>1, <2>2 DEF LOS_SemPend
<1>5. CASE SemPendReturns(s)
  <2>1. Running /\ ThenReturn(Cleared(k))
    BY <1>5 DEF SemPendReturns, Checks, Running
  <2> QED
    BY <2>1, ReturnCleared
<1>6. CASE LOS_SemPost(s)
  <2>1. Calls("sem") /\ Running /\ at[k.run] = "app"
    BY <1>6 DEF LOS_SemPost, Calls, Running
  <2>2. CASE ThenReturn(k)
    BY <2>1, <2>2, CallReturns
  <2>3. CASE k.pend[SemList(s)] # <<>> /\ ThenSchedule(HandedOver(s), None)
    <3>1. ThenSchedule(osTaskWake(k, Head(k.pend[SemList(s)]), FlagOf(SemList(s))), None)
      BY <1>1, <2>3 DEF HandedOver
    <3>2. "TIMEOUT" \notin k.status[k.run]
      BY <2>1, RunningFacts DEF Waits
    <3> QED
      BY <1>1, <2>1, <2>3, <3>1, <3>2, CallHandsOver
  <2> QED
    BY <1>6, <2>2, <2>3 DEF LOS_SemPost
<1>7. CASE InterruptPosts(s)
  <2>1. ~k.fault
    BY <1>7 DEF InterruptPosts, InterruptCalls
  <2>2. CASE UNCHANGED <<k, at, wait>>
    BY <2>2, SameStep
  <2>3. CASE k.pend[SemList(s)] # <<>> /\ ThenResume(HandedOver(s))
    <3>1. ThenResume(osTaskWake(k, Head(k.pend[SemList(s)]), FlagOf(SemList(s))))
      BY <1>1, <2>3 DEF HandedOver
    <3> QED
      BY <1>1, <2>1, <2>3, <3>1, InterruptHandsOver
  <2> QED
    BY <1>7, <2>2, <2>3 DEF InterruptPosts
<1> QED
  BY <1>2, <1>3, <1>4, <1>5, <1>6, <1>7

\* A task that makes a call has no TIMEOUT left from its last wait.
LEMMA CallFacts ==
  ASSUME TasksInv, NEW f, Calls(f)
  PROVE  Running /\ "TIMEOUT" \notin k.status[k.run]
<1>1. Running /\ at[k.run] = "app"
  BY DEF Calls, Running
<1> QED
  BY <1>1, RunningFacts DEF Waits

\* No call on an event control block breaks it.
LEMMA EventSteps ==
  ASSUME TasksInv, EventNext
  PROVE  TasksInv'
<1> SUFFICES ASSUME NEW e \in Event, UNCHANGED app,
                    \/ \E r \in Read : \/ \E timeout \in app.timeouts : LOS_EventRead(e, r, timeout)
                                       \/ EventReadReturns(e, r)
                    \/ \E set \in Written : \/ LOS_EventWrite(e, set)
                                            \/ InterruptWrites(e, set)
                                            \/ LOS_EventClear(e, set)
             PROVE  TasksInv'
  BY DEF EventNext
<1>1. EventList(e) \in PendList /\ FlagOf(EventList(e)) = "PEND"
      /\ \A r \in Read : For(EventList(e), r) # None
  BY FlagsOfLists, EventAssumption
<1>2. ASSUME NEW r \in Read, NEW timeout, LOS_EventRead(e, r, timeout) PROVE TasksInv'
  <2>1. Calls("event")
    BY <1>2 DEF LOS_EventRead
  <2>2. CASE ThenReturn(k)
    BY <2>1, <2>2, CallReturns
  <2>3. CASE k.lock = 0 /\ ThenSchedule(osTaskWait(k, EventList(e), "PEND", timeout = "ticks"),
                                        For(EventList(e), r))
    <3> DEFINE timed == timeout = "ticks"
    <3>1. ThenSchedule(osTaskWait(k, EventList(e), FlagOf(EventList(e)), timed), For(EventList(e), r))
      BY <1>1, <2>3
    <3> HIDE DEF timed
    <3> QED
      BY <1>1, <2>1, <2>3, <3>1, CallWaits
  <2> QED
    BY <1>2, <2>2, <2>3 DEF LOS_EventRead
<1>3. ASSUME NEW r \in Read, EventReadReturns(e, r) PROVE TasksInv'
  <2>1. Running /\ ThenReturn(Cleared(k))
    BY <1>3 DEF EventReadReturns, Checks, Running
  <2> QED
    BY <2>1, ReturnCleared
<1>4. ASSUME NEW set, LOS_EventWrite(e, set) PROVE TasksInv'
  <2>1. Calls("event")
    BY <1>4 DEF LOS_EventWrite
  <2>2. CASE ThenReturn(k)
    BY <2>1, <2>2, CallReturns
  <2>3. CASE ThenSchedule(ReadersWoken(e, set), None)
    <3>1. ThenSchedule(WakeAll(k, k.pend[EventList(e)], Readers(e, set), FlagOf(EventList(e))), None)
      BY <1>1, <2>3 DEF ReadersWoken
    <3>2. Running /\ "TIMEOUT" \notin k.status[k.run]
      BY <2>1, CallFacts
    <3> QED
      BY <1>1, <3>1, <3>2, CallWakes
  <2> QED
    BY <1>4, <2>2, <2>3 DEF LOS_EventWrite
<1>5. ASSUME NEW set, InterruptWrites(e, set) PROVE TasksInv'
  <2>1. ~k.fault
    BY <1>5 DEF InterruptWrites, InterruptCalls
  <2>2. CASE UNCHANGED <<k, at, wait>>
    BY <2>2, SameStep
  <2>3. CASE ThenResume(ReadersWoken(e, set))
    <3>1. ThenResume(WakeAll(k, k.pend[EventList(e)], Readers(e, set), FlagOf(EventList(e))))
      BY <1>1, <2>3 DEF ReadersWoken
    <3> QED
      BY <1>1, <2>1, <3>1, InterruptWakes
  <2> QED
    BY <1>5, <2>2, <2>3 DEF InterruptWrites
<1>6. ASSUME NEW set, LOS_EventClear(e, set) PROVE TasksInv'
  BY <1>6, CallReturns DEF LOS_EventClear
<1> QED
  BY <1>2, <1>3, <1>4, <1>5, <1>6

\* No call on a read-write lock breaks it.
LEMMA RWLockSteps ==
  ASSUME TasksInv, RWLockNext
  PROVE  TasksInv'
<1> SUFFICES ASSUME NEW l \in RWLock, UNCHANGED app,
                    \/ LOS_RWLockCreate(l) \/ LOS_RWLockDelete(l)
                    \/ \E timeout \in app.timeouts : LOS_RWReadLock(l, timeout) \/ LOS_RWWriteLock(l, timeout)
                    \/ \E kind \in {"read", "write"} : RWLockReturns(kind, l)
                    \/ LOS_RWReadUnLock(l) \/ LOS_RWWriteUnLock(l)
             PROVE  TasksInv'
  BY DEF RWLockNext
<1>1. /\ ReadList(l) \in PendList /\ FlagOf(ReadList(l)) = "PEND"
      /\ WriteList(l) \in PendList /\ FlagOf(WriteList(l)) = "PEND"
  BY FlagsOfLists
<1>2. ASSUME NEW list \in PendList, FlagOf(list) = "PEND", NEW timeout, RWWait(list, timeout), Calls("rwlock")
      PROVE  TasksInv'
  <2> DEFINE timed == timeout = "ticks"
  <2>1. k.lock = 0 /\ ThenSchedule(osTaskWait(k, list, FlagOf(list), timed), For(list, None))
    BY <1>2 DEF RWWait
  <2>2. For(list, None) # None
    BY WaitAssumption
  <2> HIDE DEF timed
  <2> QED
    BY <1>2, <2>1, <2>2, CallWaits
<1>3. ASSUME NEW block, HandToWriter(l, block), Calls("rwlock"), k.pend[WriteList(l)] # <<>>
      PROVE  TasksInv'
  <2>1. ThenSchedule(osTaskWake(k, Head(k.pend[WriteList(l)]), FlagOf(WriteList(l))), None)
    BY <1>1, <1>3 DEF HandToWriter
  <2>2. Running /\ "TIMEOUT" \notin k.status[k.run]
    BY <1>3, CallFacts
  <2> QED
    BY <1>1, <1>3, <2>1, <2>2, CallHandsOver
<1>4. ASSUME Calls("rwlock"), ThenReturn(k) PROVE TasksInv'
  BY <1>4, CallReturns
<1>5. CASE LOS_RWLockCreate(l) \/ LOS_RWLockDelete(l)
  BY <1>5, CallReturns DEF LOS_RWLockCreate, LOS_RWLockDelete
<1>6. ASSUME NEW timeout, LOS_RWReadLock(l, timeout) PROVE TasksInv'
  <2>1. Calls("rwlock") /\ (ThenReturn(k) \/ RWWait(ReadList(l), timeout))
    BY <1>6 DEF LOS_RWReadLock
  <2> QED
    BY <1>1, <1>2, <1>4, <2>1
<1>7. ASSUME NEW timeout, LOS_RWWriteLock(l, timeout) PROVE TasksInv'
  <2>1. Calls("rwlock") /\ (ThenReturn(k) \/ RWWait(WriteList(l), timeout))
    BY <1>7 DEF LOS_RWWriteLock
  <2> QED
    BY <1>1, <1>2, <1>4, <2>1
<1>8. ASSUME NEW kind, RWLockReturns(kind, l) PROVE TasksInv'
  <2>1. Running /\ ThenReturn(Cleared(k))
    BY <1>8 DEF RWLockReturns, Checks, Running
  <2> QED
    BY <2>1, ReturnCleared
<1>9. CASE LOS_RWReadUnLock(l)
  <2> DEFINE left == [rw[l] EXCEPT !.readers = @ - 1]
  <2>1. Calls("rwlock") /\ (ThenReturn(k) \/ (k.pend[WriteList(l)] # <<>> /\ HandToWriter(l, left)))
    BY <1>9 DEF LOS_RWReadUnLock
  <2> HIDE DEF left
  <2> QED
    BY <1>3, <1>4, <2>1
<1>10. CASE LOS_RWWriteUnLock(l)
  <2>1. /\ Calls("rwlock")
        /\ \/ ThenReturn(k)
           \/ k.pend[WriteList(l)] # <<>> /\ HandToWriter(l, rw[l])
           \/ ThenSchedule(WakeAll(k, k.pend[ReadList(l)], Task, "PEND"), None)
    BY <1>10 DEF LOS_RWWriteUnLock
  <2>2. CASE ThenSchedule(WakeAll(k, k.pend[ReadList(l)], Task, "PEND"), None)
    <3>1. ThenSchedule(WakeAll(k, k.pend[ReadList(l)], Task, FlagOf(ReadList(l))), None)
      BY <1>1, <2>2
    <3>2. Running /\ "TIMEOUT" \notin k.status[k.run]
      BY <2>1, CallFacts
    <3> QED
      BY <1>1, <3>1, <3>2, CallWakes
  <2> QED
    BY <1>3, <1>4, <2>1, <2>2
<1> QED
  BY <1>5, <1>6, <1>7, <1>8, <1>9, <1>10
\* Whoever waits for a mail block has not locked scheduling: the one wait
\* that does not look at the lock itself.
MailsUnlocked == ~({"mail", "lock"} \subseteq app.calls)

\* No call on a queue or its mail blocks breaks it.
LEMMA QueueSteps ==
  ASSUME TasksInv, MailsUnlocked, QueueNext
  PROVE  TasksInv'
<1> SUFFICES ASSUME NEW q \in Queue, UNCHANGED app,
                    \/ \E op \in Op : \/ \E timeout \in app.timeouts : osQueueOperate(q, op, timeout)
                                      \/ QueueOperateReturns(q, op)
                                      \/ InterruptOperates(q, op)
                    \/ LOS_QueueCreate(q) \/ LOS_QueueDelete(q)
                    \/ \E timeout \in app.timeouts : osQueueMailAlloc(q, timeout)
                    \/ MailAllocReturns(q)
                    \/ osQueueMailFree(q)
             PROVE  TasksInv'
  BY DEF QueueNext, OpOf
<1>1. \A side \in Side \cup {"mail"} :
        QueueList(q, side) \in PendList /\ FlagOf(QueueList(q, side)) = "PEND_QUEUE"
  BY FlagsOfLists
<1>2. \A op \in Op : SideOf(op) \in Side /\ Other(SideOf(op)) \in Side /\ Pending(q, op) # None
  BY QueueAssumption DEF SideOf, Other, Side
<1>3. MailList(q) \in PendList /\ FlagOf(MailList(q)) = "PEND_QUEUE" /\ For(MailList(q), None) # None
  BY <1>1, WaitAssumption DEF MailList
<1>4. ASSUME NEW op \in Op, NEW c, Running, "TIMEOUT" \notin k.status[k.run], Finish(q, op, c, k)
      PROVE  TasksInv'
  <2> DEFINE l == QueueList(q, Other(SideOf(op)))
  <2>1. l \in PendList /\ FlagOf(l) = "PEND_QUEUE"
    BY <1>1, <1>2
  <2>2. \/ ThenReturn(k)
        \/ k.pend[l] # <<>> /\ ThenSchedule(osTaskWake(k, Head(k.pend[l]), FlagOf(l)), None)
    BY <1>4, <2>1 DEF Finish, WaitersFor, PassedOn
  <2> HIDE DEF l
  <2> QED
    BY <1>4, <2>1, <2>2, ReturnSame, CallHandsOver
<1>5. ASSUME NEW op \in Op, NEW timeout, osQueueOperate(q, op, timeout) PROVE TasksInv'
  <2>1. Calls("queue")
    BY <1>5 DEF osQueueOperate
  <2>2. CASE Finish(q, op, CellTaken(q, op), k)
    BY <1>4, <2>1, <2>2, CallFacts
  <2>3. CASE k.lock = 0 /\ ThenSchedule(osTaskWait(k, QueueList(q, SideOf(op)), "PEND_QUEUE",
                                                   timeout = "ticks"), Pending(q, op))
    <3> DEFINE timed == timeout = "ticks"
               l == QueueList(q, SideOf(op))
    <3>1. l \in PendList /\ FlagOf(l) = "PEND_QUEUE" /\ Pending(q, op) # None
      BY <1>1, <1>2
    <3>2. ThenSchedule(osTaskWait(k, l, FlagOf(l), timed), Pending(q, op))
      BY <2>3, <3>1
    <3> HIDE DEF timed, l
    <3> QED
      BY <2>1, <2>3, <3>1, <3>2, CallWaits
  <2> QED
    BY <1>5, <2>2, <2>3 DEF osQueueOperate
<1>6. ASSUME NEW op \in Op, QueueOperateReturns(q, op) PROVE TasksInv'
  <2>1. Running
    BY <1>6 DEF QueueOperateReturns, Checks, Running
  <2>2. CASE TimedOut(k.run)
    BY <1>6, <2>1, <2>2, ReturnCleared DEF QueueOperateReturns
  <2>3. CASE ~TimedOut(k.run)
    BY <1>4, <1>6, <2>1, <2>3 DEF QueueOperateReturns, TimedOut
  <2> QED
    BY <2>2, <2>3
<1>7. ASSUME NEW op \in Op, InterruptOperates(q, op) PROVE TasksInv'
  <2> DEFINE l == QueueList(q, Other(SideOf(op)))
  <2>1. l \in PendList /\ FlagOf(l) = "PEND_QUEUE"
    BY <1>1, <1>2
  <2>2. \/ UNCHANGED <<k, at, wait>>
        \/ k.pend[l] # <<>> /\ ThenResume(osTaskWake(k, Head(k.pend[l]), FlagOf(l)))
    BY <1>7, <2>1 DEF InterruptOperates, WaitersFor, PassedOn
  <2>3. ~k.fault
    BY <1>7 DEF InterruptOperates, InterruptCalls
  <2> HIDE DEF l
  <2> QED
    BY <2>1, <2>2, <2>3, SameStep, InterruptHandsOver
<1>8. CASE LOS_QueueCreate(q) \/ LOS_QueueDelete(q)
  BY <1>8, CallReturns DEF LOS_QueueCreate, LOS_QueueDelete
<1>9. ASSUME NEW timeout, osQueueMailAlloc(q, timeout) PROVE TasksInv'
  <2>1. Calls("mail")
    BY <1>9 DEF osQueueMailAlloc
  <2>2. CASE ThenReturn(k)
    BY <2>1, <2>2, CallReturns
  <2>3. CASE ThenSchedule(osTaskWait(k, MailList(q), "PEND_QUEUE", timeout = "ticks"),
                          For(MailList(q), None))
    <3> DEFINE timed == timeout = "ticks"
    <3>1. ThenSchedule(osTaskWait(k, MailList(q), FlagOf(MailList(q)), timed), For(MailList(q), None))
      BY <1>3, <2>3
    <3> HIDE DEF timed
    <3>2. k.lock = 0
      BY <2>1, CallFacts, RunningFacts DEF MailsUnlocked, Calls
    <3> QED
      BY <1>3, <2>1, <3>1, <3>2, CallWaits
  <2> QED
    BY <1>9, <2>2, <2>3 DEF osQueueMailAlloc
<1>10. CASE MailAllocReturns(q)
  <2>1. Running /\ ThenReturn(Cleared(k))
    BY <1>10 DEF MailAllocReturns, Checks, Running
  <2> QED
    BY <2>1, ReturnCleared
<1>11. CASE osQueueMailFree(q)
  <2>1. Calls("mail")
    BY <1>11 DEF osQueueMailFree
  <2>2. \/ ThenReturn(k)
        \/ /\ k.pend[MailList(q)] # <<>>
           /\ ThenSchedule(osTaskWake(k, Head(k.pend[MailList(q)]), FlagOf(MailList(q))), None)
    BY <1>3, <1>11 DEF osQueueMailFree
  <2> QED
    BY <1>3, <2>1, <2>2, CallFacts, CallReturns, CallHandsOver
<1> QED
  BY <1>5, <1>6, <1>7, <1>8, <1>9, <1>10, <1>11

\* What the proofs carry through every step.
Inv == TasksInv /\ MutexesOK

\* The invariant is inductive.
LEMMA NextStep ==
  ASSUME Inv, MailsUnlocked, [Next]_vars
  PROVE  Inv' /\ MailsUnlocked'
<1>1. ASSUME mux' = mux PROVE MutexesOK'
  BY <1>1 DEF MutexesOK, Inv
<1>2. ASSUME app' = app PROVE MailsUnlocked'
  BY <1>2 DEF MailsUnlocked
<1>3. CASE TasksNext /\ UNCHANGED <<mutexVars, semVars, bits, queueVars, rwVars>>
  <2>1. app' = app /\ mux' = mux
    BY <1>3 DEF TasksNext, TaskCall, Reschedule, TickEndsWait, osTimesliceCheck, LOS_TaskYield, LOS_TaskDelay,
                LOS_TaskLock, LOS_TaskUnlock, LOS_TaskSuspend, LOS_TaskResume, LOS_TaskDelete,
                LOS_TaskCreate, LOS_TaskPriSet, mutexVars
  <2> QED
    BY <1>1, <1>2, <1>3, <2>1, TasksSteps DEF Inv
<1>4. CASE MutexNext
  <2>1. app' = app
    BY <1>4 DEF MutexNext
  <2> QED
    BY <1>2, <1>4, <2>1, MutexSteps, MutexesKept DEF Inv
<1>5. CASE SemNext /\ UNCHANGED mutexVars
  <2>1. app' = app /\ mux' = mux
    BY <1>5 DEF SemNext, mutexVars
  <2> QED
    BY <1>1, <1>2, <1>5, <2>1, SemSteps DEF Inv
<1>6. CASE EventNext /\ UNCHANGED mutexVars
  <2>1. app' = app /\ mux' = mux
    BY <1>6 DEF EventNext, mutexVars
  <2> QED
    BY <1>1, <1>2, <1>6, <2>1, EventSteps DEF Inv
<1>7. CASE QueueNext /\ UNCHANGED mutexVars
  <2>1. app' = app /\ mux' = mux
    BY <1>7 DEF QueueNext, mutexVars
  <2> QED
    BY <1>1, <1>2, <1>7, <2>1, QueueSteps DEF Inv
<1>8. CASE RWLockNext /\ UNCHANGED mutexVars
  <2>1. app' = app /\ mux' = mux
    BY <1>8 DEF RWLockNext, mutexVars
  <2> QED
    BY <1>1, <1>2, <1>8, <2>1, RWLockSteps DEF Inv
<1>9. CASE UNCHANGED vars
  <2>1. UNCHANGED <<k, at, wait, app>> /\ mux' = mux
    BY <1>9 DEF vars, taskVars, mutexVars
  <2> QED
    BY <1>1, <1>2, <2>1, SameStep DEF Inv
<1> QED
  BY <1>3, <1>4, <1>5, <1>6, <1>7, <1>8, <1>9 DEF Next
-----------------------------------------------------------------------------
(* The start                                                               *)

\* A finite set as a sequence: each of its elements once.
LEMMA ListOfSet ==
  ASSUME NEW S, IsFiniteSet(S), NEW list, list = SetToSeq(S)
  PROVE  list \in Seq(S) /\ Distinct(list) /\ \A x : OnList(list, x) <=> x \in S
<1> DEFINE n == Cardinality(S)
<1>1. n \in Nat /\ ExistsBijection(1..n, S)
  BY FS_CardinalityType
<1>2. PICK f \in [1..n -> S] : IsInjective(f)
  BY <1>1 DEF ExistsBijection, Bijection, Injection
<1>3. list = CHOOSE g \in [1..n -> S] : IsInjective(g)
  BY DEF SetToSeq
<1>4. list \in [1..n -> S] /\ IsInjective(list)
  BY <1>2, <1>3
<1>5. IsFiniteSet(1..n) /\ Cardinality(1..n) = n
  BY <1>1, FS_Interval
<1>6. list \in Injection(1..n, S)
  BY <1>4 DEF Injection
<1> HIDE DEF n
<1>7. Cardinality(S) = Cardinality(1..n)
  BY <1>5 DEF n
<1>8. list \in Surjection(1..n, S)
  BY <1>6, <1>7, FS_Injection
<1>9. \A x \in S : \E i \in 1..n : list[i] = x
  BY <1>8 DEF Surjection
<1>10. list \in Seq(S)
  BY <1>1, <1>4
<1> QED
  BY <1>4, <1>9, <1>10 DEF Distinct, IsInjective, OnList

On(p) == {t \in Task : app.prio[t] = p}

\* The kernel's state before its first LOS_Schedule.
Start == [status |-> [t \in AnyTask |-> {"READY"}],
          prio   |-> [t \in AnyTask |-> IF t = Idle THEN Lowest ELSE app.prio[t]],
          ready  |-> [p \in 0..Lowest |-> IF p = Lowest THEN <<Idle>> ELSE SetToSeq(On(p))],
          pend   |-> [l \in PendList |-> <<>>],
          timers |-> {},
          run    |-> Idle,
          lock   |-> 0,
          late   |-> FALSE,
          fault  |-> FALSE]

\* The ready lists at the start hold each task once, at its priority.
LEMMA StartLists ==
  ASSUME app \in Application, NEW p \in 0..Lowest
  PROVE  /\ Start.ready[p] \in Seq(AnyTask) /\ Distinct(Start.ready[p])
         /\ \A t \in AnyTask : OnList(Start.ready[p], t) <=> p = Start.prio[t]
<1>1. app.prio \in [Task -> 0..Lowest - 1] /\ Idle \notin Task /\ Lowest \in Nat
  BY TasksAssumption
<1>2. CASE p = Lowest
  <2>1. Start.ready[p] = <<Idle>>
    BY <1>2 DEF Start
  <2>2. \A t \in AnyTask : p = Start.prio[t] <=> t = Idle
    BY <1>1, <1>2 DEF Start, AnyTask
  <2> QED
    BY <2>1, <2>2 DEF AnyTask, Distinct, OnList
<1>3. CASE p # Lowest
  <2> DEFINE list == Start.ready[p]
  <2>1. list = SetToSeq(On(p))
    BY <1>3 DEF Start
  <2>2. IsFiniteSet(On(p)) /\ On(p) \subseteq AnyTask
    BY TasksAssumption, FS_Subset DEF On, AnyTask
  <2>3. \A t \in AnyTask : p = Start.prio[t] <=> t \in On(p)
    BY <1>1, <1>3 DEF Start, On, AnyTask
  <2> HIDE DEF list
  <2>4. list \in Seq(On(p)) /\ Distinct(list) /\ \A x : OnList(list, x) <=> x \in On(p)
    BY <2>1, <2>2, ListOfSet
  <2>5. list \in Seq(AnyTask)
    BY <2>2, <2>4
  <2> QED
    BY <2>3, <2>4, <2>5 DEF list
<1> QED
  BY <1>2, <1>3

\* Flags and lists agree at the start.
LEMMA StartLinks ==
  ASSUME app \in Application
  PROVE  Links(Start)
<1>1. app.prio \in [Task -> 0..Lowest - 1] /\ Idle \notin Task /\ Lowest \in Nat /\ MaxLock \in Nat
  BY TasksAssumption
<1>2. /\ Start.status = [t \in AnyTask |-> {"READY"}] /\ Start.timers = {}
      /\ Start.pend = [l \in PendList |-> <<>>]
      /\ Start.ready = [p \in 0..Lowest |-> Start.ready[p]]
  BY DEF Start
<1>3. Start.prio \in [AnyTask -> 0..Lowest]
  BY <1>1 DEF Start, AnyTask
<1>4. Start.ready \in [0..Lowest -> Seq(AnyTask)]
  BY <1>2, StartLists
<1>5. Start.status \in [AnyTask -> SUBSET Flag] /\ Start.pend \in [PendList -> Seq(Task)]
  BY <1>2 DEF Flag
<1>6. Start \in KState
  BY <1>1, <1>3, <1>4, <1>5 DEF Start, KState, AnyTask
<1>7. StatusesOK(Start.status)
  BY <1>2 DEF StatusesOK, StatusOK, AnyTask
<1>8. ReadyOK(Start.status, Start.prio, Start.ready)
  BY <1>2, StartLists DEF ReadyOK
<1>9. PendOK(Start.status, Start.pend)
  BY <1>2 DEF PendOK, Distinct, OnList, InList, AnyTask
<1>10. TimersOK(Start.status, Start.timers)
  BY <1>2 DEF TimersOK, InList, AnyTask
<1> QED
  BY <1>6, <1>7, <1>8, <1>9, <1>10 DEF Links

\* The invariant holds initially.
LEMMA InitHolds ==
  ASSUME Init
  PROVE  Inv
<1>1. /\ app \in Application /\ k = LOS_Schedule(Start)
      /\ at = [t \in Task |-> "app"] /\ wait = [t \in Task |-> None]
      /\ mux = [m \in Mutex |-> Free]
  BY DEF Init, TasksInit, MutexInit, Start, On
<1>2. Links(Start) /\ Start.lock = 0 /\ Start.status = [t \in AnyTask |-> {"READY"}]
  BY <1>1, StartLinks DEF Start
<1>3. Scheduled(k, Start)
  BY <1>1, <1>2, ScheduleLinks
<1>4. /\ Links(k) /\ k.status = Start.status /\ k.lock = 0 /\ k.run = osPriqueueTop(k)
      /\ "READY" \in k.status[k.run]
  BY <1>2, <1>3 DEF Scheduled
<1>5. Control
  <2>1. \A t \in Task : ~Waits(k.status[t])
    BY <1>2, <1>4 DEF Waits, InList, AnyTask
  <2> QED
    BY <1>4, <2>1 DEF Control
<1>6. TasksInv
  BY <1>1, <1>4, <1>5 DEF TasksInv, MostUrgentRuns
<1>7. MutexesOK
  BY <1>1, TasksAssumption DEF MutexesOK, Free
<1> QED
  BY <1>6, <1>7 DEF Inv

-----------------------------------------------------------------------------
(* The theorems                                                            *)

\* A task on a list without repetitions is on it once.
LEMMA OnceIfDistinct ==
  ASSUME NEW list, Distinct(list), NEW t, OnList(list, t)
  PROVE  OnListOnce(list, t)
<1>1. PICK i \in DOMAIN list : list[i] = t
  BY DEF OnList
<1>2. {j \in DOMAIN list : list[j] = t} = {i}
  BY <1>1 DEF Distinct
<1> QED
  BY <1>2, FS_Singleton DEF OnListOnce

\* A set without two different elements has at most one.
LEMMA FewerThanTwo ==
  ASSUME NEW S, \A x, y \in S : x = y
  PROVE  Cardinality(S) <= 1
<1>1. CASE S = {}
  BY <1>1, FS_EmptySet
<1>2. CASE S # {}
  <2>1. PICK x \in S : S = {x}
    BY <1>2
  <2> QED
    BY <2>1, FS_Singleton
<1> QED
  BY <1>1, <1>2

\* The invariant implies what the run checks, with its counts.
LEMMA FlagsHold ==
  ASSUME TasksInv
  PROVE  FlagsTellTheLists
<1>1. Links(k) /\ TasksTypeOK
  BY DEF TasksInv, Links, KState, TasksTypeOK
<1>2. ASSUME NEW t \in AnyTask, NEW p \in 0..Lowest
      PROVE  IF "READY" \in k.status[t] /\ p = k.prio[t]
             THEN OnListOnce(k.ready[p], t) ELSE ~OnList(k.ready[p], t)
  BY <1>1, OnceIfDistinct DEF Links, ReadyOK
<1>3. ASSUME NEW t \in AnyTask
      PROVE  Cardinality({l \in PendList : OnList(k.pend[l], t)}) =
               IF {"PEND", "PEND_QUEUE"} \cap k.status[t] # {} THEN 1 ELSE 0
  <2> DEFINE S == {l \in PendList : OnList(k.pend[l], t)}
  <2>1. CASE {"PEND", "PEND_QUEUE"} \cap k.status[t] # {}
    <3>1. InList(k.status[t])
      BY <2>1 DEF InList
    <3>2. t \in Task
      BY <1>1, <3>1 DEF Links, StatusesOK, AnyTask, InList
    <3>3. PICK l \in PendList : OnList(k.pend[l], t)
      BY <1>1, <3>1, <3>2 DEF Links, PendOK
    <3>4. S = {l}
      BY <1>1, <3>2, <3>3 DEF Links, PendOK
    <3> QED
      BY <2>1, <3>4, FS_Singleton
  <2>2. CASE {"PEND", "PEND_QUEUE"} \cap k.status[t] = {}
    <3>1. ASSUME NEW l \in PendList, OnList(k.pend[l], t) PROVE FALSE
      <4>1. t \in Task
        BY <1>1, <3>1 DEF Links, KState, OnList
      <4>2. FlagOf(l) \in k.status[t]
        BY <1>1, <3>1, <4>1 DEF Links, PendOK
      <4> QED
        BY <2>2, <4>2 DEF FlagOf
    <3>2. S = {}
      BY <3>1
    <3> QED
      BY <2>2, <3>2, FS_EmptySet
  <2> QED
    BY <2>1, <2>2
<1>4. ASSUME NEW t \in AnyTask
      PROVE  t \in k.timers <=> \/ "DELAY" \in k.status[t]
                                \/ {"PEND", "PEND_QUEUE"} \cap k.status[t] # {} /\ "TIMEOUT" \in k.status[t]
  <2>1. CASE t \in Task
    BY <1>1, <2>1 DEF Links, TimersOK, InList
  <2>2. CASE t = Idle
    BY <1>1, <2>2, TasksAssumption DEF Links, KState, StatusesOK
  <2> QED
    BY <2>1, <2>2 DEF AnyTask
<1>5. ASSUME NEW t \in AnyTask
      PROVE  /\ Cardinality(k.status[t] \cap (Blocking \cup {"READY", "UNUSED"})) <= 1
             /\ ~({"READY", "SUSPEND"} \subseteq k.status[t])
  <2>1. StatusOK(k.status[t])
    BY <1>1 DEF Links, StatusesOK
  <2> DEFINE S == k.status[t] \cap (Blocking \cup {"READY", "UNUSED"})
  <2>2. \A x, y \in S : x = y
    BY <2>1 DEF StatusOK
  <2> HIDE DEF S
  <2>3. Cardinality(S) <= 1
    BY <2>2, FewerThanTwo
  <2> QED
    BY <2>1, <2>3 DEF StatusOK, S
<1> QED
  BY <1>1, <1>2, <1>3, <1>4, <1>5 DEF FlagsTellTheLists

\* The inductive invariant holds in every application in which no task waits for
\* mail with scheduling locked.
THEOREM InvHolds == Spec /\ MailsUnlocked => []Inv
<1>1. Init => Inv
  BY InitHolds
<1>2. Inv /\ MailsUnlocked /\ [Next]_vars => Inv' /\ MailsUnlocked'
  BY NextStep
<1> QED
  BY <1>1, <1>2, PTL DEF Spec

\* In such an application the flags of a task say which ready list, pend list and
\* sort link it is in (los_priqueue.c, osTaskWait and osTaskWake in los_task.c),
\* for every number of tasks, priorities and objects, whatever calls, ticks and
\* interrupts come in which order.
THEOREM FlagsAndLists == Spec /\ MailsUnlocked => []FlagsTellTheLists
<1>1. Inv => FlagsTellTheLists
  BY FlagsHold DEF Inv
<1> QED
  BY <1>1, InvHolds, PTL

\* And the most urgent ready task runs, except between a change and the
\* LOS_Schedule behind it (LOS_Schedule in los_task.c).
THEOREM Scheduling == Spec /\ MailsUnlocked => []MostUrgentRuns
<1>1. Inv => MostUrgentRuns
  BY DEF Inv, TasksInv
<1> QED
  BY <1>1, InvHolds, PTL
=============================================================================
