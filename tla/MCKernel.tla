------------------------------- MODULE MCKernel -------------------------------
(***************************************************************************)
(* Instances of Kernel for TLC.  Each application uses a few families of   *)
(* calls, so that their interplay is explored and the rest stays small.    *)
(***************************************************************************)
EXTENDS Kernel

CONSTANTS low, mid, high, m1, m2, s1, e1, q1, l1

MCTask == {low, mid, high}
Distinct == low :> 2 @@ mid :> 1 @@ high :> 0
Level == low :> 1 @@ mid :> 1 @@ high :> 0

MCPendList ==
  {MuxList(m) : m \in Mutex} \cup {SemList(s) : s \in Sem} \cup {EventList(e) : e \in Event}
  \cup {QueueList(q, side) : q \in Queue, side \in Side \cup {"mail"}}
  \cup {ReadList(l) : l \in RWLock} \cup {WriteList(l) : l \in RWLock}

MCNest == [m \in Mutex |-> IF m = m1 THEN 2 ELSE 1]
MessagesAlike == Permutations(Msg)

\* Reads of all bits and of any, with and without clearing.
MCRead == {[mask |-> {1, 2}, all |-> TRUE, clear |-> TRUE],
           [mask |-> {1, 2}, all |-> FALSE, clear |-> TRUE],
           [mask |-> {1}, all |-> FALSE, clear |-> FALSE]}

Calling(calls, prio, timeouts, handles) ==
  [calls |-> calls, prio |-> prio, timeouts |-> timeouts, handles |-> handles]

MCApplication ==
  { Calling({"mutex", "delay"}, Distinct, {"forever"}, {m1, m2}),
    Calling({"yield", "delay", "suspend", "priset", "lock"}, Level, {}, {}),
    Calling({"delay", "suspend", "delete"}, Level, {}, {}),
    Calling({"mutex", "delay", "life"}, Distinct, {"none"}, {m1}),
    Calling({"mutex", "suspend"}, Distinct, {"ticks"}, {m1}),
    Calling({"mutex", "priset"}, Distinct, {"forever"}, {m1}),
    Calling({"sem", "interrupt", "suspend", "lock"}, Level, Timeout, {s1}),
    Calling({"sem", "life"}, Distinct, Timeout, {s1}),
    Calling({"event", "interrupt"}, Distinct, Timeout, {e1}),
    Calling({"queue", "interrupt"}, Distinct, {"ticks"}, {q1}),
    Calling({"queue", "urgent", "life"}, Level, {"forever"}, {q1}),
    Calling({"mail", "suspend"}, Level, {"ticks"}, {q1}),
    Calling({"rwlock", "life"}, Level, {"none", "forever"}, {l1}),
    Calling({"rwlock", "giveup"}, Level, Timeout, {l1}) }
=============================================================================
