------------------------------ MODULE Deadlines ------------------------------
(***************************************************************************)
(* What the kernel's two kinds of timers promise: an item armed for n      *)
(* ticks is due at the n-th tick from now, whatever else is armed and      *)
(* disarmed meanwhile, and is then armed again if it repeats.  A loose     *)
(* item may come early the first time.  Neither the wheel of the tasks nor *)
(* the differences of the software timers are visible here.                *)
(***************************************************************************)
EXTENDS Naturals

CONSTANTS Item, Plan

VARIABLES
  plan,   \* plan[i]: [ticks, repeats, loose]
  left    \* left[i]: ticks until i is due, 0 when it is not armed

Init == plan \in [Item -> Plan] /\ left = [i \in Item |-> 0]

Prepare(i) == /\ left[i] = 0
              /\ \E p \in Plan : plan' = [plan EXCEPT ![i] = p]
              /\ UNCHANGED left

Arm(i) == \E p \in Plan :
  /\ plan' = [plan EXCEPT ![i] = p]
  /\ \E n \in IF p.loose THEN 1..p.ticks ELSE {p.ticks} : left' = [left EXCEPT ![i] = n]

Disarm(i) == left' = [left EXCEPT ![i] = 0] /\ UNCHANGED plan

AfterTick(i) == CASE left[i] > 1 -> left[i] - 1
                  [] left[i] = 1 -> IF plan[i].repeats THEN plan[i].ticks ELSE 0
                  [] OTHER -> 0

Tick == left' = [i \in Item |-> AfterTick(i)] /\ UNCHANGED plan

Next == Tick \/ \E i \in Item : Prepare(i) \/ Arm(i) \/ Disarm(i)

Spec == Init /\ [][Next]_<<plan, left>>
=============================================================================
