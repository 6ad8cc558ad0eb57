---------------------------- MODULE RouteMemory -----------------------------
(***************************************************************************)
(* What the route table of the sink promises: it remembers for up to       *)
(* Capacity addresses the socket each was last heard on.  It learns one    *)
(* address at a time, never forgets one, and once it is full it ignores    *)
(* new addresses but still follows the known ones.                         *)
(***************************************************************************)
EXTENDS Naturals, FiniteSets

CONSTANTS Ips, Sockets, Capacity

VARIABLE known

Init == known = [ip \in {} |-> 0]

Follow(ip, s) ==
  /\ ip \in DOMAIN known
  /\ known' = [known EXCEPT ![ip] = s]

Remember(ip, s) ==
  /\ ip \notin DOMAIN known
  /\ Cardinality(DOMAIN known) < Capacity
  /\ known' = [a \in DOMAIN known \cup {ip} |-> IF a = ip THEN s ELSE known[a]]

Next == \E ip \in Ips, s \in Sockets : Follow(ip, s) \/ Remember(ip, s)

Spec == Init /\ [][Next]_known
=============================================================================
