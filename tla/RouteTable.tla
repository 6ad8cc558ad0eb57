----------------------------- MODULE RouteTable -----------------------------
(***************************************************************************)
(* The route table of the sink (src/sink/route.c): an array of             *)
(* ROUTE_TABLE_ENTRY_MAXNUM pointers to entries and a counter.  A NULL     *)
(* pointer is NoRoute.  The look-ups visit the first current_entry_num     *)
(* pointers and dereference each of them.  Indices start at 1.             *)
(***************************************************************************)
EXTENDS Naturals, FiniteSetsExt

CONSTANTS ROUTE_TABLE_ENTRY_MAXNUM, Ips, NoRoute

ASSUME RouteTableAssumption ==
  /\ ROUTE_TABLE_ENTRY_MAXNUM \in Nat \ {0}
  /\ NoRoute \notin [socket : Nat, ip_string : Ips]

RouteSlots == 1 .. ROUTE_TABLE_ENTRY_MAXNUM

RouteEntry == [socket : Nat, ip_string : Ips]

RouteTables == [current_entry_num : Nat,
                table : [RouteSlots -> RouteEntry \cup {NoRoute}]]

\* The table as insert_route_entry expects to find it.  sink.c:64 allocates it
\* and sets nothing, so that it is empty when the memory was zero.
EmptyRouteTable == [current_entry_num |-> 0,
                    table |-> [k \in RouteSlots |-> NoRoute]]

\* The indices a look-up visits.
RouteUsed(rt) == {k \in RouteSlots : k <= rt.current_entry_num}

\* The indices a look-up for ip stops at.
RoutesOf(rt, ip) == {k \in RouteUsed(rt) : rt.table[k].ip_string = ip}

RouteFree(rt) == {k \in RouteSlots : rt.table[k] = NoRoute}

RouteFull(rt) == rt.current_entry_num = ROUTE_TABLE_ENTRY_MAXNUM - 1

\* Mutant: the two fields of the entry are swapped.
insert_route_entry_swapped(rt, socket, ip) ==
  IF RouteFull(rt) \/ RouteFree(rt) = {}
  THEN rt
  ELSE [current_entry_num |-> rt.current_entry_num + 1,
        table |-> [rt.table EXCEPT ![Min(RouteFree(rt))] =
                     [socket |-> ip, ip_string |-> socket]]]

\* Inserting fails, and leaves the table alone, one entry before it is full.
insert_route_entry(rt, socket, ip) ==
  IF RouteFull(rt)
  THEN rt
  ELSE [current_entry_num |-> rt.current_entry_num + 1,
        table |-> IF RouteFree(rt) = {}
                  THEN rt.table
                  ELSE [rt.table EXCEPT ![Min(RouteFree(rt))] =
                          [socket |-> socket, ip_string |-> ip]]]

\* 0 when the address is unknown.
search_route_entry(rt, ip) ==
  IF RoutesOf(rt, ip) = {} THEN 0 ELSE rt.table[Min(RoutesOf(rt, ip))].socket

update_route_entry(rt, ip, socket) ==
  IF RoutesOf(rt, ip) = {}
  THEN rt
  ELSE [rt EXCEPT !.table[Min(RoutesOf(rt, ip))].socket = socket]

\* Mutant: a known address keeps its first socket.
LearnRoute_first(rt, ip, socket) ==
  IF search_route_entry(rt, ip) = 0 THEN insert_route_entry(rt, socket, ip) ELSE rt

\* Mutant: a full table gives its first entry to the new address.
LearnRoute_evicting(rt, ip, socket) ==
  IF search_route_entry(rt, ip) # 0 THEN update_route_entry(rt, ip, socket)
  ELSE IF RouteFull(rt)
       THEN [rt EXCEPT !.table[1] = [socket |-> socket, ip_string |-> ip]]
       ELSE insert_route_entry(rt, socket, ip)

\* Step II of pdu_process: the socket a PDU of ip arrived on becomes its route.
LearnRoute(rt, ip, socket) ==
  IF search_route_entry(rt, ip) = 0
  THEN insert_route_entry(rt, socket, ip)
  ELSE update_route_entry(rt, ip, socket)

(***************************************************************************)
(* What the look-ups rely on: the pointers they dereference are the        *)
(* non-NULL ones, an address has one entry, and every entry has a socket.  *)
(***************************************************************************)
RoutePrefix(rt)   == \A k \in RouteSlots :
                       rt.table[k] # NoRoute <=> k <= rt.current_entry_num
RouteUnique(rt)   == \A k, m \in RouteUsed(rt) :
                       rt.table[k].ip_string = rt.table[m].ip_string => k = m
RouteBounded(rt)  == rt.current_entry_num <= ROUTE_TABLE_ENTRY_MAXNUM - 1
RouteSockets(rt)  == \A k \in RouteUsed(rt) : rt.table[k].socket # 0

RouteTableOK(rt) == /\ RoutePrefix(rt)
                    /\ RouteUnique(rt)
                    /\ RouteBounded(rt)
                    /\ RouteSockets(rt)

\* The table as the partial function it stands for.
RoutesKnown(rt) ==
  [ip \in {rt.table[k].ip_string : k \in RouteUsed(rt)} |-> search_route_entry(rt, ip)]
=============================================================================
