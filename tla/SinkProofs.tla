----------------------------- MODULE SinkProofs -----------------------------
(***************************************************************************)
(* Proofs about the sink and its network, for every number of slots,       *)
(* entries, addresses, descriptors and connections: first the two tables   *)
(* with the inductive invariant IInv, then the list of sockets, the        *)
(* routes, the registered terminals, and what is sent to whom, where each  *)
(* part adds to IInv what it needs about the connections.                  *)
(***************************************************************************)
EXTENDS Sink, MinLemmas, SequenceTheorems, FiniteSetTheorems

-----------------------------------------------------------------------------
(***************************************************************************)
(* The route table.                                                        *)
(***************************************************************************)

\* A table that is not full has a free slot, and the first one is right
\* behind the entries.
LEMMA RouteFreeSlot ==
  ASSUME NEW rt \in RouteTables, RouteTableOK(rt), ~ RouteFull(rt)
  PROVE  /\ rt.current_entry_num + 1 \in RouteSlots
         /\ RouteFree(rt) # {}
         /\ Min(RouteFree(rt)) = rt.current_entry_num + 1
<1> DEFINE n == rt.current_entry_num
<1>1. n \in Nat /\ n + 1 <= ROUTE_TABLE_ENTRY_MAXNUM - 1
  BY RouteTableAssumption DEF RouteTables, RouteTableOK, RouteBounded, RouteFull
<1>2. n + 1 \in RouteSlots
  BY <1>1, RouteTableAssumption DEF RouteSlots
<1>3. \A k \in RouteSlots : k \in RouteFree(rt) <=> k > n
  BY <1>1 DEF RouteFree, RouteTableOK, RoutePrefix, RouteSlots
<1>4. n + 1 \in RouteFree(rt)
  BY <1>1, <1>2, <1>3
<1>5. RouteFree(rt) \in SUBSET Nat
  BY DEF RouteFree, RouteSlots
<1>6. /\ Min(RouteFree(rt)) \in RouteFree(rt)
      /\ Min(RouteFree(rt)) <= n + 1
  BY <1>4, <1>5, MinIsLeast
<1>7. Min(RouteFree(rt)) > n
  BY <1>3, <1>6 DEF RouteFree
<1>8. Min(RouteFree(rt)) \in Nat
  BY <1>5, <1>6
<1> QED
  BY <1>1, <1>2, <1>4, <1>6, <1>7, <1>8

\* What search_route_entry returns for a table in order.
LEMMA SearchFinds ==
  ASSUME NEW rt \in RouteTables, RouteTableOK(rt), NEW ip \in Ips,
         NEW k \in RouteUsed(rt), rt.table[k].ip_string = ip
  PROVE  /\ RoutesOf(rt, ip) = {k}
         /\ Min(RoutesOf(rt, ip)) = k
         /\ search_route_entry(rt, ip) = rt.table[k].socket
         /\ search_route_entry(rt, ip) # 0
<1>1. RoutesOf(rt, ip) = {k}
  BY DEF RoutesOf, RouteTableOK, RouteUnique
<1>2. {k} \in SUBSET Nat /\ {k} # {}
  BY DEF RouteUsed, RouteSlots
<1>3. Min(RoutesOf(rt, ip)) = k
  BY <1>1, <1>2, MinIsLeast
<1> QED
  BY <1>1, <1>3 DEF search_route_entry, RouteTableOK, RouteSockets

\* The entry at a used index is an entry.
LEMMA UsedEntry ==
  ASSUME NEW rt \in RouteTables, RouteTableOK(rt), NEW k \in RouteUsed(rt)
  PROVE  rt.table[k] \in RouteEntry
BY DEF RouteTables, RouteTableOK, RoutePrefix, RouteUsed

\* Inserting an address that is not routed keeps the shape of the route table,
\* whether the table has room for it or not (route.c:26-50).
LEMMA InsertKeepsTable ==
  ASSUME NEW rt \in RouteTables, RouteTableOK(rt),
         NEW ip \in Ips, NEW s \in Nat \ {0}, search_route_entry(rt, ip) = 0
  PROVE  /\ insert_route_entry(rt, s, ip) \in RouteTables
         /\ RouteTableOK(insert_route_entry(rt, s, ip))
<1>1. CASE RouteFull(rt)
  BY <1>1 DEF insert_route_entry
<1>2. CASE ~ RouteFull(rt)
  <2> DEFINE n   == rt.current_entry_num
             e   == [socket |-> s, ip_string |-> ip]
             new == [current_entry_num |-> n + 1, table |-> [rt.table EXCEPT ![n + 1] = e]]
  <2>1. /\ n + 1 \in RouteSlots
        /\ insert_route_entry(rt, s, ip) = new
    BY <1>2, RouteFreeSlot DEF insert_route_entry
  <2>2. n \in Nat /\ n + 1 <= ROUTE_TABLE_ENTRY_MAXNUM - 1
    BY <1>2, RouteTableAssumption DEF RouteTables, RouteTableOK, RouteBounded, RouteFull
  <2>3. e \in RouteEntry /\ e # NoRoute /\ e.socket # 0
    BY RouteTableAssumption DEF RouteEntry
  <2>4. new \in RouteTables
    BY <2>1, <2>2, <2>3 DEF RouteTables
  <2>5. \A k \in RouteSlots : new.table[k] = IF k = n + 1 THEN e ELSE rt.table[k]
    BY <2>1 DEF RouteTables
  <2>6. RouteUsed(new) = RouteUsed(rt) \cup {n + 1}
    BY <2>1, <2>2 DEF RouteUsed, RouteSlots
  <2>7. n + 1 \notin RouteUsed(rt)
    BY <2>2 DEF RouteUsed
  <2>8. RoutePrefix(new)
    BY <2>2, <2>3, <2>5 DEF RoutePrefix, RouteTableOK, RouteSlots
  <2>9. \A k \in RouteUsed(rt) : rt.table[k].ip_string # ip
    BY SearchFinds
  <2>10. RouteUnique(new)
    <3>1. SUFFICES ASSUME NEW k \in RouteUsed(new), NEW m \in RouteUsed(new),
                          new.table[k].ip_string = new.table[m].ip_string
                   PROVE  k = m
      BY DEF RouteUnique
    <3>2. \A q \in RouteUsed(rt) : new.table[q] = rt.table[q]
      BY <2>5, <2>7 DEF RouteUsed
    <3>3. new.table[n + 1].ip_string = ip
      BY <2>1, <2>5
    <3>4. CASE k \in RouteUsed(rt) /\ m \in RouteUsed(rt)
      BY <3>1, <3>2, <3>4 DEF RouteTableOK, RouteUnique
    <3>5. CASE k = n + 1 /\ m \in RouteUsed(rt)
      BY <3>1, <3>2, <3>3, <3>5, <2>9
    <3>6. CASE m = n + 1 /\ k \in RouteUsed(rt)
      BY <3>1, <3>2, <3>3, <3>6, <2>9
    <3> QED
      BY <2>6, <3>4, <3>5, <3>6
  <2>11. RouteBounded(new)
    BY <2>2 DEF RouteBounded
  <2>12. RouteSockets(new)
    <3>1. SUFFICES ASSUME NEW k \in RouteUsed(new)
                   PROVE  new.table[k].socket # 0
      BY DEF RouteSockets
    <3> QED
      BY <2>3, <2>5, <2>6 DEF RouteUsed, RouteTableOK, RouteSockets
  <2> QED
    BY <2>1, <2>4, <2>8, <2>10, <2>11, <2>12 DEF RouteTableOK
<1> QED
  BY <1>1, <1>2

\* Giving a listed address another socket keeps the shape of the route table
\* (route.c:78-86).
LEMMA UpdateKeepsTable ==
  ASSUME NEW rt \in RouteTables, RouteTableOK(rt),
         NEW ip \in Ips, NEW s \in Nat \ {0}
  PROVE  /\ update_route_entry(rt, ip, s) \in RouteTables
         /\ RouteTableOK(update_route_entry(rt, ip, s))
<1>1. CASE RoutesOf(rt, ip) = {}
  BY <1>1 DEF update_route_entry
<1>2. CASE RoutesOf(rt, ip) # {}
  <2>1. PICK k \in RouteUsed(rt) : rt.table[k].ip_string = ip
    BY <1>2 DEF RoutesOf
  <2> DEFINE new == [rt EXCEPT !.table[k].socket = s]
  <2>2. update_route_entry(rt, ip, s) = new
    BY <1>2, <2>1, SearchFinds DEF update_route_entry
  <2>3. k \in RouteSlots /\ rt.table[k] \in RouteEntry /\ rt.table[k] # NoRoute
    BY <2>1, UsedEntry, RouteTableAssumption DEF RouteUsed, RouteEntry
  <2>4. /\ new.current_entry_num = rt.current_entry_num
        /\ \A m \in RouteSlots : new.table[m] =
             IF m = k THEN [socket |-> s, ip_string |-> ip] ELSE rt.table[m]
    BY <2>1, <2>3 DEF RouteTables, RouteEntry
  <2>5. new \in RouteTables
    BY <2>3 DEF RouteTables, RouteEntry
  <2>6. RouteUsed(new) = RouteUsed(rt)
    BY <2>4 DEF RouteUsed
  <2>7. [socket |-> s, ip_string |-> ip] # NoRoute
    BY RouteTableAssumption
  <2>8. RoutePrefix(new)
    BY <2>3, <2>4, <2>7 DEF RoutePrefix, RouteTableOK
  <2>9. \A m \in RouteUsed(rt) : new.table[m].ip_string = rt.table[m].ip_string
    BY <2>1, <2>4 DEF RouteUsed
  <2>10. RouteUnique(new)
    BY <2>6, <2>9 DEF RouteUnique, RouteTableOK
  <2>11. RouteBounded(new)
    BY <2>4 DEF RouteBounded, RouteTableOK
  <2>12. RouteSockets(new)
    BY <2>4, <2>6 DEF RouteSockets, RouteTableOK, RouteUsed
  <2> QED
    BY <2>2, <2>5, <2>8, <2>10, <2>11, <2>12 DEF RouteTableOK
<1> QED
  BY <1>1, <1>2

\* Learning a route keeps the table in order.
LEMMA LearnKeepsTable ==
  ASSUME NEW rt \in RouteTables, RouteTableOK(rt),
         NEW ip \in Ips, NEW s \in Nat \ {0}
  PROVE  /\ LearnRoute(rt, ip, s) \in RouteTables
         /\ RouteTableOK(LearnRoute(rt, ip, s))
BY InsertKeepsTable, UpdateKeepsTable DEF LearnRoute

-----------------------------------------------------------------------------
(***************************************************************************)
(* The resource table.                                                     *)
(***************************************************************************)
LEMMA ResourceFreeSlot ==
  ASSUME NEW rs \in ResourceTables, ResourceTableOK(rs),
         rs.current_entry_num # RESOURCE_TABLE_ENTRY_MAXNUM - 1
  PROVE  /\ rs.current_entry_num + 1 \in ResourceSlots
         /\ ResourceFree(rs) # {}
         /\ Min(ResourceFree(rs)) = rs.current_entry_num + 1
<1> DEFINE n == rs.current_entry_num
<1>1. n \in Nat /\ n + 1 <= RESOURCE_TABLE_ENTRY_MAXNUM - 1
  BY ResourceTableAssumption DEF ResourceTables, ResourceTableOK
<1>2. n + 1 \in ResourceSlots
  BY <1>1, ResourceTableAssumption DEF ResourceSlots
<1>3. \A k \in ResourceSlots : k \in ResourceFree(rs) <=> k > n
  BY <1>1 DEF ResourceFree, ResourceTableOK, ResourceSlots
<1>4. n + 1 \in ResourceFree(rs)
  BY <1>1, <1>2, <1>3
<1>5. ResourceFree(rs) \in SUBSET Nat
  BY DEF ResourceFree, ResourceSlots
<1>6. /\ Min(ResourceFree(rs)) \in ResourceFree(rs)
      /\ Min(ResourceFree(rs)) <= n + 1
  BY <1>4, <1>5, MinIsLeast
<1>7. Min(ResourceFree(rs)) > n
  BY <1>3, <1>6 DEF ResourceFree
<1>8. Min(ResourceFree(rs)) \in Nat
  BY <1>5, <1>6
<1> QED
  BY <1>1, <1>2, <1>4, <1>6, <1>7, <1>8

\* Inserting a terminal that is not listed keeps the shape of the resource
\* table, whether it has room for it or not (resource.c:33-77).
LEMMA InsertKeepsResources ==
  ASSUME NEW rs \in ResourceTables, ResourceTableOK(rs),
         NEW e \in ResourceEntry, ResourcesOf(rs, e.termID) = {}
  PROVE  /\ insert_resource_entry(rs, e) \in ResourceTables
         /\ ResourceTableOK(insert_resource_entry(rs, e))
<1> DEFINE n == rs.current_entry_num
           full == n = RESOURCE_TABLE_ENTRY_MAXNUM - 1
<1>1. CASE full
  BY <1>1 DEF insert_resource_entry
<1>2. CASE ~ full
  <2> DEFINE new == [current_entry_num |-> n + 1, table |-> [rs.table EXCEPT ![n + 1] = e]]
  <2>1. n + 1 \in ResourceSlots /\ insert_resource_entry(rs, e) = new
    BY <1>2, ResourceFreeSlot DEF insert_resource_entry
  <2>2. n \in Nat /\ n + 1 <= RESOURCE_TABLE_ENTRY_MAXNUM - 1
    BY <1>2, ResourceTableAssumption DEF ResourceTables, ResourceTableOK
  <2>3. e # NoResource
    BY SinkAssumption
  <2>4. new \in ResourceTables
    BY <2>1, <2>2 DEF ResourceTables
  <2>5. \A k \in ResourceSlots : new.table[k] = IF k = n + 1 THEN e ELSE rs.table[k]
    BY <2>1 DEF ResourceTables
  <2>6. \A k \in ResourceSlots : new.table[k] # NoResource <=> k <= n + 1
    BY <2>2, <2>3, <2>5 DEF ResourceTableOK, ResourceSlots
  <2>7. ResourceUsed(new) = ResourceUsed(rs) \cup {n + 1}
    BY <2>1, <2>2 DEF ResourceUsed, ResourceSlots
  <2>8. \A q \in ResourceUsed(rs) : new.table[q] = rs.table[q] /\ new.table[q].termID # e.termID
    BY <2>2, <2>5 DEF ResourceUsed, ResourcesOf
  <2>9. new.table[n + 1] = e
    BY <2>1, <2>5
  <2>10. \A k, m \in ResourceUsed(new) : new.table[k].termID = new.table[m].termID => k = m
    BY <2>7, <2>8, <2>9 DEF ResourceTableOK
  <2> QED
    BY <2>1, <2>2, <2>4, <2>6, <2>10 DEF ResourceTableOK
<1> QED
  BY <1>1, <1>2

\* Rewriting readings only, at any set of used indices, keeps the table.
LEMMA ReadingsKeepResources ==
  ASSUME NEW rs \in ResourceTables, ResourceTableOK(rs), NEW new,
         new = [current_entry_num |-> rs.current_entry_num, table |-> new.table],
         new.table \in [ResourceSlots -> ResourceEntry \cup {NoResource}],
         \A k \in ResourceSlots :
           \/ new.table[k] = rs.table[k]
           \/ /\ k \in ResourceUsed(rs)
              /\ new.table[k] \in ResourceEntry
              /\ new.table[k].termID = rs.table[k].termID
  PROVE  new \in ResourceTables /\ ResourceTableOK(new)
<1>1. new \in ResourceTables
  BY DEF ResourceTables
<1>2. ResourceUsed(new) = ResourceUsed(rs)
  BY DEF ResourceUsed
<1>3. NoResource \notin ResourceEntry
  BY SinkAssumption
<1>4. \A k \in ResourceSlots : new.table[k] # NoResource <=> k <= new.current_entry_num
  BY <1>3 DEF ResourceTableOK, ResourceUsed
<1>5. \A k \in ResourceUsed(rs) : new.table[k].termID = rs.table[k].termID
  BY DEF ResourceUsed
<1> QED
  BY <1>1, <1>2, <1>4, <1>5 DEF ResourceTableOK

\* char_to_int leaves a string of bytes.
LEMMA ShiftedIsString ==
  ASSUME NEW data \in Seq(Nat)
  PROVE  char_to_int(data).data \in Seq(Nat)
<1> DEFINE sh == Shifted(data)
           zeros == {k \in DOMAIN sh : sh[k] = 0}
<1>1. Len(data) \in Nat /\ DOMAIN data = 1 .. Len(data) /\ data \in [1 .. Len(data) -> Nat]
  BY LenProperties
<1>2. \A k \in 1 .. Len(data) : (data[k] + 256 - 48) % 256 \in Nat
  BY <1>1
<1>3. sh \in [1 .. Len(data) -> Nat]
  BY <1>1, <1>2 DEF Shifted
<1>4. sh \in Seq(Nat)
  BY <1>1, <1>3, SeqDef
<1>5. DOMAIN sh = 1 .. Len(data)
  BY <1>3
<1>6. CString(sh) \in Seq(Nat)
  <2>1. CASE zeros = {}
    BY <1>4, <2>1 DEF CString
  <2>2. CASE zeros # {}
    <3>1. zeros \in SUBSET Nat
      BY <1>1, <1>5
    <3>2. Min(zeros) \in 1 .. Len(data)
      BY <1>5, <2>2, <3>1, MinIsLeast
    <3>3. \A q \in 1 .. Min(zeros) - 1 : sh[q] \in Nat
      BY <1>1, <1>3, <3>2
    <3>4. SubSeq(sh, 1, Min(zeros) - 1) \in Seq(Nat)
      BY <1>1, <3>2, <3>3, SubSeqProperties
    <3> QED
      BY <2>2, <3>4 DEF CString
  <2> QED
    BY <2>1, <2>2
<1> QED
  BY <1>6 DEF char_to_int

\* Registering a reading keeps the table in order.
LEMMA RegisterKeepsResources ==
  ASSUME NEW rs \in ResourceTables, ResourceTableOK(rs), NEW e \in ResourceEntry
  PROVE  /\ RegisterReading(rs, e) \in ResourceTables
         /\ ResourceTableOK(RegisterReading(rs, e))
<1>1. CASE ~ search_id_entry(rs, e.termID)
  BY <1>1, InsertKeepsResources DEF RegisterReading, search_id_entry
<1>2. CASE search_id_entry(rs, e.termID)
  <2> DEFINE S == ResourcesOf(rs, e.termID)
             k == Min(S)
             new == [rs EXCEPT !.table[k].data = e.data]
  <2>1. RegisterReading(rs, e) = new
    BY <1>2 DEF RegisterReading, update_resource_data_entry
  <2>2. S \in SUBSET Nat /\ S # {}
    BY <1>2 DEF search_id_entry, ResourcesOf, ResourceUsed, ResourceSlots
  <2>3. k \in ResourceUsed(rs) /\ k \in ResourceSlots
    <3>1. k \in S
      BY <2>2, MinIsLeast
    <3> QED
      BY <3>1 DEF ResourcesOf, ResourceUsed
  <2>4. rs.table[k] \in ResourceEntry
    BY <2>3 DEF ResourceTables, ResourceTableOK, ResourceUsed
  <2>5. new = [current_entry_num |-> rs.current_entry_num, table |-> new.table]
    BY DEF ResourceTables
  <2>6. \A m \in ResourceSlots :
          new.table[m] = IF m = k THEN [rs.table[k] EXCEPT !.data = e.data] ELSE rs.table[m]
    BY <2>3 DEF ResourceTables
  <2>7. /\ [rs.table[k] EXCEPT !.data = e.data] \in ResourceEntry
        /\ [rs.table[k] EXCEPT !.data = e.data].termID = rs.table[k].termID
    BY <2>4 DEF ResourceEntry
  <2>8. new.table \in [ResourceSlots -> ResourceEntry \cup {NoResource}]
    BY <2>3, <2>7 DEF ResourceTables
  <2> HIDE DEF new, k
  <2>9. new \in ResourceTables /\ ResourceTableOK(new)
    BY <2>3, <2>5, <2>6, <2>7, <2>8, ReadingsKeepResources
  <2> QED
    BY <2>1, <2>9
<1> QED
  BY <1>1, <1>2

\* Reading the values for fusion keeps the table in order.
LEMMA FusionKeepsResources ==
  ASSUME NEW rs \in ResourceTables, ResourceTableOK(rs)
  PROVE  /\ ReadForFusion(rs) \in ResourceTables
         /\ ResourceTableOK(ReadForFusion(rs))
<1> DEFINE new == ReadForFusion(rs)
           read(k) == [rs.table[k] EXCEPT !.data = char_to_int(rs.table[k].data).data]
<1>1. new = [current_entry_num |-> rs.current_entry_num, table |-> new.table]
  BY DEF ReadForFusion, ResourceTables
<1>2. \A k \in ResourceSlots :
        new.table[k] = IF k \in Visited(rs) THEN read(k) ELSE rs.table[k]
  BY DEF ReadForFusion, ResourceTables
<1>3. \A k \in Visited(rs) : k \in ResourceUsed(rs) /\ rs.table[k] \in ResourceEntry
  BY DEF Visited, ResourceTables, ResourceTableOK, ResourceUsed
<1>4. \A k \in Visited(rs) :
        read(k) \in ResourceEntry /\ read(k).termID = rs.table[k].termID
  <2>1. SUFFICES ASSUME NEW k \in Visited(rs)
                 PROVE  read(k) \in ResourceEntry /\ read(k).termID = rs.table[k].termID
    OBVIOUS
  <2>2. rs.table[k] \in ResourceEntry /\ rs.table[k].data \in Seq(Nat)
    BY <1>3 DEF ResourceEntry
  <2>3. char_to_int(rs.table[k].data).data \in Seq(Nat)
    BY <2>2, ShiftedIsString
  <2> QED
    BY <2>2, <2>3 DEF ResourceEntry
<1>5. new.table \in [ResourceSlots -> ResourceEntry \cup {NoResource}]
  BY <1>4 DEF ReadForFusion, ResourceTables
<1> HIDE DEF new, read
<1>6. new \in ResourceTables /\ ResourceTableOK(new)
  BY <1>1, <1>2, <1>3, <1>4, <1>5, ReadingsKeepResources
<1> QED
  BY <1>6 DEF new

-----------------------------------------------------------------------------
(***************************************************************************)
(* The inductive invariant.  That the tables keep their types and order    *)
(* depends on the socket of a PDU being a descriptor, and that on what the *)
(* scan chose (ServingOK).                                                 *)
(***************************************************************************)
IInv == TypeOK /\ TablesOK /\ ServingOK

SockLists == [num : Int, sock_array : [Slots -> Fds \cup {0}]]

\* A descriptor is a number, neither 0 (search_route_entry's "no route") nor
\* the listening socket.
LEMMA FdsAreNat ==
  /\ \A fd \in Fds : fd \in Nat /\ fd # 0 /\ fd # MainSock
  /\ MainSock \in Nat /\ MainSock # 0
BY SinkAssumption

\* The free or matching position that the loops of SockList.c stop at is one of
\* the positions they look at.
LEMMA SlotsMin ==
  ASSUME NEW S \in SUBSET Slots, S # {}
  PROVE  Min(S) \in S
<1>1. S \in SUBSET Nat
  BY DEF Slots
<1> QED
  BY <1>1, MinIsLeast

\* insert_list returns a socket list, also when no position is free.
LEMMA InsertListType ==
  ASSUME NEW list \in SockLists, NEW s \in Fds
  PROVE  insert_list(s, list) \in SockLists
<1>1. SlotsOf(0, list) \subseteq Slots
  BY DEF SlotsOf
<1> QED
  BY <1>1, SlotsMin DEF insert_list, SockLists

\* delete_list returns a socket list, also when the socket is not in it.
LEMMA DeleteListType ==
  ASSUME NEW list \in SockLists, NEW s \in Fds
  PROVE  delete_list(s, list) \in SockLists
<1>1. SlotsOf(s, list) \subseteq Slots
  BY DEF SlotsOf
<1> QED
  BY <1>1, SlotsMin DEF delete_list, SockLists

\* Where the scan goes next.
ScanType == /\ pc' \in {"select", "serve"}
            /\ i' \in Slots \cup {0}
            /\ readfds' \subseteq Fds \cup {MainSock}
            /\ pc' = "serve" => i' \in Slots /\ sock_list'.sock_array[i'] \in readfds'

\* Wherever the scan of sink.c:172-175 resumes, its counter, descriptor set and
\* program counter have their types.
LEMMA ScanHasType ==
  ASSUME NEW k, NEW fds \in SUBSET (Fds \cup {MainSock}), Scan(k, fds)
  PROVE  ScanType
<1> DEFINE ahead == {m \in Slots : m > k /\ sock_list'.sock_array[m] \in fds}
<1>1. CASE ahead = {}
  BY <1>1 DEF Scan, ScanType
<1>2. CASE ahead # {}
  <2>1. pc' = "serve" /\ i' = Min(ahead) /\ readfds' = fds
    BY <1>2 DEF Scan
  <2>2. Min(ahead) \in ahead
    BY <1>2, SlotsMin
  <2> QED
    BY <2>1, <2>2 DEF ScanType
<1> QED
  BY <1>1, <1>2

\* A connection that the network or the loop names is one of the table's.
LEMMA ConnectionAt ==
  ASSUME conns \in Seq(Connection), NEW c \in ConnIds
  PROVE  /\ c \in 1 .. Len(conns)
         /\ c \in Nat
         /\ conns[c] \in Connection
BY LenProperties, ElementOfSeq DEF ConnIds

\* A change of one connection keeps the sequence of connections.
LEMMA ConnectionChange ==
  ASSUME conns \in Seq(Connection), NEW c \in ConnIds, NEW r \in Connection,
         conns' = [conns EXCEPT ![c] = r]
  PROVE  conns' \in Seq(Connection)
BY ConnectionAt, ExceptSeq

\* The rest of the state when pdu_process ends without an answer.
LEMMA ScanOnStep ==
  ASSUME IInv, ScanOn
  PROVE  /\ ScanType
         /\ recvbuf' = <<>>
         /\ send_sock' = 0
<1>1. readfds \in SUBSET (Fds \cup {MainSock})
  BY DEF IInv, TypeOK
<1> QED
  BY <1>1, ScanHasType DEF ScanOn

\* The socket being served is a descriptor of a terminal.
LEMMA SocketServed ==
  ASSUME TypeOK, ServingOK, pc \in {"serve", "process", "send"}
  PROVE  newsock \in Fds /\ newsock \in Nat \ {0}
BY FdsAreNat DEF TypeOK, ServingOK, newsock

-----------------------------------------------------------------------------
(***************************************************************************)
(* Every step keeps the inductive invariant.                               *)
(***************************************************************************)
LEMMA ConnectKeeps ==
  ASSUME IInv, NEW ip \in Ips, Connect(ip)
  PROVE  IInv'
<1> USE DEF IInv
<1> DEFINE r == [ip |-> ip, state |-> "queued", fd |-> 0, peer |-> "up", in |-> <<>>]
<1>1. UNCHANGED <<sock_list, routes, resources, pc, i, readfds, recvbuf, send_sock,
                  sendbuf, sent, lastSend, heardOn>>
  BY DEF Connect, tables, loop, call, history
<1>2. r \in Connection
  BY EmptySeq DEF Connection
<1>3. conns' = Append(conns, r) /\ conns \in Seq(Connection)
  BY DEF Connect, TypeOK
<1>4. conns' \in Seq(Connection)
  BY <1>2, <1>3, AppendProperties
<1>5. \A c \in ConnIds : c \in ConnIds' /\ conns'[c] = conns[c]
  BY <1>2, <1>3, <1>4, AppendProperties, LenProperties DEF ConnIds
<1>6. TypeOK'
  BY <1>1, <1>4 DEF TypeOK
<1>7. TablesOK'
  BY <1>1 DEF TablesOK
<1>8. \A fd : ConnOf(fd) \subseteq ConnOf(fd)'
  BY <1>5 DEF ConnOf, Accepted
<1>9. ServingOK'
  BY <1>1, <1>8 DEF ServingOK, newsock
<1> QED
  BY <1>6, <1>7, <1>9

\* A connection that keeps its state and its descriptor keeps ServingOK.
LEMMA NetworkKeepsServing ==
  ASSUME ServingOK, conns \in Seq(Connection),
         UNCHANGED <<sock_list, pc, i, readfds, recvbuf>>,
         NEW c \in ConnIds, NEW r \in Connection,
         conns' = [conns EXCEPT ![c] = r],
         r.state = conns[c].state, r.fd = conns[c].fd
  PROVE  ServingOK'
<1>1. ConnIds' = ConnIds
  BY DEF ConnIds
<1>2. \A d \in ConnIds : conns'[d].state = conns[d].state /\ conns'[d].fd = conns[d].fd
  BY ConnectionAt DEF ConnIds
<1>3. \A fd : ConnOf(fd)' = ConnOf(fd)
  BY <1>1, <1>2 DEF ConnOf, Accepted
<1> QED
  BY <1>3 DEF ServingOK, newsock

\* Data that arrive for a connection, also the one being served, break no
\* invariant.
LEMMA TerminalSendKeeps ==
  ASSUME IInv, NEW c \in ConnIds, NEW pdu \in TerminalPdus, TerminalSend(c, pdu)
  PROVE  IInv'
<1> USE DEF IInv
<1> DEFINE r == [conns[c] EXCEPT !.in = Append(@, pdu)]
<1>1. UNCHANGED <<sock_list, routes, resources, pc, i, readfds, recvbuf, send_sock,
                  sendbuf, lastSend, heardOn>> /\ sent' = sent + 1
  BY DEF TerminalSend, tables, loop, call, history
<1>2. conns \in Seq(Connection) /\ conns[c] \in Connection
  BY ConnectionAt DEF TypeOK
<1>3. Append(conns[c].in, pdu) \in Seq(TerminalPdus)
  BY <1>2, AppendProperties DEF Connection
<1>4. r \in Connection /\ r.state = conns[c].state /\ r.fd = conns[c].fd
  BY <1>2, <1>3 DEF Connection
<1>5. conns' = [conns EXCEPT ![c] = r]
  BY DEF TerminalSend
<1>6. conns' \in Seq(Connection)
  BY <1>2, <1>4, <1>5, ConnectionChange
<1>7. TypeOK'
  BY <1>1, <1>6 DEF TypeOK
<1>8. TablesOK'
  BY <1>1 DEF TablesOK
<1>9. ServingOK'
  BY <1>1, <1>2, <1>4, <1>5, NetworkKeepsServing
<1> QED
  BY <1>7, <1>8, <1>9

\* A terminal that leaves, at any moment of the loop, breaks no invariant.
LEMMA TerminalLeavesKeeps ==
  ASSUME IInv, NEW c \in ConnIds, NEW how \in Departures, TerminalLeaves(c, how)
  PROVE  IInv'
<1> USE DEF IInv
<1> DEFINE r == [conns[c] EXCEPT !.peer = how]
<1>1. UNCHANGED <<sock_list, routes, resources, pc, i, readfds, recvbuf, send_sock,
                  sendbuf, sent, lastSend, heardOn>>
  BY DEF TerminalLeaves, tables, loop, call, history
<1>2. conns \in Seq(Connection) /\ conns[c] \in Connection
  BY ConnectionAt DEF TypeOK
<1>3. r \in Connection /\ r.state = conns[c].state /\ r.fd = conns[c].fd
  BY <1>2, SinkAssumption DEF Connection
<1>4. conns' = [conns EXCEPT ![c] = r]
  BY DEF TerminalLeaves
<1>5. conns' \in Seq(Connection)
  BY <1>2, <1>3, <1>4, ConnectionChange
<1>6. TypeOK'
  BY <1>1, <1>5 DEF TypeOK
<1>7. TablesOK'
  BY <1>1 DEF TablesOK
<1>8. ServingOK'
  BY <1>1, <1>2, <1>3, <1>4, NetworkKeepsServing
<1> QED
  BY <1>6, <1>7, <1>8

\* select and its choice of ready descriptors (sink.c:146-157).
LEMMA SelectKeeps ==
  ASSUME IInv, Select
  PROVE  IInv'
<1> USE DEF IInv
<1> DEFINE fds == make_fdlist(MainSock, sock_list) \cap ReadableFds
<1>1. UNCHANGED <<sock_list, routes, resources, recvbuf, send_sock, sendbuf, conns, sent,
                  lastSend, heardOn>>
  BY DEF Select, tables, call, network, history
<1>2. fds \in SUBSET (Fds \cup {MainSock})
  <2>1. make_fdlist(MainSock, sock_list) \subseteq Fds \cup {MainSock}
    BY DEF make_fdlist, SlotsOf, TypeOK
  <2> QED
    BY <2>1
<1>3. \/ pc' = "accept" /\ i' = 0 /\ readfds' = fds
      \/ Scan(0, fds)
  BY DEF Select
<1>4. \/ pc' = "accept" /\ i' = 0 /\ readfds' = fds
      \/ ScanType
  BY <1>2, <1>3, ScanHasType
<1>5. TypeOK'
  BY <1>1, <1>2, <1>4 DEF TypeOK, ScanType
<1>6. TablesOK'
  BY <1>1 DEF TablesOK
<1>7. ServingOK'
  BY <1>1, <1>4 DEF ServingOK, newsock, ScanType
<1> QED
  BY <1>5, <1>6, <1>7

\* accept under a free descriptor, and the scan after it (sink.c:159-175).
LEMMA AcceptKeeps ==
  ASSUME IInv, Accept
  PROVE  IInv'
<1> USE DEF IInv
<1> DEFINE c == Min(Queued)
           f == Min(FreeFds)
           r == [conns[c] EXCEPT !.state = "accepted", !.fd = f]
<1>1. UNCHANGED <<routes, resources, recvbuf, send_sock, sendbuf, sent, lastSend, heardOn>>
  BY DEF Accept, tables, call, history
<1>2. c \in ConnIds
  <2>1. Queued \in SUBSET Nat /\ Queued # {}
    BY ConnectionAt DEF Queued, Accept, TypeOK
  <2> QED
    BY <2>1, MinIsLeast DEF Queued
<1>3. f \in Fds
  <2>1. FreeFds \in SUBSET Nat /\ FreeFds # {}
    BY FdsAreNat DEF FreeFds, Accept
  <2> QED
    BY <2>1, MinIsLeast DEF FreeFds
<1>4. conns \in Seq(Connection) /\ conns[c] \in Connection
  BY <1>2, ConnectionAt DEF TypeOK
<1>5. r \in Connection
  BY <1>3, <1>4 DEF Connection
<1>6. conns' = [conns EXCEPT ![c] = r]
  BY <1>2, <1>4 DEF Accept, Connection
<1>7. conns' \in Seq(Connection)
  BY <1>2, <1>4, <1>5, <1>6, ConnectionChange
<1>8. sock_list' \in SockLists
  BY <1>3, InsertListType DEF Accept, SockLists, TypeOK
<1>9. ScanType
  BY ScanHasType DEF Accept, TypeOK
<1>10. TypeOK'
  BY <1>1, <1>7, <1>8, <1>9 DEF TypeOK, ScanType, SockLists
<1>11. TablesOK'
  BY <1>1 DEF TablesOK
<1>12. ServingOK'
  BY <1>9 DEF ServingOK, newsock, ScanType
<1> QED
  BY <1>10, <1>11, <1>12

\* accept without a free descriptor goes back to select (sink.c:162-163).
LEMMA AcceptFailsKeeps ==
  ASSUME IInv, AcceptFails
  PROVE  IInv'
<1> USE DEF IInv
<1>1. /\ UNCHANGED <<sock_list, routes, resources, recvbuf, send_sock, sendbuf, conns, sent,
                     lastSend, heardOn>>
      /\ pc' = "select" /\ i' = 0 /\ readfds' = {}
  BY DEF AcceptFails, tables, call, network, history
<1>2. TypeOK'
  BY <1>1 DEF TypeOK
<1>3. TablesOK' /\ ServingOK'
  BY <1>1 DEF TablesOK, ServingOK
<1> QED
  BY <1>2, <1>3

\* Receiving one or several PDUs leaves the socket served and a PDU at hand
\* (sink.c:177-181).
LEMMA RecvDataKeeps ==
  ASSUME IInv, NEW c \in ConnIds, NEW n \in 1 .. Len(conns[c].in), RecvData(c, n)
  PROVE  IInv'
<1> USE DEF IInv
<1> DEFINE in == conns[c].in
           r  == [conns[c] EXCEPT !.in = SubSeq(in, n + 1, Len(in))]
<1>1. /\ UNCHANGED <<sock_list, routes, resources, i, readfds, send_sock, sendbuf, sent,
                     lastSend, heardOn>>
      /\ pc = "serve" /\ pc' = "process"
      /\ recvbuf' = SubSeq(in, 1, n)
      /\ c \in ConnOf(newsock)
  BY DEF RecvData, tables, history
<1>2. conns \in Seq(Connection) /\ conns[c] \in Connection
  BY ConnectionAt DEF TypeOK
<1>3. in \in Seq(TerminalPdus) /\ Len(in) \in Nat
  BY <1>2, LenProperties DEF Connection
<1>4. recvbuf' \in Seq(TerminalPdus) /\ Len(recvbuf') = n
  <2>1. \A k \in 1 .. n : in[k] \in TerminalPdus
    BY <1>3, ElementOfSeq
  <2> QED
    BY <1>1, <1>3, <2>1, SubSeqProperties
<1>5. recvbuf' # <<>>
  BY <1>4, EmptySeq
<1>6. SubSeq(in, n + 1, Len(in)) \in Seq(TerminalPdus)
  <2>1. \A k \in n + 1 .. Len(in) : in[k] \in TerminalPdus
    BY <1>3, ElementOfSeq
  <2> QED
    BY <1>3, <2>1, SubSeqProperties
<1>7. r \in Connection /\ r.state = conns[c].state /\ r.fd = conns[c].fd
  BY <1>2, <1>6 DEF Connection
<1>8. conns' = [conns EXCEPT ![c] = r]
  BY DEF RecvData
<1>9. conns' \in Seq(Connection)
  BY <1>2, <1>7, <1>8, ConnectionChange
<1>10. TypeOK'
  BY <1>1, <1>4, <1>9 DEF TypeOK
<1>11. TablesOK'
  BY <1>1 DEF TablesOK
<1>12. c \in ConnOf(newsock)'
  BY <1>1, <1>2, <1>7, <1>8 DEF ConnOf, Accepted, ConnIds, newsock
<1>13. ServingOK'
  BY <1>1, <1>5, <1>12 DEF ServingOK, newsock
<1> QED
  BY <1>10, <1>11, <1>13

\* The end of a connection removes its socket and goes on with the scan
\* (sink.c:182-206).
LEMMA RecvEndsKeeps ==
  ASSUME IInv, NEW c \in ConnIds, RecvEnds(c)
  PROVE  IInv'
<1> USE DEF IInv
<1> DEFINE r == [conns[c] EXCEPT !.state = "closed"]
<1>1. UNCHANGED <<routes, resources, recvbuf, send_sock, sendbuf, sent, lastSend, heardOn>>
  BY DEF RecvEnds, tables, call, history
<1>2. conns \in Seq(Connection) /\ conns[c] \in Connection
  BY ConnectionAt DEF TypeOK
<1>3. r \in Connection
  BY <1>2 DEF Connection
<1>4. conns' = [conns EXCEPT ![c] = r]
  BY DEF RecvEnds
<1>5. conns' \in Seq(Connection)
  BY <1>2, <1>3, <1>4, ConnectionChange
<1>6. ScanType
  BY ScanHasType DEF RecvEnds, TypeOK
<1>7. newsock \in Fds
  BY SocketServed DEF RecvEnds
<1>8. sock_list' \in SockLists
  BY <1>7, DeleteListType DEF RecvEnds, TypeOK, SockLists
<1>9. TypeOK'
  BY <1>1, <1>5, <1>6, <1>8 DEF TypeOK, ScanType, SockLists
<1>10. TablesOK'
  BY <1>1 DEF TablesOK
<1>11. ServingOK'
  BY <1>6 DEF ServingOK, newsock, ScanType
<1> QED
  BY <1>9, <1>10, <1>11

-----------------------------------------------------------------------------
(***************************************************************************)
(* The steps of pdu_process and of send.                                   *)
(***************************************************************************)

\* The PDU being processed is one that a terminal sends.
LEMMA PduAtHand ==
  ASSUME TypeOK, ServingOK, pc \in {"process", "send", "exit"}
  PROVE  /\ pf \in TerminalPdus
         /\ pf \in Pdu
         /\ pf.src \in Ips
         /\ pf.des \in Ips \cup {AP_IP}
         /\ pf.payload \in Seq(Nat)
         /\ pf.type = PDU_TYPE_APPLICATION => Len(pf.payload) >= 3
<1>1. pf \in TerminalPdus
  BY HeadTailProperties DEF TypeOK, ServingOK, pf
<1> QED
  BY <1>1, SinkAssumption DEF Pdu

\* Learning a route keeps the route table and the history in order.
LEMMA LearnKeeps ==
  ASSUME IInv, pc = "process", Learn
  PROVE  /\ routes' \in RouteTables
         /\ RouteTableOK(routes')
         /\ heardOn' \in [Ips -> Nat]
<1> USE DEF IInv
<1>1. newsock \in Nat \ {0} /\ pf.src \in Ips
  BY SocketServed, PduAtHand
<1>2. routes' \in RouteTables /\ RouteTableOK(routes')
  BY <1>1, LearnKeepsTable DEF Learn, TypeOK, TablesOK
<1>3. (CHOOSE c \in ConnOf(newsock) : TRUE) \in Nat
  <2>1. ConnOf(newsock) # {} /\ ConnOf(newsock) \subseteq ConnIds
    BY DEF ServingOK, ConnOf, Accepted
  <2>2. ConnIds \subseteq Nat
    BY ConnectionAt DEF TypeOK
  <2> QED
    BY <2>1, <2>2
<1>4. heardOn' \in [Ips -> Nat]
  BY <1>3 DEF Learn, TypeOK
<1> QED
  BY <1>2, <1>4

\* The type of what a PDU leaves to be sent.
AnswerType == \A k \in DOMAIN sendbuf : /\ sendbuf[k].src \in Ips \cup {AP_IP}
                                        /\ sendbuf[k].des \in Ips \cup {AP_IP}

\* What a processing step needs to keep IInv, whether it answers or not.
LEMMA ProcessingKeeps ==
  ASSUME IInv, Processing,
         routes' \in RouteTables, RouteTableOK(routes'),
         resources' \in ResourceTables, ResourceTableOK(resources'),
         heardOn' \in [Ips -> Nat],
         NEW s \in Nat, NEW buf, Ignore \/ Answer(s, buf),
         \A k \in DOMAIN buf : buf[k].src \in Ips \cup {AP_IP} /\ buf[k].des \in Ips \cup {AP_IP}
  PROVE  IInv'
<1> USE DEF IInv
<1>1. pc = "process" /\ UNCHANGED <<sock_list, conns, sent, lastSend>>
  BY DEF Processing, network
<1>2. TablesOK'
  BY DEF TablesOK
<1>3. CASE ScanOn
  <2>1. ScanType /\ recvbuf' = <<>> /\ send_sock' = 0
    BY <1>3, ScanOnStep
  <2>2. \A k \in DOMAIN sendbuf' : /\ sendbuf'[k].src \in Ips \cup {AP_IP}
                                   /\ sendbuf'[k].des \in Ips \cup {AP_IP}
    BY DEF Ignore, Answer, TypeOK
  <2>3. recvbuf' \in Seq(TerminalPdus)
    BY <2>1, EmptySeq
  <2>4. TypeOK'
    BY <1>1, <2>1, <2>2, <2>3 DEF TypeOK, ScanType
  <2>5. ServingOK'
    BY <2>1 DEF ServingOK, newsock, ScanType
  <2> QED
    BY <1>2, <2>4, <2>5
<1>4. CASE /\ pc' = "send" /\ send_sock' = s /\ sendbuf' = buf
           /\ UNCHANGED <<i, readfds, recvbuf>>
  <2>1. TypeOK'
    BY <1>1, <1>4 DEF TypeOK
  <2>2. ServingOK'
    BY <1>1, <1>4 DEF ServingOK, newsock
  <2> QED
    BY <1>2, <2>1, <2>2
<1> QED
  BY <1>3, <1>4 DEF Ignore, Answer

\* The sockets a look-up can return.
LEMMA SearchType ==
  ASSUME NEW rt \in RouteTables, RouteTableOK(rt), NEW ip \in Ips
  PROVE  search_route_entry(rt, ip) \in Nat
<1>1. CASE RoutesOf(rt, ip) = {}
  BY <1>1 DEF search_route_entry
<1>2. CASE RoutesOf(rt, ip) # {}
  <2>1. PICK k \in RouteUsed(rt) : rt.table[k].ip_string = ip
    BY <1>2 DEF RoutesOf
  <2> QED
    BY <2>1, SearchFinds, UsedEntry DEF RouteEntry
<1> QED
  BY <1>1, <1>2

\* Every case of pdu_process but the readings leaves the resource table.
LEMMA RoutingCasesKeep ==
  ASSUME IInv,
         ProcessInvalid \/ ProcessPeriodic \/ ProcessEcho \/ ProcessForward \/ ProcessNoCase
  PROVE  IInv'
<1> USE DEF IInv
<1>1. Processing /\ pc = "process"
  BY DEF ProcessInvalid, ProcessPeriodic, ProcessEcho, ProcessForward, ProcessNoCase, Processing
<1>2. resources' \in ResourceTables /\ ResourceTableOK(resources')
  BY DEF ProcessInvalid, ProcessPeriodic, ProcessEcho, ProcessForward, ProcessNoCase, tables,
         TypeOK, TablesOK
<1>3. /\ pf.src \in Ips /\ pf.des \in Ips \cup {AP_IP}
      /\ newsock \in Nat /\ send_sock \in Nat
  BY <1>1, PduAtHand, SocketServed DEF TypeOK
<1>4. \A k \in DOMAIN recvbuf : recvbuf[k].src \in Ips \cup {AP_IP} /\ recvbuf[k].des \in Ips \cup {AP_IP}
  BY ElementOfSeq, LenProperties, SinkAssumption DEF TypeOK, Pdu
<1>5. \A k \in DOMAIN sendbuf : sendbuf[k].src \in Ips \cup {AP_IP} /\ sendbuf[k].des \in Ips \cup {AP_IP}
  BY DEF TypeOK
<1>6. CASE ProcessInvalid
  <2>1. routes' \in RouteTables /\ RouteTableOK(routes') /\ heardOn' \in [Ips -> Nat] /\ Ignore
    BY <1>6 DEF ProcessInvalid, tables, TypeOK, TablesOK
  <2> QED
    BY <1>1, <1>2, <1>3, <1>5, <2>1, ProcessingKeeps
<1>7. CASE Learn
  <2>1. routes' \in RouteTables /\ RouteTableOK(routes') /\ heardOn' \in [Ips -> Nat]
    BY <1>1, <1>7, LearnKeeps
  <2>2. CASE ProcessPeriodic
    <3> DEFINE buf == make_sendbuf(AP_IP, pf.src, PDU_TYPE_PERIODICALLY, <<49, 48, 48>>)
    <3>1. Answer(newsock, buf)
      BY <2>2 DEF ProcessPeriodic
    <3>2. \A k \in DOMAIN buf : buf[k].src \in Ips \cup {AP_IP} /\ buf[k].des \in Ips \cup {AP_IP}
      BY <1>3 DEF make_sendbuf
    <3> HIDE DEF buf
    <3> QED
      BY <1>1, <1>2, <1>3, <2>1, <3>1, <3>2, ProcessingKeeps
  <2>3. CASE ProcessEcho
    <3>1. Answer(newsock, recvbuf)
      BY <2>3 DEF ProcessEcho
    <3> QED
      BY <1>1, <1>2, <1>3, <1>4, <2>1, <3>1, ProcessingKeeps
  <2>4. CASE ProcessForward /\ pf.des \in Ips
    <3>1. search_route_entry(routes', pf.des) \in Nat
      BY <2>1, <2>4, SearchType
    <3>2. Answer(search_route_entry(routes', pf.des), recvbuf) \/ Ignore
      BY <2>4 DEF ProcessForward
    <3> QED
      BY <1>1, <1>2, <1>4, <2>1, <3>1, <3>2, ProcessingKeeps
  <2>5. CASE ProcessForward /\ pf.des = AP_IP /\ AP_IP \notin Ips
    <3>1. search_route_entry(routes', pf.des) = 0
      <4>1. \A k \in RouteUsed(routes') : routes'.table[k].ip_string \in Ips
        BY <2>1, UsedEntry DEF RouteEntry
      <4>2. RoutesOf(routes', pf.des) = {}
        BY <2>5, <4>1 DEF RoutesOf
      <4> QED
        BY <4>2 DEF search_route_entry
    <3>2. Ignore
      BY <2>5, <3>1 DEF ProcessForward
    <3> QED
      BY <1>1, <1>2, <1>3, <1>5, <2>1, <3>2, ProcessingKeeps
  <2>6. CASE ProcessNoCase
    <3>1. Ignore \/ Answer(send_sock, sendbuf)
      BY <2>6 DEF ProcessNoCase
    <3> QED
      BY <1>1, <1>2, <1>3, <1>5, <2>1, <3>1, ProcessingKeeps
  <2> QED
    BY <1>3, <1>6, <2>2, <2>3, <2>4, <2>5, <2>6
<1> QED
  BY <1>6, <1>7 DEF ProcessPeriodic, ProcessEcho, ProcessForward, ProcessNoCase

\* The entry a reading makes.
LEMMA ReadingIsEntry ==
  ASSUME TypeOK, ServingOK, pc = "process", pf.type = PDU_TYPE_APPLICATION
  PROVE  parse_resource_pdu(pf.payload) \in ResourceEntry
<1> DEFINE pl == pf.payload
<1>1. pf.src \in Ips /\ pl \in Seq(Nat) /\ Len(pl) \in Nat /\ Len(pl) >= 3
  BY PduAtHand, LenProperties
<1>2. pl[1] \in Nat /\ pl[2] \in Nat /\ pl[3] \in Nat
  BY <1>1, ElementOfSeq
<1>3. SubSeq(pl, 4, Len(pl)) \in Seq(Nat)
  <2>1. \A k \in 4 .. Len(pl) : pl[k] \in Nat
    BY <1>1, ElementOfSeq
  <2> QED
    BY <1>1, <2>1, SubSeqProperties
<1>4. char_to_int(SubSeq(pl, 4, Len(pl))).data \in Seq(Nat)
  BY <1>3, ShiftedIsString
<1> QED
  BY <1>1, <1>2, <1>4 DEF parse_resource_pdu, ResourceEntry

\* The two cases of a reading for the sink.
LEMMA ReadingCasesKeep ==
  ASSUME IInv, ProcessReadingOnly \/ ProcessFusion
  PROVE  IInv'
<1> USE DEF IInv
<1>1. Processing /\ pc = "process" /\ Learn /\ pf.type = PDU_TYPE_APPLICATION
  BY DEF ProcessReadingOnly, ProcessFusion, Processing, ForSink
<1>2. routes' \in RouteTables /\ RouteTableOK(routes') /\ heardOn' \in [Ips -> Nat]
  BY <1>1, LearnKeeps
<1>3. Registered \in ResourceTables /\ ResourceTableOK(Registered)
  BY <1>1, ReadingIsEntry, RegisterKeepsResources DEF Registered, TypeOK, TablesOK
<1>4. resources' \in ResourceTables /\ ResourceTableOK(resources')
  <2>1. resources' = ReadForFusion(Registered)
    BY DEF ProcessReadingOnly, ProcessFusion
  <2> QED
    BY <1>3, <2>1, FusionKeepsResources
<1>5. CASE ProcessReadingOnly
  <2>1. Ignore
    BY <1>5 DEF ProcessReadingOnly
  <2>2. \A k \in DOMAIN sendbuf : sendbuf[k].src \in Ips \cup {AP_IP} /\ sendbuf[k].des \in Ips \cup {AP_IP}
    BY DEF TypeOK
  <2> QED
    BY <1>1, <1>2, <1>4, <2>1, <2>2, ProcessingKeeps
<1>6. CASE ProcessFusion
  <2> DEFINE ex  == search_ip_entry(Registered, LED_EXECUTE_TYPE)
             ip  == Registered.table[ex].ip_string
             fre == cooperative_control(data_fusion(sensor_mean_data(Registered)))
             buf == make_sendbuf(AP_IP, ip, PDU_TYPE_APPLICATION, <<1, fre>>)
  <2>1. ip \in Ips
    <3>1. Executors(Registered, LED_EXECUTE_TYPE) \in SUBSET Nat
      BY DEF Executors, ResourceUsed, ResourceSlots
    <3>2. ex \in ResourceUsed(Registered)
      BY <1>6, <3>1, MinIsLeast DEF ProcessFusion, search_ip_entry, Executors
    <3>3. Registered.table[ex] \in ResourceEntry
      BY <1>3, <3>2 DEF ResourceTables, ResourceTableOK, ResourceUsed
    <3> QED
      BY <3>3 DEF ResourceEntry
  <2>2. Answer(search_route_entry(routes', ip), buf)
    BY <1>6 DEF ProcessFusion
  <2>3. \A k \in DOMAIN buf : buf[k].src \in Ips \cup {AP_IP} /\ buf[k].des \in Ips \cup {AP_IP}
    BY <2>1 DEF make_sendbuf
  <2>4. search_route_entry(routes', ip) \in Nat
    BY <1>2, <2>1, SearchType
  <2> HIDE DEF buf, ip
  <2> QED
    BY <1>1, <1>2, <1>4, <2>2, <2>3, <2>4, ProcessingKeeps
<1> QED
  BY <1>5, <1>6

\* Sending the answer (sink.c:220-234).
LEMMA SendKeeps ==
  ASSUME IInv, NEW c \in ConnIds, NEW peer \in PeersAfterSend(conns[c].peer), Send(c, peer)
  PROVE  IInv'
<1> USE DEF IInv
<1> DEFINE r == [conns[c] EXCEPT !.peer = peer]
<1>1. UNCHANGED <<sock_list, routes, resources, sendbuf, sent, heardOn>>
  BY DEF Send, tables
<1>2. conns \in Seq(Connection) /\ conns[c] \in Connection
  BY ConnectionAt DEF TypeOK
<1>3. r \in Connection
  BY <1>2 DEF Connection, PeersAfterSend
<1>4. conns' = [conns EXCEPT ![c] = r]
  BY DEF Send
<1>5. conns' \in Seq(Connection)
  BY <1>2, <1>3, <1>4, ConnectionChange
<1>6. ScanType /\ recvbuf' = <<>> /\ send_sock' = 0
  BY ScanOnStep DEF Send
<1>7. recvbuf' \in Seq(TerminalPdus)
  BY <1>6, EmptySeq
<1>8. TypeOK'
  BY <1>1, <1>5, <1>6, <1>7 DEF TypeOK, ScanType
<1>9. TablesOK'
  BY <1>1 DEF TablesOK
<1>10. ServingOK'
  BY <1>6 DEF ServingOK, newsock, ScanType
<1> QED
  BY <1>8, <1>9, <1>10

\* The failure of send, which ends the sink (sink.c:222-226).
LEMMA SendFailsKeeps ==
  ASSUME IInv, SendFails
  PROVE  IInv'
<1> USE DEF IInv
<1>1. /\ UNCHANGED <<sock_list, routes, resources, i, readfds, recvbuf, send_sock, sendbuf,
                     conns, sent, lastSend, heardOn>>
      /\ pc = "send" /\ pc' = "exit"
  BY DEF SendFails, tables, call, network, history
<1>2. TypeOK'
  BY <1>1 DEF TypeOK
<1>3. TablesOK' /\ ServingOK'
  BY <1>1 DEF TablesOK, ServingOK
<1> QED
  BY <1>2, <1>3

-----------------------------------------------------------------------------
\* The state before the loop satisfies the inductive invariant.
LEMMA InitInv == Init => IInv
<1> SUFFICES ASSUME Init
             PROVE  IInv
  OBVIOUS
<1> USE DEF Init
<1>1. sock_list \in [num : Int, sock_array : [Slots -> Fds \cup {0}]]
  BY DEF init_list
<1>2. routes \in RouteTables /\ RouteTableOK(routes)
  BY RouteTableAssumption
     DEF EmptyRouteTable, RouteTables, RouteTableOK, RoutePrefix, RouteUnique, RouteBounded,
         RouteSockets, RouteUsed, RouteSlots
<1>3. resources \in ResourceTables /\ ResourceTableOK(resources)
  BY ResourceTableAssumption
     DEF EmptyResourceTable, ResourceTables, ResourceTableOK, ResourceUsed, ResourceSlots
<1>4. TypeOK
  BY <1>1, <1>2, <1>3, EmptySeq DEF TypeOK
<1> QED
  BY <1>2, <1>3, <1>4 DEF IInv, TablesOK, ServingOK

\* Every step of the sink or of its environment keeps the inductive invariant:
\* one case per action.
LEMMA StepInv == IInv /\ [Next]_vars => IInv'
<1> SUFFICES ASSUME IInv, [Next]_vars
             PROVE  IInv'
  OBVIOUS
<1>1. CASE UNCHANGED vars
  BY <1>1 DEF vars, tables, loop, call, network, history, IInv, TypeOK, TablesOK, ServingOK,
              newsock, ConnOf, Accepted, ConnIds
<1>2. CASE SinkStep
  BY <1>2, SelectKeeps, AcceptKeeps, AcceptFailsKeeps, RecvDataKeeps, RecvEndsKeeps,
     RoutingCasesKeep, ReadingCasesKeep, SendKeeps, SendFailsKeeps DEF SinkStep, pdu_process
<1>3. CASE Environment
  BY <1>3, ConnectKeeps, TerminalSendKeeps, TerminalLeavesKeeps DEF Environment
<1> QED
  BY <1>1, <1>2, <1>3 DEF Next

\* In every behaviour of the sink every variable keeps its type, whatever
\* the terminals send and the network does.
THEOREM TypeCorrect == Spec => []TypeOK
<1>1. IInv => TypeOK
  BY DEF IInv
<1> QED
  BY InitInv, StepInv, <1>1, PTL DEF Spec

\* In every behaviour of the sink the two tables keep the shape that makes
\* every pointer a look-up dereferences a valid one.
THEOREM TablesCorrect == Spec => []TablesOK
<1>1. IInv => TablesOK
  BY DEF IInv
<1> QED
  BY InitInv, StepInv, <1>1, PTL DEF Spec
-----------------------------------------------------------------------------
(***************************************************************************)
(* The list of sockets.                                                    *)
(***************************************************************************)

\* Every socket is in one slot, and they are counted.
ListInOrder(list) ==
  /\ \A k \in Slots : list.sock_array[k] # 0 => SlotsOf(list.sock_array[k], list) = {k}
  /\ list.num = Cardinality(Slots \ SlotsOf(0, list))

\* The positions of the array can be counted.
LEMMA SlotsAreFinite == \A S \in SUBSET Slots : IsFiniteSet(S)
<1>1. IsFiniteSet(Slots)
  BY FS_Interval, SockListAssumption DEF Slots
<1> QED
  BY <1>1, FS_Subset

\* insert_list adds a socket that is not in the list, or drops it.
LEMMA InsertListKeeps ==
  ASSUME NEW list \in SockLists, ListInOrder(list), NEW s \in Fds, SlotsOf(s, list) = {}
  PROVE  /\ ListInOrder(insert_list(s, list))
         /\ \A k \in Slots : insert_list(s, list).sock_array[k] \in {list.sock_array[k], s}
         /\ Listed(list) \subseteq Listed(insert_list(s, list))
<1> DEFINE free == SlotsOf(0, list)
           new == insert_list(s, list)
<1>1. CASE free = {}
  BY <1>1 DEF insert_list
<1>2. CASE free # {}
  <2> DEFINE k == Min(free)
  <2>1. k \in free /\ k \in Slots /\ list.sock_array[k] = 0
    BY <1>2, SlotsMin DEF SlotsOf
  <2>2. s \in Nat /\ s # 0
    BY FdsAreNat
  <2>3. /\ new.num = list.num + 1
        /\ \A m \in Slots : new.sock_array[m] = IF m = k THEN s ELSE list.sock_array[m]
    BY <1>2, <2>1 DEF insert_list, SockLists
  <2> HIDE DEF new, k
  <2>4. \A m \in Slots : m # k => list.sock_array[m] # s
    BY DEF SlotsOf
  <2>5. ASSUME NEW m \in Slots, new.sock_array[m] # 0
        PROVE  SlotsOf(new.sock_array[m], new) = {m}
    <3>1. CASE m = k
      BY <2>1, <2>3, <2>4, <3>1 DEF SlotsOf
    <3>2. CASE m # k
      <4>1. new.sock_array[m] = list.sock_array[m] /\ list.sock_array[m] # s
        BY <2>3, <2>4, <3>2
      <4>2. SlotsOf(list.sock_array[m], list) = {m}
        BY <2>5, <4>1 DEF ListInOrder
      <4> QED
        BY <2>3, <3>2, <4>1, <4>2 DEF SlotsOf
    <3> QED
      BY <3>1, <3>2
  <2>6. Slots \ SlotsOf(0, new) = (Slots \ free) \cup {k} /\ k \notin Slots \ free
    BY <2>1, <2>2, <2>3 DEF SlotsOf
  <2>7. Cardinality(Slots \ SlotsOf(0, new)) = Cardinality(Slots \ free) + 1
    <3>1. IsFiniteSet(Slots \ free)
      BY SlotsAreFinite
    <3> QED
      BY <2>6, <3>1, FS_AddElement
  <2>8. ListInOrder(new)
    BY <2>3, <2>5, <2>7 DEF ListInOrder
  <2>9. Listed(list) \subseteq Listed(new)
    BY <2>1, <2>3 DEF Listed
  <2> QED
    BY <2>3, <2>8, <2>9 DEF new
<1> QED
  BY <1>1, <1>2

\* delete_list removes a socket that is in the list, and no other.
LEMMA DeleteListKeeps ==
  ASSUME NEW list \in SockLists, ListInOrder(list), NEW k \in Slots, NEW s \in Fds,
         list.sock_array[k] = s
  PROVE  /\ ListInOrder(delete_list(s, list))
         /\ \A m \in Slots : delete_list(s, list).sock_array[m] =
              IF m = k THEN 0 ELSE list.sock_array[m]
<1> DEFINE new == delete_list(s, list)
           free == SlotsOf(0, list)
<1>1. s \in Nat /\ s # 0
  BY FdsAreNat
<1>2. SlotsOf(s, list) = {k}
  BY <1>1 DEF ListInOrder
<1>3. Min(SlotsOf(s, list)) = k
  BY <1>2, SlotsMin
<1>4. /\ new.num = list.num - 1
      /\ \A m \in Slots : new.sock_array[m] = IF m = k THEN 0 ELSE list.sock_array[m]
  BY <1>2, <1>3 DEF delete_list, SockLists
<1> HIDE DEF new
<1>5. ASSUME NEW m \in Slots, new.sock_array[m] # 0
      PROVE  SlotsOf(new.sock_array[m], new) = {m}
  <2>1. m # k /\ new.sock_array[m] = list.sock_array[m]
    BY <1>4, <1>5
  <2>2. SlotsOf(list.sock_array[m], list) = {m}
    BY <1>5, <2>1 DEF ListInOrder
  <2> QED
    BY <1>4, <1>5, <2>1, <2>2 DEF SlotsOf
<1>6. Slots \ SlotsOf(0, new) = (Slots \ free) \ {k} /\ k \in Slots \ free
  BY <1>1, <1>4 DEF SlotsOf
<1>7. Cardinality(Slots \ SlotsOf(0, new)) = Cardinality(Slots \ free) - 1
  <2>1. IsFiniteSet(Slots \ free)
    BY SlotsAreFinite
  <2> QED
    BY <1>6, <2>1, FS_RemoveElement
<1> QED
  BY <1>4, <1>5, <1>7 DEF ListInOrder, new

-----------------------------------------------------------------------------
(***************************************************************************)
(* The connections.                                                        *)
(***************************************************************************)

\* A connection that was accepted has a descriptor, no two that are open have
\* the same, and one that is closed is one whose terminal has left.
SocketsOK ==
  /\ \A c \in ConnIds : conns[c].state # "queued" => conns[c].fd \in Fds
  /\ \A c, d \in Accepted : conns[c].fd = conns[d].fd => c = d
  /\ \A c \in ConnIds : conns[c].state = "closed" => conns[c].peer # "up"

NetInv == IInv /\ SocketsOK /\ SocketListOK

\* A step that accepts and closes no connection.
Settled ==
  /\ sock_list' = sock_list
  /\ \A c \in ConnIds : /\ c \in ConnIds'
                        /\ conns'[c].ip = conns[c].ip /\ conns'[c].fd = conns[c].fd
                        /\ conns'[c].state = conns[c].state
                        /\ conns[c].peer # "up" => conns'[c].peer # "up"
  /\ \A c \in ConnIds' : c \notin ConnIds => conns'[c].state = "queued"

\* The step that accepts connection c under descriptor f.
Accepts(c, f) ==
  /\ c \in Queued /\ f \in FreeFds /\ ConnIds' = ConnIds
  /\ \A d \in ConnIds : d # c => conns'[d] = conns[d]
  /\ conns'[c].state = "accepted" /\ conns'[c].fd = f
  /\ conns'[c].ip = conns[c].ip /\ conns'[c].peer = conns[c].peer /\ conns'[c].in = conns[c].in
  /\ sock_list' = insert_list(f, sock_list)

\* The step that closes connection c, whose socket is served.
Closes(c) ==
  /\ pc = "serve" /\ c \in Accepted /\ conns[c].fd = newsock /\ conns[c].peer # "up"
  /\ ConnIds' = ConnIds
  /\ \A d \in ConnIds : d # c => conns'[d] = conns[d]
  /\ conns'[c].state = "closed" /\ conns'[c].fd = conns[c].fd
  /\ conns'[c].ip = conns[c].ip /\ conns'[c].peer = conns[c].peer /\ conns'[c].in = conns[c].in
  /\ sock_list' = delete_list(newsock, sock_list)

\* A change of one connection.
LEMMA OneChanges ==
  ASSUME conns \in Seq(Connection), NEW c \in ConnIds, NEW r,
         conns' = [conns EXCEPT ![c] = r]
  PROVE  /\ ConnIds' = ConnIds /\ conns'[c] = r
         /\ \A d \in ConnIds : d # c => conns'[d] = conns[d]
BY DEF ConnIds

\* accept takes the connection that waited longest, under the lowest free
\* descriptor.
LEMMA AcceptAccepts ==
  ASSUME IInv, Accept
  PROVE  Accepts(Min(Queued), Min(FreeFds))
<1> USE DEF IInv
<1> DEFINE c == Min(Queued)
           f == Min(FreeFds)
           r == [conns[c] EXCEPT !.state = "accepted", !.fd = f]
<1>1. c \in Queued /\ c \in ConnIds
  <2>1. Queued \in SUBSET Nat /\ Queued # {}
    BY ConnectionAt DEF Queued, Accept, TypeOK
  <2> QED
    BY <2>1, MinIsLeast DEF Queued
<1>2. f \in FreeFds
  <2>1. FreeFds \in SUBSET Nat /\ FreeFds # {}
    BY FdsAreNat DEF FreeFds, Accept
  <2> QED
    BY <2>1, MinIsLeast
<1>3. conns \in Seq(Connection) /\ conns[c] \in Connection
  BY <1>1, ConnectionAt DEF TypeOK
<1>4. conns' = [conns EXCEPT ![c] = r]
  BY <1>1, <1>3 DEF Accept, Connection
<1>5. /\ r.state = "accepted" /\ r.fd = f /\ r.ip = conns[c].ip
      /\ r.peer = conns[c].peer /\ r.in = conns[c].in
  BY <1>3 DEF Connection
<1>6. sock_list' = insert_list(f, sock_list)
  BY DEF Accept
<1> HIDE DEF r
<1>7. /\ ConnIds' = ConnIds /\ conns'[c] = r
      /\ \A d \in ConnIds : d # c => conns'[d] = conns[d]
  BY <1>1, <1>3, <1>4, OneChanges
<1> QED
  BY <1>1, <1>2, <1>5, <1>6, <1>7 DEF Accepts

\* recv ends for a connection whose terminal has left.
LEMMA RecvEndsCloses ==
  ASSUME IInv, NEW c \in ConnIds, RecvEnds(c)
  PROVE  Closes(c)
<1> USE DEF IInv
<1> DEFINE r == [conns[c] EXCEPT !.state = "closed"]
<1>1. conns \in Seq(Connection) /\ conns[c] \in Connection
  BY ConnectionAt DEF TypeOK
<1>2. /\ pc = "serve" /\ c \in Accepted /\ conns[c].fd = newsock /\ conns[c].peer # "up"
      /\ conns' = [conns EXCEPT ![c] = r] /\ sock_list' = delete_list(newsock, sock_list)
  BY DEF RecvEnds, ConnOf
<1>3. /\ r.state = "closed" /\ r.fd = conns[c].fd /\ r.ip = conns[c].ip
      /\ r.peer = conns[c].peer /\ r.in = conns[c].in
  BY <1>1 DEF Connection
<1> HIDE DEF r
<1>4. /\ ConnIds' = ConnIds /\ conns'[c] = r
      /\ \A d \in ConnIds : d # c => conns'[d] = conns[d]
  BY <1>1, <1>2, OneChanges
<1> QED
  BY <1>2, <1>3, <1>4 DEF Closes

\* A change of one connection that is neither of these.
LEMMA ChangeSettles ==
  ASSUME IInv, UNCHANGED sock_list, NEW c \in ConnIds, NEW r, conns' = [conns EXCEPT ![c] = r],
         r.state = conns[c].state, r.fd = conns[c].fd, r.ip = conns[c].ip,
         conns[c].peer # "up" => r.peer # "up"
  PROVE  Settled
<1>1. conns \in Seq(Connection)
  BY DEF IInv, TypeOK
<1> QED
  BY <1>1, OneChanges DEF Settled

\* The network accepts and closes nothing.
LEMMA EnvironmentSettles ==
  ASSUME IInv, Environment
  PROVE  Settled
<1> USE DEF IInv
<1>1. ASSUME NEW c \in ConnIds
      PROVE  conns[c] \in Connection
  BY ConnectionAt DEF TypeOK
<1>2. ASSUME NEW ip \in Ips, Connect(ip)
      PROVE  Settled
  <2> DEFINE r == [ip |-> ip, state |-> "queued", fd |-> 0, peer |-> "up", in |-> <<>>]
  <2>1. /\ conns' = Append(conns, r) /\ conns \in Seq(Connection) /\ sock_list' = sock_list
        /\ r \in Connection /\ r.state = "queued"
    BY <1>2, EmptySeq DEF Connect, TypeOK, Connection
  <2> HIDE DEF r
  <2>2. \A c \in ConnIds : c \in ConnIds' /\ conns'[c] = conns[c]
    BY <2>1, AppendProperties, LenProperties DEF ConnIds
  <2>3. \A c \in ConnIds' : c \notin ConnIds => conns'[c] = r
    BY <2>1, AppendProperties, LenProperties DEF ConnIds
  <2> QED
    BY <2>1, <2>2, <2>3 DEF Settled
<1>3. ASSUME NEW c \in ConnIds, NEW pdu \in TerminalPdus, TerminalSend(c, pdu)
      PROVE  Settled
  <2> DEFINE r == [conns[c] EXCEPT !.in = Append(@, pdu)]
  <2>1. /\ r.state = conns[c].state /\ r.fd = conns[c].fd /\ r.ip = conns[c].ip
        /\ r.peer = conns[c].peer
    BY <1>1 DEF Connection
  <2>2. conns' = [conns EXCEPT ![c] = r] /\ sock_list' = sock_list
    BY <1>3 DEF TerminalSend
  <2> QED
    BY <2>1, <2>2, ChangeSettles
<1>4. ASSUME NEW c \in ConnIds, NEW how \in Departures, TerminalLeaves(c, how)
      PROVE  Settled
  <2> DEFINE r == [conns[c] EXCEPT !.peer = how]
  <2>1. /\ r.state = conns[c].state /\ r.fd = conns[c].fd /\ r.ip = conns[c].ip
        /\ conns[c].peer = "up"
    BY <1>1, <1>4 DEF Connection, TerminalLeaves
  <2>2. conns' = [conns EXCEPT ![c] = r] /\ sock_list' = sock_list
    BY <1>4 DEF TerminalLeaves
  <2> QED
    BY <2>1, <2>2, ChangeSettles
<1> QED
  BY <1>2, <1>3, <1>4 DEF Environment

\* Nor does a recv that returns data,
LEMMA RecvDataSettles ==
  ASSUME IInv, NEW c \in ConnIds, NEW n \in 1 .. Len(conns[c].in), RecvData(c, n)
  PROVE  Settled
<1>1. conns[c] \in Connection
  BY ConnectionAt DEF IInv, TypeOK
<1> DEFINE r == [conns[c] EXCEPT !.in = SubSeq(@, n + 1, Len(@))]
<1>2. /\ r.state = conns[c].state /\ r.fd = conns[c].fd /\ r.ip = conns[c].ip
      /\ r.peer = conns[c].peer
  BY <1>1 DEF Connection
<1>3. conns' = [conns EXCEPT ![c] = r] /\ sock_list' = sock_list
  BY DEF RecvData
<1> QED
  BY <1>2, <1>3, ChangeSettles

\* nor a send.
LEMMA SendSettles ==
  ASSUME IInv, NEW c \in ConnIds, NEW peer \in PeersAfterSend(conns[c].peer), Send(c, peer)
  PROVE  Settled
<1>1. conns[c] \in Connection
  BY ConnectionAt DEF IInv, TypeOK
<1> DEFINE r == [conns[c] EXCEPT !.peer = peer]
<1>2. /\ r.state = conns[c].state /\ r.fd = conns[c].fd /\ r.ip = conns[c].ip
      /\ r.peer = peer
  BY <1>1 DEF Connection
<1>3. conns[c].peer # "up" => peer # "up"
  BY DEF PeersAfterSend
<1>4. conns' = [conns EXCEPT ![c] = r] /\ sock_list' = sock_list
  BY DEF Send
<1> QED
  BY <1>2, <1>3, <1>4, ChangeSettles

\* The only steps that accept or close a connection.
LEMMA OtherSteps ==
  ASSUME IInv, [Next]_vars
  PROVE  Settled \/ Accept \/ \E c \in ConnIds : RecvEnds(c)
<1>1. ASSUME UNCHANGED <<sock_list, conns>>
      PROVE  Settled
  BY <1>1 DEF Settled, ConnIds
<1>2. ASSUME Select \/ AcceptFails \/ pdu_process \/ SendFails \/ UNCHANGED vars
      PROVE  Settled
  BY <1>1, <1>2
     DEF Select, AcceptFails, SendFails, pdu_process, ProcessInvalid, ProcessPeriodic, ProcessEcho,
         ProcessReadingOnly, ProcessFusion, ProcessForward, ProcessNoCase, Processing, network, vars
<1> QED
  BY <1>2, EnvironmentSettles, RecvDataSettles, SendSettles DEF Next, SinkStep

\* The descriptors of the open connections.
OpenFds == {conns[c].fd : c \in Accepted}

\* A descriptor is open when it stands for a connection.
LEMMA OpenHasConn == \A fd : ConnOf(fd) # {} <=> fd \in OpenFds
BY DEF ConnOf, OpenFds

\* What these three kinds of steps do to the open connections.
LEMMA SettledSockets ==
  ASSUME Settled
  PROVE  Accepted' = Accepted /\ OpenFds' = OpenFds
<1>1. Accepted' = Accepted
  BY DEF Settled, Accepted
<1>2. \A c \in Accepted : conns'[c].fd = conns[c].fd
  BY DEF Settled, Accepted
<1> QED
  BY <1>1, <1>2 DEF OpenFds

\* Accepting opens one more descriptor.
LEMMA AcceptedSockets ==
  ASSUME NEW c, NEW f, Accepts(c, f)
  PROVE  /\ Accepted' = Accepted \cup {c}
         /\ \A d \in Accepted : conns'[d] = conns[d] /\ d # c
         /\ OpenFds' = OpenFds \cup {f}
<1>1. c \in ConnIds /\ conns[c].state = "queued"
  BY DEF Accepts, Queued
<1>2. Accepted' = Accepted \cup {c}
  BY <1>1 DEF Accepts, Accepted
<1>3. \A d \in Accepted : conns'[d] = conns[d] /\ d # c
  BY <1>1 DEF Accepts, Accepted
<1>4. conns'[c].fd = f
  BY DEF Accepts
<1> QED
  BY <1>2, <1>3, <1>4 DEF OpenFds

\* Closing leaves the other connections open.
LEMMA ClosedSockets ==
  ASSUME NEW c, Closes(c)
  PROVE  /\ Accepted' = Accepted \ {c}
         /\ \A d \in Accepted : d # c => conns'[d] = conns[d]
<1>1. c \in ConnIds /\ c \in Accepted
  BY DEF Closes, Accepted
<1> QED
  BY <1>1 DEF Closes, Accepted

\* The two halves of SocketListOK.
LEMMA SocketListInOrder == SocketListOK <=>
  /\ ListInOrder(sock_list)
  /\ \A k \in Slots : sock_list.sock_array[k] # 0 => sock_list.sock_array[k] \in OpenFds
BY OpenHasConn DEF SocketListOK, ListInOrder

\* The same two halves of the next state.
LEMMA ListStep ==
  ASSUME ListInOrder(sock_list'),
         \A k \in Slots : sock_list'.sock_array[k] # 0 => sock_list'.sock_array[k] \in OpenFds'
  PROVE  SocketListOK'
BY DEF SocketListOK, ListInOrder, SlotsOf, ConnOf, OpenFds

\* The sockets of the list and of the connections, step by step.
LEMMA NetInvStep ==
  ASSUME NetInv, IInv', Settled \/ Accept \/ \E c \in ConnIds : RecvEnds(c)
  PROVE  NetInv'
<1> USE DEF NetInv
<1>1. sock_list \in SockLists
  BY DEF IInv, TypeOK, SockLists
<1>2. CASE Settled
  <2>1. Accepted' = Accepted /\ OpenFds' = OpenFds
    BY <1>2, SettledSockets
  <2>2. SocketsOK'
    BY <1>2, <2>1 DEF SocketsOK, Settled, Accepted
  <2>3. SocketListOK'
    BY <1>2, <2>1 DEF Settled, SocketListOK, SlotsOf, ConnOf, Accepted
  <2> QED
    BY <2>2, <2>3
<1>3. CASE Accept
  <2>1. PICK c \in Queued, f \in FreeFds : Accepts(c, f)
    BY <1>3, AcceptAccepts DEF Accepts
  <2>2. /\ Accepted' = Accepted \cup {c}
        /\ \A d \in Accepted : conns'[d] = conns[d] /\ d # c
        /\ OpenFds' = OpenFds \cup {f}
    BY <2>1, AcceptedSockets
  <2>3. /\ f \in Fds /\ \A d \in Accepted : conns[d].fd # f
        /\ c \in ConnIds /\ conns'[c].fd = f /\ conns'[c].state = "accepted"
    BY <2>1 DEF FreeFds, Accepts, Queued
  <2>4. SocketsOK'
    <3>1. \A d \in ConnIds' : d \in ConnIds /\ (d # c => conns'[d] = conns[d])
      BY <2>1 DEF Accepts
    <3>2. \A d \in ConnIds' : conns'[d].state # "queued" => conns'[d].fd \in Fds
      BY <2>3, <3>1 DEF SocketsOK
    <3>3. \A d \in ConnIds' : conns'[d].state = "closed" => conns'[d].peer # "up"
      BY <2>3, <3>1 DEF SocketsOK
    <3>4. \A d, e \in Accepted' : conns'[d].fd = conns'[e].fd => d = e
      BY <2>2, <2>3 DEF SocketsOK
    <3> QED
      BY <3>2, <3>3, <3>4 DEF SocketsOK
  <2>5. SocketListOK'
    <3>1. SlotsOf(f, sock_list) = {}
      <4>1. ASSUME NEW k \in Slots, sock_list.sock_array[k] = f
            PROVE  FALSE
        <5>1. f \in OpenFds
          BY <2>3, <4>1, FdsAreNat, SocketListInOrder
        <5> QED
          BY <2>3, <5>1 DEF OpenFds
      <4> QED
        BY <4>1 DEF SlotsOf
    <3>2. /\ ListInOrder(sock_list') /\ sock_list' = insert_list(f, sock_list)
          /\ \A k \in Slots : sock_list'.sock_array[k] \in {sock_list.sock_array[k], f}
      BY <1>1, <2>1, <2>3, <3>1, InsertListKeeps, SocketListInOrder DEF Accepts
    <3>3. \A k \in Slots : sock_list'.sock_array[k] # 0 => sock_list'.sock_array[k] \in OpenFds'
      BY <2>2, <3>2, SocketListInOrder
    <3> QED
      BY <3>2, <3>3, ListStep
  <2> QED
    BY <2>4, <2>5
<1>4. ASSUME NEW c \in ConnIds, RecvEnds(c)
      PROVE  NetInv'
  <2>1. Closes(c)
    BY <1>4, RecvEndsCloses
  <2>2. Accepted' = Accepted \ {c} /\ \A d \in Accepted : d # c => conns'[d] = conns[d]
    BY <2>1, ClosedSockets
  <2>3. newsock \in Fds /\ i \in Slots /\ sock_list.sock_array[i] = newsock
    BY <2>1, SocketServed DEF Closes, IInv, ServingOK, newsock
  <2>4. SocketsOK'
    <3>1. \A d \in ConnIds' : d \in ConnIds /\ (d # c => conns'[d] = conns[d])
      BY <2>1 DEF Closes
    <3>2. \A d \in ConnIds' : conns'[d].state # "queued" => conns'[d].fd \in Fds
      BY <2>1, <3>1 DEF SocketsOK, Closes, Accepted
    <3>3. \A d \in ConnIds' : conns'[d].state = "closed" => conns'[d].peer # "up"
      BY <2>1, <3>1 DEF SocketsOK, Closes
    <3>4. \A d, e \in Accepted' : conns'[d].fd = conns'[e].fd => d = e
      BY <2>2 DEF SocketsOK
    <3> QED
      BY <3>2, <3>3, <3>4 DEF SocketsOK
  <2>5. SocketListOK'
    <3>1. /\ ListInOrder(sock_list')
          /\ \A k \in Slots :
               sock_list'.sock_array[k] = IF k = i THEN 0 ELSE sock_list.sock_array[k]
      BY <1>1, <2>1, <2>3, DeleteListKeeps, SocketListInOrder DEF Closes
    <3>2. SlotsOf(newsock, sock_list) = {i}
      BY <2>3, FdsAreNat, SocketListInOrder DEF ListInOrder
    <3>3. ASSUME NEW k \in Slots, sock_list'.sock_array[k] # 0
          PROVE  sock_list'.sock_array[k] \in OpenFds'
      <4> DEFINE s == sock_list.sock_array[k]
      <4>1. k # i /\ sock_list'.sock_array[k] = s /\ s # 0
        BY <3>1, <3>3
      <4>2. s # newsock
        BY <3>2, <4>1 DEF SlotsOf
      <4>3. PICK d \in Accepted : conns[d].fd = s
        BY <4>1, SocketListInOrder DEF OpenFds
      <4>4. d # c
        BY <2>1, <4>2, <4>3 DEF Closes
      <4>5. d \in Accepted' /\ conns'[d].fd = s
        BY <2>2, <4>3, <4>4
      <4>6. s \in OpenFds'
        BY <4>5 DEF OpenFds
      <4> QED
        BY <4>1, <4>6
    <3> QED
      BY <3>1, <3>3, ListStep
  <2> QED
    BY <2>4, <2>5
<1> QED
  BY <1>2, <1>3, <1>4

\* Before the loop there is no connection and no socket is listed.
LEMMA NetInvInit == Init => NetInv
<1> SUFFICES ASSUME Init
             PROVE  NetInv
  OBVIOUS
<1>1. ConnIds = {}
  BY DEF Init, ConnIds
<1>2. SocketsOK
  BY <1>1 DEF SocketsOK, Accepted
<1>3. SocketListOK
  <2>1. \A k \in Slots : sock_list.sock_array[k] = 0
    BY DEF Init, init_list
  <2>2. Slots \ SlotsOf(0, sock_list) = {}
    BY <2>1 DEF SlotsOf
  <2>3. sock_list.num = 0
    BY DEF Init, init_list
  <2> QED
    BY <2>1, <2>2, <2>3, FS_EmptySet DEF SocketListOK
<1> QED
  BY <1>2, <1>3, InitInv DEF NetInv

\* Every step keeps the list and the connections together.
LEMMA NetInvNext == NetInv /\ [Next]_vars => NetInv'
BY StepInv, OtherSteps, NetInvStep DEF NetInv

\* The list of sockets holds the descriptors of open connections, each once,
\* and counts them, whatever is accepted, dropped and closed.
THEOREM SocketListCorrect == Spec => []SocketListOK
<1>1. NetInv => SocketListOK
  BY DEF NetInv
<1> QED
  BY NetInvInit, NetInvNext, <1>1, PTL DEF Spec

\* A socket stays in the list until its connection is closed.
Serves == \A fd \in Listed(sock_list) : fd \in Listed(sock_list)' \/ ConnOf(fd)' = {}

\* No step takes the socket of an open connection from the list.
LEMMA ServesStep ==
  ASSUME NetInv, [Next]_vars
  PROVE  Serves
<1> USE DEF NetInv
<1>1. sock_list \in SockLists
  BY DEF IInv, TypeOK, SockLists
<1>2. CASE Settled
  BY <1>2 DEF Settled, Serves
<1>3. CASE Accept
  <2>1. PICK f \in FreeFds : sock_list' = insert_list(f, sock_list)
    BY <1>3, AcceptAccepts DEF Accepts
  <2>2. f \in Fds /\ \A d \in Accepted : conns[d].fd # f
    BY DEF FreeFds
  <2>3. SlotsOf(f, sock_list) = {}
    <3>1. ASSUME NEW k \in Slots, sock_list.sock_array[k] = f
          PROVE  FALSE
      <4>1. f \in OpenFds
        BY <2>2, <3>1, FdsAreNat, SocketListInOrder
      <4> QED
        BY <2>2, <4>1 DEF OpenFds
    <3> QED
      BY <3>1 DEF SlotsOf
  <2>4. Listed(sock_list) \subseteq Listed(sock_list')
    BY <1>1, <2>1, <2>2, <2>3, InsertListKeeps, SocketListInOrder
  <2> QED
    BY <2>4 DEF Serves, Listed
<1>4. ASSUME NEW c \in ConnIds, RecvEnds(c)
      PROVE  Serves
  <2>1. Closes(c)
    BY <1>4, RecvEndsCloses
  <2>2. newsock \in Fds /\ i \in Slots /\ sock_list.sock_array[i] = newsock
    BY <2>1, SocketServed DEF Closes, IInv, ServingOK, newsock
  <2>3. \A k \in Slots : sock_list'.sock_array[k] = IF k = i THEN 0 ELSE sock_list.sock_array[k]
    BY <1>1, <2>1, <2>2, DeleteListKeeps, SocketListInOrder DEF Closes
  <2>4. newsock \notin OpenFds'
    <3>1. Accepted' = Accepted \ {c} /\ \A d \in Accepted : d # c => conns'[d] = conns[d]
      BY <2>1, ClosedSockets
    <3>2. \A d \in Accepted' : conns'[d].fd # newsock
      BY <2>1, <3>1 DEF SocketsOK, Closes
    <3> QED
      BY <3>2 DEF OpenFds
  <2>5. ASSUME NEW fd \in Listed(sock_list)
        PROVE  fd \in Listed(sock_list)' \/ fd = newsock
    <3>1. PICK k \in Slots : sock_list.sock_array[k] = fd /\ fd # 0
      BY DEF Listed
    <3>2. CASE k = i
      BY <2>2, <3>1, <3>2
    <3>3. CASE k # i
      BY <2>3, <3>1, <3>3 DEF Listed
    <3> QED
      BY <3>2, <3>3
  <2>6. ASSUME NEW fd, fd = newsock
        PROVE  ConnOf(fd)' = {}
    BY <2>4, <2>6 DEF OpenFds, ConnOf
  <2> QED
    BY <2>5, <2>6 DEF Serves
<1> QED
  BY <1>2, <1>3, <1>4, OtherSteps

\* A socket leaves the list of served sockets only with its connection, for
\* any number of slots and connections (delete_list with close, sink.c).
THEOREM ServedCorrect == Spec => ServedUntilClosed
<1>1. NetInv /\ [Next]_vars => [Serves]_vars
  BY ServesStep
<1>2. Spec => [][Serves]_vars
  BY NetInvInit, NetInvNext, <1>1, PTL DEF Spec
<1> QED
  BY <1>2 DEF ServedUntilClosed, Serves

-----------------------------------------------------------------------------
(***************************************************************************)
(* The route table as a memory.                                            *)
(***************************************************************************)
Known(rt) == {rt.table[k].ip_string : k \in RouteUsed(rt)}

\* The look-up finds the known addresses, and no other.
LEMMA SearchKnown ==
  ASSUME NEW rt \in RouteTables, RouteTableOK(rt), NEW ip \in Ips
  PROVE  search_route_entry(rt, ip) # 0 <=> ip \in Known(rt)
<1>1. CASE ip \in Known(rt)
  <2>1. PICK k \in RouteUsed(rt) : rt.table[k].ip_string = ip
    BY <1>1 DEF Known
  <2> QED
    BY <1>1, <2>1, SearchFinds
<1>2. CASE ip \notin Known(rt)
  <2>1. RoutesOf(rt, ip) = {}
    BY <1>2 DEF Known, RoutesOf
  <2> QED
    BY <1>2, <2>1 DEF search_route_entry
<1> QED
  BY <1>1, <1>2

\* What is known are addresses.
LEMMA KnownAreIps ==
  ASSUME NEW rt \in RouteTables, RouteTableOK(rt)
  PROVE  Known(rt) \subseteq Ips
BY UsedEntry DEF Known, RouteEntry

\* No more addresses are known than there are entries.
LEMMA KnownAreFew ==
  ASSUME NEW rt \in RouteTables, RouteTableOK(rt)
  PROVE  /\ Cardinality(Known(rt)) \in Nat
         /\ Cardinality(Known(rt)) <= rt.current_entry_num
<1> DEFINE n == rt.current_entry_num
           f == [k \in 1 .. n |-> rt.table[k].ip_string]
<1>1. n \in Nat /\ n <= ROUTE_TABLE_ENTRY_MAXNUM - 1
  BY DEF RouteTables, RouteTableOK, RouteBounded
<1>2. RouteUsed(rt) = 1 .. n
  BY <1>1, RouteTableAssumption DEF RouteUsed, RouteSlots
<1>3. f \in Surjection(1 .. n, Known(rt))
  BY <1>2 DEF Known, Surjection
<1>4. IsFiniteSet(1 .. n) /\ Cardinality(1 .. n) = n
  BY <1>1, FS_Interval
<1>5. IsFiniteSet(Known(rt)) /\ Cardinality(Known(rt)) <= n
  BY <1>3, <1>4, FS_Surjection
<1> QED
  BY <1>5, FS_CardinalityType

\* LearnRoute of a known address replaces its socket; of another one it adds
\* the address, or does nothing when the table is full.
LEMMA LearnEntries ==
  ASSUME NEW rt \in RouteTables, RouteTableOK(rt), NEW ip \in Ips, NEW s \in Nat \ {0}
  PROVE  LET new == LearnRoute(rt, ip, s)
         IN  \/ /\ ip \in Known(rt) /\ Known(new) = Known(rt)
                /\ new.current_entry_num = rt.current_entry_num
                /\ search_route_entry(new, ip) = s
                /\ \A other \in Ips : other # ip =>
                     search_route_entry(new, other) = search_route_entry(rt, other)
             \/ /\ ip \notin Known(rt) /\ ~ RouteFull(rt) /\ Known(new) = Known(rt) \cup {ip}
                /\ search_route_entry(new, ip) = s
                /\ \A other \in Ips : other # ip =>
                     search_route_entry(new, other) = search_route_entry(rt, other)
             \/ ip \notin Known(rt) /\ RouteFull(rt) /\ new = rt
<1> DEFINE new == LearnRoute(rt, ip, s)
<1>1. new \in RouteTables /\ RouteTableOK(new)
  BY LearnKeepsTable
<1>2. CASE search_route_entry(rt, ip) = 0 /\ RouteFull(rt)
  <2>1. ip \notin Known(rt)
    BY <1>2, SearchKnown
  <2>2. new = rt
    BY <1>2 DEF LearnRoute, insert_route_entry
  <2> QED
    BY <1>2, <2>1, <2>2
<1>3. CASE search_route_entry(rt, ip) = 0 /\ ~ RouteFull(rt)
  <2> DEFINE n == rt.current_entry_num
             e == [socket |-> s, ip_string |-> ip]
  <2>1. /\ n + 1 \in RouteSlots /\ n \in Nat
        /\ new = [current_entry_num |-> n + 1, table |-> [rt.table EXCEPT ![n + 1] = e]]
    BY <1>3, RouteFreeSlot DEF LearnRoute, insert_route_entry, RouteTables
  <2>2. /\ RouteUsed(new) = RouteUsed(rt) \cup {n + 1} /\ n + 1 \notin RouteUsed(rt)
        /\ \A q \in RouteUsed(rt) : new.table[q] = rt.table[q]
        /\ new.table[n + 1] = e
    <3>1. /\ new.current_entry_num = n + 1
          /\ \A k \in RouteSlots : new.table[k] = IF k = n + 1 THEN e ELSE rt.table[k]
      BY <2>1 DEF RouteTables
    <3> HIDE DEF new, e
    <3>2. RouteUsed(new) = RouteUsed(rt) \cup {n + 1} /\ n + 1 \notin RouteUsed(rt)
      BY <2>1, <3>1 DEF RouteUsed, RouteSlots
    <3> QED
      BY <2>1, <3>1, <3>2 DEF RouteUsed
  <2> HIDE DEF new
  <2>3. Known(new) = Known(rt) \cup {ip}
    BY <2>2 DEF Known
  <2>4. search_route_entry(new, ip) = s
    BY <1>1, <2>2, SearchFinds
  <2>5. ASSUME NEW other \in Ips, other # ip
        PROVE  search_route_entry(new, other) = search_route_entry(rt, other)
    <3>1. CASE other \in Known(rt)
      <4>1. PICK q \in RouteUsed(rt) : rt.table[q].ip_string = other
        BY <3>1 DEF Known
      <4>2. q \in RouteUsed(new) /\ new.table[q] = rt.table[q]
        BY <2>2, <4>1
      <4> QED
        BY <1>1, <4>1, <4>2, SearchFinds
    <3>2. CASE other \notin Known(rt)
      BY <1>1, <2>3, <2>5, <3>2, SearchKnown
    <3> QED
      BY <3>1, <3>2
  <2>6. ip \notin Known(rt)
    BY <1>3, SearchKnown
  <2> QED
    BY <1>3, <2>3, <2>4, <2>5, <2>6 DEF new
<1>4. CASE search_route_entry(rt, ip) # 0
  <2>1. ip \in Known(rt)
    BY <1>4, SearchKnown
  <2>2. PICK k \in RouteUsed(rt) : rt.table[k].ip_string = ip
    BY <2>1 DEF Known
  <2>3. new = [rt EXCEPT !.table[k].socket = s]
    <3>1. Min(RoutesOf(rt, ip)) = k /\ RoutesOf(rt, ip) # {}
      BY <2>2, SearchFinds
    <3> QED
      BY <1>4, <3>1 DEF LearnRoute, update_route_entry
  <2>4. k \in RouteSlots /\ rt.table[k] \in RouteEntry
    BY <2>2, UsedEntry DEF RouteUsed
  <2>5. /\ new.current_entry_num = rt.current_entry_num
        /\ \A m \in RouteSlots : new.table[m] =
             IF m = k THEN [socket |-> s, ip_string |-> ip] ELSE rt.table[m]
    BY <2>2, <2>3, <2>4 DEF RouteTables, RouteEntry
  <2> HIDE DEF new
  <2>6. RouteUsed(new) = RouteUsed(rt)
    BY <2>5 DEF RouteUsed
  <2>7. \A q \in RouteUsed(rt) : new.table[q].ip_string = rt.table[q].ip_string
    BY <2>2, <2>5 DEF RouteUsed
  <2>8. Known(new) = Known(rt)
    BY <2>6, <2>7 DEF Known
  <2>9. search_route_entry(new, ip) = s
    <3>1. k \in RouteUsed(new) /\ new.table[k].ip_string = ip /\ new.table[k].socket = s
      BY <2>2, <2>4, <2>5, <2>6
    <3> QED
      BY <1>1, <3>1, SearchFinds
  <2>10. ASSUME NEW other \in Ips, other # ip
         PROVE  search_route_entry(new, other) = search_route_entry(rt, other)
    <3>1. CASE other \in Known(rt)
      <4>1. PICK q \in RouteUsed(rt) : rt.table[q].ip_string = other
        BY <3>1 DEF Known
      <4>2. q # k /\ q \in RouteUsed(new) /\ new.table[q] = rt.table[q]
        BY <2>2, <2>5, <2>6, <2>10, <4>1 DEF RouteUsed
      <4> QED
        BY <1>1, <4>1, <4>2, SearchFinds
    <3>2. CASE other \notin Known(rt)
      BY <1>1, <2>8, <3>2, SearchKnown
    <3> QED
      BY <3>1, <3>2
  <2> QED
    BY <2>1, <2>5, <2>8, <2>9, <2>10 DEF new
<1> QED
  BY <1>2, <1>3, <1>4

\* Step II of pdu_process is the only step that changes the routes.
LEMMA RouteSteps ==
  ASSUME IInv, [Next]_vars
  PROVE  \/ UNCHANGED <<routes, heardOn>>
         \/ pc = "process" /\ Learn /\ UNCHANGED conns
BY DEF Next, SinkStep, Environment, pdu_process, Select, Accept, AcceptFails, RecvData, RecvEnds,
       Send, SendFails, Connect, TerminalSend, TerminalLeaves, ProcessInvalid, ProcessPeriodic,
       ProcessEcho, ProcessReadingOnly, ProcessFusion, ProcessForward, ProcessNoCase,
       Processing, tables, history, network, vars

\* The module of the memory counts as this one does.
LEMMA SameCardinality == ASSUME NEW S PROVE Memory!Cardinality(S) = Cardinality(S)
BY DEF Cardinality, Memory!Cardinality

\* The memory, step by step.
LEMMA MemoryInit == Init => Memory!Init
<1> SUFFICES ASSUME Init
             PROVE  Memory!Init
  OBVIOUS
<1>1. RouteUsed(routes) = {}
  BY DEF Init, EmptyRouteTable, RouteUsed, RouteSlots
<1>2. {routes.table[k].ip_string : k \in RouteUsed(routes)} = {}
  BY <1>1
<1> QED
  BY <1>2 DEF RoutesKnown, Memory!Init

\* Every step of the sink is a step of the memory, or leaves it alone.
LEMMA MemoryStep == IInv /\ [Next]_vars => [Memory!Next]_(RoutesKnown(routes))
<1> SUFFICES ASSUME IInv, [Next]_vars
             PROVE  [Memory!Next]_(RoutesKnown(routes))
  OBVIOUS
<1> USE DEF IInv
<1>1. CASE UNCHANGED <<routes, heardOn>>
  BY <1>1 DEF RoutesKnown
<1>2. CASE pc = "process" /\ Learn
  <2> DEFINE ip == pf.src
             s == newsock
             f == RoutesKnown(routes)
             g == RoutesKnown(routes')
  <2>1. /\ ip \in Ips /\ s \in Fds /\ s \in Nat \ {0}
        /\ routes \in RouteTables /\ RouteTableOK(routes) /\ routes' = LearnRoute(routes, ip, s)
        /\ routes' \in RouteTables /\ RouteTableOK(routes')
    BY <1>2, PduAtHand, SocketServed, LearnKeeps DEF Learn, TypeOK, TablesOK
  <2>2. /\ f = [a \in Known(routes) |-> search_route_entry(routes, a)]
        /\ g = [a \in Known(routes') |-> search_route_entry(routes', a)]
        /\ DOMAIN f = Known(routes) /\ Known(routes) \subseteq Ips
    BY <2>1, KnownAreIps DEF RoutesKnown, Known
  <2> HIDE DEF ip, s, f, g
  <2>3. CASE /\ ip \in Known(routes) /\ Known(routes') = Known(routes)
             /\ search_route_entry(routes', ip) = s
             /\ \A other \in Ips : other # ip =>
                  search_route_entry(routes', other) = search_route_entry(routes, other)
    <3>1. g = [f EXCEPT ![ip] = s]
      BY <2>2, <2>3
    <3>2. Memory!Follow(ip, s)
      BY <2>2, <2>3, <3>1 DEF Memory!Follow, f, g
    <3> QED
      BY <2>1, <3>2 DEF Memory!Next
  <2>4. CASE /\ ip \notin Known(routes) /\ ~ RouteFull(routes)
             /\ Known(routes') = Known(routes) \cup {ip}
             /\ search_route_entry(routes', ip) = s
             /\ \A other \in Ips : other # ip =>
                  search_route_entry(routes', other) = search_route_entry(routes, other)
    <3>1. g = [a \in DOMAIN f \cup {ip} |-> IF a = ip THEN s ELSE f[a]]
      BY <2>2, <2>4
    <3>2. Cardinality(DOMAIN f) < ROUTE_TABLE_ENTRY_MAXNUM - 1
      <4>1. /\ Cardinality(Known(routes)) <= routes.current_entry_num
            /\ routes.current_entry_num \in Nat
            /\ routes.current_entry_num < ROUTE_TABLE_ENTRY_MAXNUM - 1
        BY <2>1, <2>4, KnownAreFew, RouteTableAssumption
           DEF RouteTables, RouteTableOK, RouteBounded, RouteFull
      <4>2. Cardinality(Known(routes)) \in Nat
        BY <2>1, KnownAreFew
      <4> QED
        BY <2>2, <4>1, <4>2, RouteTableAssumption
    <3>3. ip \notin DOMAIN f
      BY <2>2, <2>4
    <3>4. Memory!Cardinality(DOMAIN f) < ROUTE_TABLE_ENTRY_MAXNUM - 1
      <4>1. Memory!Cardinality(DOMAIN f) = Cardinality(DOMAIN f)
        BY SameCardinality
      <4> QED
        BY <3>2, <4>1
    <3>5. Memory!Remember(ip, s)
      BY <3>1, <3>3, <3>4, Zenon DEF Memory!Remember, f, g
    <3> QED
      BY <2>1, <3>5 DEF Memory!Next
  <2>5. CASE routes' = routes
    BY <2>5 DEF RoutesKnown
  <2> QED
    BY <2>1, <2>3, <2>4, <2>5, LearnEntries
<1> QED
  BY <1>1, <1>2, RouteSteps

\* The route table is a bounded memory of the socket on which each address
\* was last heard, for every number of entries, addresses and descriptors
\* (step II of pdu_process, route.c).
THEOREM RoutesRemember == Spec => RoutesAreMemory
BY InitInv, StepInv, MemoryInit, MemoryStep, PTL DEF Spec, RoutesAreMemory, Memory!Spec

-----------------------------------------------------------------------------
(***************************************************************************)
(* The route of an address is the connection it was last heard on.         *)
(***************************************************************************)

\* An address was heard on a connection that had been accepted.
HeardOK == \A ip \in Ips : heardOn[ip] # 0 =>
             heardOn[ip] \in ConnIds /\ conns[heardOn[ip]].state # "queued"

RouteInv == NetInv /\ HeardOK /\ RouteFollowsLastHeard

\* A connection that was accepted stays, and keeps its descriptor.
LEMMA DescriptorsStay ==
  ASSUME NetInv, [Next]_vars, NEW c \in ConnIds
  PROVE  /\ c \in ConnIds' /\ conns'[c].ip = conns[c].ip
         /\ conns[c].state # "queued" =>
              conns'[c].state # "queued" /\ conns'[c].fd = conns[c].fd
         /\ conns[c].peer # "up" => conns'[c].peer # "up"
<1> USE DEF NetInv
<1>1. CASE Settled
  BY <1>1 DEF Settled
<1>2. CASE Accept
  BY <1>2, AcceptAccepts DEF Accepts, Queued
<1>3. ASSUME NEW d \in ConnIds, RecvEnds(d)
      PROVE  /\ c \in ConnIds' /\ conns'[c].ip = conns[c].ip
             /\ conns'[c].fd = conns[c].fd /\ conns'[c].peer = conns[c].peer
             /\ conns[c].state # "queued" => conns'[c].state # "queued"
  BY <1>3, RecvEndsCloses DEF Closes
<1> QED
  BY <1>1, <1>2, <1>3, OtherSteps

\* Every step keeps the routes on the connections last heard.
LEMMA RouteInvNext == RouteInv /\ [Next]_vars => RouteInv'
<1> SUFFICES ASSUME RouteInv, [Next]_vars
             PROVE  HeardOK' /\ RouteFollowsLastHeard'
  BY NetInvNext DEF RouteInv
<1> USE DEF RouteInv
<1>1. \A c \in ConnIds : c \in Nat /\ c # 0
  BY ConnectionAt DEF NetInv, IInv, TypeOK
<1>2. CASE UNCHANGED <<routes, heardOn>>
  <2>1. HeardOK'
    BY <1>2, DescriptorsStay DEF HeardOK
  <2>2. RouteFollowsLastHeard'
    <3>1. ASSUME NEW ip \in Ips
          PROVE  /\ search_route_entry(routes, ip) # 0 =>
                      /\ heardOn[ip] \in ConnIds'
                      /\ search_route_entry(routes, ip) = conns'[heardOn[ip]].fd
                 /\ heardOn[ip] # 0 /\ search_route_entry(routes, ip) = 0 => RouteFull(routes)
      BY <1>1, DescriptorsStay DEF RouteFollowsLastHeard, HeardOK
    <3> QED
      BY <1>2, <3>1 DEF RouteFollowsLastHeard
  <2> QED
    BY <2>1, <2>2
<1>3. CASE pc = "process" /\ Learn /\ UNCHANGED conns
  <2> DEFINE src == pf.src
             s == newsock
             c == CHOOSE d \in ConnOf(newsock) : TRUE
  <2>1. /\ src \in Ips /\ s \in Nat \ {0}
        /\ routes \in RouteTables /\ RouteTableOK(routes) /\ routes' = LearnRoute(routes, src, s)
        /\ routes' \in RouteTables /\ RouteTableOK(routes')
        /\ heardOn \in [Ips -> Nat] /\ heardOn' = [heardOn EXCEPT ![src] = c]
    BY <1>3, PduAtHand, SocketServed, LearnKeeps DEF Learn, TypeOK, TablesOK, IInv, NetInv
  <2>2. c \in ConnIds /\ conns[c].state = "accepted" /\ conns[c].fd = s
    <3>1. c \in ConnOf(newsock)
      BY <1>3 DEF NetInv, IInv, ServingOK
    <3> QED
      BY <3>1 DEF ConnOf, Accepted
  <2> HIDE DEF src, s, c
  <2>3. HeardOK'
    BY <1>3, <2>1, <2>2 DEF HeardOK, ConnIds
  <2>4. ASSUME NEW ip \in Ips
        PROVE  /\ search_route_entry(routes', ip) # 0 =>
                    /\ heardOn'[ip] \in ConnIds
                    /\ search_route_entry(routes', ip) = conns[heardOn'[ip]].fd
               /\ heardOn'[ip] # 0 /\ search_route_entry(routes', ip) = 0 => RouteFull(routes')
    <3>1. \/ routes' = routes /\ src \notin Known(routes) /\ RouteFull(routes)
          \/ /\ search_route_entry(routes', src) = s
             /\ ip # src => search_route_entry(routes', ip) = search_route_entry(routes, ip)
             /\ RouteFull(routes) => RouteFull(routes')
      <4>1. CASE RouteFull(routes) /\ src \notin Known(routes)
        BY <2>1, <4>1, LearnEntries
      <4>2. CASE src \in Known(routes)
        BY <2>1, <4>2, LearnEntries DEF RouteFull
      <4>3. CASE src \notin Known(routes) /\ ~ RouteFull(routes)
        BY <2>1, <4>3, LearnEntries
      <4> QED
        BY <4>1, <4>2, <4>3
    <3>2. CASE ip = src
      <4>1. heardOn'[ip] = c
        BY <2>1, <3>2
      <4>2. src \notin Known(routes) => search_route_entry(routes, src) = 0
        BY <2>1, SearchKnown
      <4> QED
        BY <2>1, <2>2, <3>1, <3>2, <4>1, <4>2
    <3>3. CASE ip # src
      <4>1. heardOn'[ip] = heardOn[ip]
        BY <2>1, <3>3
      <4> QED
        BY <3>1, <3>3, <4>1 DEF RouteFollowsLastHeard
    <3> QED
      BY <3>2, <3>3
  <2>5. RouteFollowsLastHeard'
    BY <1>3, <2>4 DEF RouteFollowsLastHeard, ConnIds
  <2> QED
    BY <2>3, <2>5
<1> QED
  BY <1>2, <1>3, RouteSteps DEF NetInv

\* Before the loop nothing was heard.
LEMMA RouteInvInit == Init => RouteInv
<1> SUFFICES ASSUME Init
             PROVE  HeardOK /\ RouteFollowsLastHeard
  BY NetInvInit DEF RouteInv
<1>1. RouteUsed(routes) = {}
  BY DEF Init, EmptyRouteTable, RouteUsed, RouteSlots
<1>2. \A ip \in Ips : search_route_entry(routes, ip) = 0
  BY <1>1 DEF search_route_entry, RoutesOf
<1>3. \A ip \in Ips : heardOn[ip] = 0
  BY DEF Init
<1> QED
  BY <1>2, <1>3 DEF HeardOK, RouteFollowsLastHeard

\* The route of an address is the socket on which it was last heard, whatever
\* is accepted, closed and given out again since, and an address that was
\* heard has no route only when the table is full (step II of pdu_process).
THEOREM RoutesCorrect == Spec => []RouteFollowsLastHeard
<1>1. RouteInv => RouteFollowsLastHeard
  BY DEF RouteInv
<1> QED
  BY RouteInvInit, RouteInvNext, <1>1, PTL DEF Spec

-----------------------------------------------------------------------------
(***************************************************************************)
(* The registered terminals.                                               *)
(***************************************************************************)

\* Two entries describe the same terminal.
SameTerminal(a, b) ==
  /\ a.termID = b.termID /\ a.sen_type = b.sen_type
  /\ a.execute_type = b.execute_type /\ a.ip_string = b.ip_string

\* Table new has the terminals of table rs, and perhaps more behind them.
Extends(new, rs) ==
  /\ ResourceUsed(rs) \subseteq ResourceUsed(new)
  /\ \A k \in ResourceUsed(rs) : SameTerminal(new.table[k], rs.table[k])

\* The entry at a used index is an entry.
LEMMA UsedResource ==
  ASSUME NEW rs \in ResourceTables, ResourceTableOK(rs), NEW k \in ResourceUsed(rs)
  PROVE  rs.table[k] \in ResourceEntry /\ k \in ResourceSlots
BY DEF ResourceTables, ResourceTableOK, ResourceUsed

\* A reading of a known terminal changes its reading only; one of another
\* terminal puts the terminal behind the known ones, or is dropped.
LEMMA RegisterExtends ==
  ASSUME NEW rs \in ResourceTables, ResourceTableOK(rs), NEW e \in ResourceEntry
  PROVE  LET new == RegisterReading(rs, e)
         IN  /\ Extends(new, rs)
             /\ \A k \in ResourceUsed(new) : k \notin ResourceUsed(rs) => new.table[k] = e
<1> DEFINE new == RegisterReading(rs, e)
<1>1. CASE ~ search_id_entry(rs, e.termID) /\ rs.current_entry_num = RESOURCE_TABLE_ENTRY_MAXNUM - 1
  <2>1. new = rs
    BY <1>1 DEF RegisterReading, insert_resource_entry
  <2> QED
    BY <2>1 DEF Extends, SameTerminal
<1>2. CASE ~ search_id_entry(rs, e.termID) /\ rs.current_entry_num # RESOURCE_TABLE_ENTRY_MAXNUM - 1
  <2> DEFINE n == rs.current_entry_num
  <2>1. /\ n + 1 \in ResourceSlots /\ n \in Nat
        /\ new = [current_entry_num |-> n + 1, table |-> [rs.table EXCEPT ![n + 1] = e]]
    BY <1>2, ResourceFreeSlot DEF RegisterReading, insert_resource_entry, ResourceTables
  <2>2. /\ new.current_entry_num = n + 1
        /\ \A k \in ResourceSlots : new.table[k] = IF k = n + 1 THEN e ELSE rs.table[k]
    BY <2>1 DEF ResourceTables
  <2> HIDE DEF new
  <2>3. ResourceUsed(new) = ResourceUsed(rs) \cup {n + 1} /\ n + 1 \notin ResourceUsed(rs)
    BY <2>1, <2>2 DEF ResourceUsed, ResourceSlots
  <2>4. new.table[n + 1] = e /\ \A k \in ResourceUsed(rs) : new.table[k] = rs.table[k]
    BY <2>1, <2>2, <2>3 DEF ResourceUsed
  <2> QED
    BY <2>3, <2>4 DEF Extends, SameTerminal, new
<1>3. CASE search_id_entry(rs, e.termID)
  <2> DEFINE S == ResourcesOf(rs, e.termID)
             k == Min(S)
             r == [rs.table[k] EXCEPT !.data = e.data]
  <2>1. S \in SUBSET Nat /\ S # {}
    BY <1>3 DEF search_id_entry, ResourcesOf, ResourceUsed, ResourceSlots
  <2>2. k \in ResourceUsed(rs) /\ k \in ResourceSlots
    <3>1. k \in S
      BY <2>1, MinIsLeast
    <3> QED
      BY <3>1 DEF ResourcesOf, ResourceUsed
  <2>3. rs.table[k] \in ResourceEntry
    BY <2>2, UsedResource
  <2>4. new = [rs EXCEPT !.table[k].data = e.data]
    BY <1>3 DEF RegisterReading, update_resource_data_entry
  <2>5. /\ new.current_entry_num = rs.current_entry_num
        /\ \A m \in ResourceSlots : new.table[m] = IF m = k THEN r ELSE rs.table[m]
    BY <2>2, <2>4 DEF ResourceTables
  <2>6. SameTerminal(r, rs.table[k])
    BY <2>3 DEF ResourceEntry, SameTerminal
  <2> HIDE DEF new, r, k
  <2>7. ResourceUsed(new) = ResourceUsed(rs)
    BY <2>5 DEF ResourceUsed
  <2>8. \A m \in ResourceUsed(rs) : SameTerminal(new.table[m], rs.table[m])
    <3>1. SUFFICES ASSUME NEW m \in ResourceUsed(rs)
                   PROVE  SameTerminal(new.table[m], rs.table[m])
      OBVIOUS
    <3>2. m \in ResourceSlots
      BY DEF ResourceUsed
    <3>3. CASE m = k
      BY <2>5, <2>6, <3>2, <3>3
    <3>4. CASE m # k
      BY <2>5, <3>2, <3>4 DEF SameTerminal
    <3> QED
      BY <3>3, <3>4
  <2> QED
    BY <2>7, <2>8 DEF Extends, new
<1> QED
  BY <1>1, <1>2, <1>3

\* Reading the values for fusion changes readings only.
LEMMA FusionExtends ==
  ASSUME NEW rs \in ResourceTables, ResourceTableOK(rs)
  PROVE  /\ Extends(ReadForFusion(rs), rs)
         /\ ResourceUsed(ReadForFusion(rs)) = ResourceUsed(rs)
<1> DEFINE new == ReadForFusion(rs)
           read(k) == [rs.table[k] EXCEPT !.data = char_to_int(rs.table[k].data).data]
<1>1. new.current_entry_num = rs.current_entry_num
  BY DEF ReadForFusion, ResourceTables
<1>2. \A k \in ResourceSlots :
        new.table[k] = IF k \in Visited(rs) THEN read(k) ELSE rs.table[k]
  BY DEF ReadForFusion, ResourceTables
<1>3. ASSUME NEW k \in ResourceUsed(rs)
      PROVE  SameTerminal(read(k), rs.table[k])
  <2>1. rs.table[k] \in ResourceEntry
    BY UsedResource
  <2> QED
    BY <2>1 DEF ResourceEntry, SameTerminal
<1> HIDE DEF new, read
<1>4. ResourceUsed(new) = ResourceUsed(rs)
  BY <1>1 DEF ResourceUsed
<1>5. \A k \in ResourceUsed(rs) : SameTerminal(new.table[k], rs.table[k])
  BY <1>2, <1>3 DEF SameTerminal, ResourceUsed
<1> QED
  BY <1>4, <1>5 DEF Extends, new

\* The reading at hand is registered and the values are read for fusion; no
\* other step changes the resource table.
Reads == /\ pc = "process" /\ Learn /\ ForSink
         /\ resources' = ReadForFusion(Registered)

\* The only step that changes the resource table.
LEMMA ResourceSteps ==
  ASSUME [Next]_vars
  PROVE  UNCHANGED resources \/ Reads
BY DEF Next, SinkStep, Environment, pdu_process, Select, Accept, AcceptFails, RecvData, RecvEnds,
       Send, SendFails, Connect, TerminalSend, TerminalLeaves, ProcessInvalid, ProcessPeriodic,
       ProcessEcho, ProcessReadingOnly, ProcessFusion, ProcessForward, ProcessNoCase,
       Processing, tables, vars, Reads

\* What a reading for the sink makes of the resource table.
LEMMA ReadsExtend ==
  ASSUME IInv, Reads
  PROVE  /\ Registered \in ResourceTables /\ ResourceTableOK(Registered)
         /\ Extends(Registered, resources) /\ Extends(resources', Registered)
         /\ ResourceUsed(resources') = ResourceUsed(Registered)
         /\ Extends(resources', resources)
         /\ \A k \in ResourceUsed(resources') : k \notin ResourceUsed(resources) =>
              resources'.table[k].ip_string = pf.src
<1> USE DEF IInv
<1> DEFINE e == parse_resource_pdu(pf.payload)
<1>1. resources \in ResourceTables /\ ResourceTableOK(resources)
  BY DEF TypeOK, TablesOK
<1>2. e \in ResourceEntry /\ e.ip_string = pf.src
  <2>1. e \in ResourceEntry
    BY ReadingIsEntry DEF Reads, ForSink
  <2> QED
    BY <2>1 DEF parse_resource_pdu
<1> HIDE DEF e
<1>3. Registered = RegisterReading(resources, e)
  BY DEF Registered, e
<1>4. /\ Registered \in ResourceTables /\ ResourceTableOK(Registered)
      /\ Extends(Registered, resources)
      /\ \A k \in ResourceUsed(Registered) :
           k \notin ResourceUsed(resources) => Registered.table[k] = e
  BY <1>1, <1>2, <1>3, RegisterKeepsResources, RegisterExtends
<1>5. /\ Extends(resources', Registered)
      /\ ResourceUsed(resources') = ResourceUsed(Registered)
  BY <1>4, FusionExtends DEF Reads
<1>6. Extends(resources', resources)
  BY <1>4, <1>5 DEF Extends, SameTerminal
<1>7. \A k \in ResourceUsed(resources') : k \notin ResourceUsed(resources) =>
        resources'.table[k].ip_string = pf.src
  BY <1>2, <1>4, <1>5 DEF Extends, SameTerminal
<1> QED
  BY <1>4, <1>5, <1>6, <1>7

\* The next state has the terminals of this one.
LEMMA TerminalsStay == IInv /\ [Next]_vars => Extends(resources', resources)
<1>1. UNCHANGED resources => Extends(resources', resources)
  BY DEF Extends, SameTerminal
<1> QED
  BY <1>1, ResourceSteps, ReadsExtend

Permanent == \A k \in ResourceUsed(resources) :
               /\ k \in ResourceUsed(resources')
               /\ \A f \in {"termID", "sen_type", "execute_type", "ip_string"} :
                    resources'.table[k][f] = resources.table[k][f]

\* The same, field by field.
LEMMA PermanentStep == IInv /\ [Next]_vars => [Permanent]_vars
<1> SUFFICES ASSUME IInv, [Next]_vars, NEW k \in ResourceUsed(resources)
             PROVE  /\ k \in ResourceUsed(resources')
                    /\ \A f \in {"termID", "sen_type", "execute_type", "ip_string"} :
                         resources'.table[k][f] = resources.table[k][f]
  BY DEF Permanent
<1>1. IInv'
  BY StepInv
<1>2. k \in ResourceUsed(resources') /\ SameTerminal(resources'.table[k], resources.table[k])
  BY TerminalsStay DEF Extends
<1>3. resources.table[k] \in ResourceEntry
  BY UsedResource DEF IInv, TypeOK, TablesOK
<1>4. resources'.table[k] \in ResourceEntry
  BY <1>1, <1>2, UsedResource DEF IInv, TypeOK, TablesOK
<1> QED
  BY <1>2, <1>3, <1>4 DEF SameTerminal, ResourceEntry

\* A registered terminal stays registered at its index, with its sensor, its
\* executor and its address, for every size of the table (resource.c).
THEOREM RegistrationStays == Spec => RegistrationIsPermanent
<1>1. Spec => [][Permanent]_vars
  BY InitInv, StepInv, PermanentStep, PTL DEF Spec
<1> QED
  BY <1>1 DEF RegistrationIsPermanent, Permanent

-----------------------------------------------------------------------------
(***************************************************************************)
(* What is sent.                                                           *)
(***************************************************************************)

\* A case of pdu_process other than the fusion answers with a PDU of its own
\* making, or with recvbuf.
AnswersItself == \/ sendbuf' = make_sendbuf(AP_IP, pf.src, PDU_TYPE_PERIODICALLY, <<49, 48, 48>>)
                 \/ pf.type = PDU_TYPE_M2M /\ sendbuf' = recvbuf

\* Where sendbuf and the record of the last send change.
LEMMA MessageSteps ==
  ASSUME [Next]_vars
  PROVE  \/ UNCHANGED <<sendbuf, lastSend>>
         \/ pc = "process" /\ UNCHANGED lastSend /\ AnswersItself
         \/ UNCHANGED lastSend /\ ProcessFusion
         \/ /\ pc = "send" /\ UNCHANGED sendbuf
            /\ \E c \in ConnIds : lastSend' = [conn |-> c, msg |-> sendbuf]
<1>1. CASE UNCHANGED vars
  BY <1>1 DEF vars, call, history
<1>2. CASE Environment
  BY <1>2 DEF Environment, Connect, TerminalSend, TerminalLeaves, call, history
<1>3. CASE pdu_process
  <2>1. CASE ProcessInvalid \/ ProcessReadingOnly
    BY <2>1 DEF ProcessInvalid, ProcessReadingOnly, Processing, Ignore
  <2>2. CASE ProcessPeriodic \/ ProcessEcho \/ ProcessForward
    BY <2>2 DEF ProcessPeriodic, ProcessEcho, ProcessForward, ToOther, Processing, Ignore, Answer,
                AnswersItself
  <2>3. CASE ProcessNoCase
    BY <2>3 DEF ProcessNoCase, Processing, Ignore, Answer
  <2>4. ASSUME ProcessFusion
        PROVE  UNCHANGED lastSend
    BY <2>4 DEF ProcessFusion, Processing
  <2> QED
    BY <1>3, <2>1, <2>2, <2>3, <2>4 DEF pdu_process
<1>4. CASE Select \/ Accept \/ AcceptFails \/ SendFails
  BY <1>4 DEF Select, Accept, AcceptFails, SendFails, call, history
<1>5. ASSUME NEW c \in ConnIds, NEW n \in 1 .. Len(conns[c].in), RecvData(c, n)
      PROVE  UNCHANGED <<sendbuf, lastSend>>
  BY <1>5 DEF RecvData, history
<1>6. ASSUME NEW c \in ConnIds, RecvEnds(c)
      PROVE  UNCHANGED <<sendbuf, lastSend>>
  BY <1>6 DEF RecvEnds, call, history
<1>7. ASSUME NEW c \in ConnIds, NEW peer \in PeersAfterSend(conns[c].peer), Send(c, peer)
      PROVE  /\ pc = "send" /\ UNCHANGED sendbuf
             /\ lastSend' = [conn |-> c, msg |-> sendbuf]
  BY <1>7 DEF Send
<1> QED
  BY <1>1, <1>2, <1>3, <1>4, <1>5, <1>6, <1>7 DEF Next, SinkStep

\* A message that is a command of the sink is justified by the terminals of
\* table rs.
Justified(msg, rs) ==
  msg # <<>> =>
    LET m == Head(msg)
    IN  m.src = AP_IP /\ m.type = PDU_TYPE_APPLICATION
          => /\ CanFuse(rs)
             /\ \E k \in Executors(rs, LED_EXECUTE_TYPE) : rs.table[k].ip_string = m.des

\* The contents of sendbuf stay until the next answer, which the case without
\* a return can send once more: they stay justified as long.
CommandInv == IInv /\ Justified(sendbuf, resources) /\ Justified(lastSend.msg, resources)

\* More terminals justify more.
LEMMA MoreTerminals ==
  ASSUME NEW rs, NEW new, Extends(new, rs)
  PROVE  /\ CanFuse(rs) => CanFuse(new)
         /\ \A type : \A k \in Executors(rs, type) :
              k \in Executors(new, type) /\ new.table[k].ip_string = rs.table[k].ip_string
<1>1. ASSUME NEW type
      PROVE  Sensors(rs, type) \subseteq Sensors(new, type)
  BY DEF Extends, SameTerminal, Sensors
<1>2. CanFuse(rs) => CanFuse(new)
  BY <1>1 DEF CanFuse
<1> QED
  BY <1>2 DEF Extends, SameTerminal, Executors

\* What was justified stays so while terminals are added.
LEMMA StaysJustified ==
  ASSUME NEW rs, NEW new, Extends(new, rs), NEW msg, Justified(msg, rs)
  PROVE  Justified(msg, new)
BY MoreTerminals DEF Justified

\* The command that a fusion sends.
LEMMA FusionJustified ==
  ASSUME IInv, ProcessFusion
  PROVE  Justified(sendbuf', resources')
<1> DEFINE ex  == search_ip_entry(Registered, LED_EXECUTE_TYPE)
           ip  == Registered.table[ex].ip_string
           fre == cooperative_control(data_fusion(sensor_mean_data(Registered)))
           m   == [src |-> AP_IP, des |-> ip, length |-> Len(<<1, fre>>) + PDU_HEADER_LENGTH,
                   type |-> PDU_TYPE_APPLICATION, payload |-> <<1, fre>>]
<1>1. Reads
  BY DEF ProcessFusion, Processing, Reads
<1>2. CanFuse(Registered)
  BY DEF ProcessFusion
<1>3. ex \in Executors(Registered, LED_EXECUTE_TYPE)
  <2>1. Executors(Registered, LED_EXECUTE_TYPE) \in SUBSET Nat
    BY DEF Executors, ResourceUsed, ResourceSlots
  <2>2. Executors(Registered, LED_EXECUTE_TYPE) # {}
    BY DEF ProcessFusion
  <2> QED
    BY <2>1, <2>2, MinIsLeast DEF search_ip_entry
<1>4. sendbuf' = <<m>>
  BY DEF ProcessFusion, Answer, make_sendbuf
<1>5. m.des = ip
  OBVIOUS
<1> HIDE DEF m, ex
<1>6. /\ CanFuse(resources') /\ ex \in Executors(resources', LED_EXECUTE_TYPE)
      /\ resources'.table[ex].ip_string = ip
  BY <1>1, <1>2, <1>3, ReadsExtend, MoreTerminals
<1>7. Head(sendbuf') = m
  BY <1>4
<1> QED
  BY <1>5, <1>6, <1>7 DEF Justified

\* Every step keeps what is sent, and what may be sent again, justified.
LEMMA CommandInvNext == CommandInv /\ [Next]_vars => CommandInv'
<1> SUFFICES ASSUME CommandInv, [Next]_vars
             PROVE  Justified(sendbuf', resources') /\ Justified(lastSend'.msg, resources')
  BY StepInv DEF CommandInv
<1> USE DEF CommandInv
<1>1. Extends(resources', resources)
  BY TerminalsStay
<1>2. Justified(sendbuf, resources') /\ Justified(lastSend.msg, resources')
  BY <1>1, StaysJustified
<1>3. CASE UNCHANGED <<sendbuf, lastSend>>
  BY <1>2, <1>3
<1>4. CASE pc = "process" /\ UNCHANGED lastSend /\ AnswersItself
  <2>1. ASSUME sendbuf' = make_sendbuf(AP_IP, pf.src, PDU_TYPE_PERIODICALLY, <<49, 48, 48>>)
        PROVE  Head(sendbuf').type = PDU_TYPE_PERIODICALLY
    BY <2>1 DEF make_sendbuf
  <2>2. ASSUME sendbuf' = recvbuf, pf.type = PDU_TYPE_M2M
        PROVE  Head(sendbuf').type = PDU_TYPE_M2M
    BY <2>2 DEF pf
  <2>3. Justified(sendbuf', resources')
    BY <1>4, <2>1, <2>2
       DEF AnswersItself, Justified, PDU_TYPE_PERIODICALLY, PDU_TYPE_M2M, PDU_TYPE_APPLICATION
  <2> QED
    BY <1>2, <1>4, <2>3
<1>5. CASE UNCHANGED lastSend /\ ProcessFusion
  BY <1>2, <1>5, FusionJustified
<1>6. ASSUME UNCHANGED sendbuf, NEW c \in ConnIds, lastSend' = [conn |-> c, msg |-> sendbuf]
      PROVE  Justified(sendbuf', resources') /\ Justified(lastSend'.msg, resources')
  BY <1>2, <1>6
<1> QED
  BY <1>3, <1>4, <1>5, <1>6, MessageSteps

\* Before the loop nothing was sent.
LEMMA CommandInvInit == Init => CommandInv
BY InitInv DEF Init, CommandInv, Justified

\* A command goes out only when a sensor of every kind has reported, and it is
\* addressed to a terminal that registered the executor (case 4 of
\* pdu_process), also when an earlier answer is sent once more.
THEOREM CommandsCorrect == Spec => []CommandsAreJustified
<1>1. CommandInv => CommandsAreJustified
  BY DEF CommandInv, Justified, CommandsAreJustified
<1> QED
  BY CommandInvInit, CommandInvNext, <1>1, PTL DEF Spec

-----------------------------------------------------------------------------
(***************************************************************************)
(* Answers reach their source.                                             *)
(***************************************************************************)

\* A connection carries the PDUs of one terminal.
InboxOK == \A c \in ConnIds : \A k \in DOMAIN conns[c].in : conns[c].in[k].src = conns[c].ip

\* The PDU at hand came from the connection served.
AtHandOK == pc = "process" => \A c \in ConnOf(newsock) : conns[c].ip = pf.src

\* Outside send no socket is chosen.
NoSockChosen == pc \in {"send", "exit"} \/ send_sock = 0

\* A message to its own source: the answer to a periodic PDU, or an echo.
Returns(m) == m.type = PDU_TYPE_PERIODICALLY \/ (m.type = PDU_TYPE_M2M /\ m.src = m.des)

\* Such a message is about to go to the connection of its addressee.
AnswerPending ==
  pc = "send" => \A c \in ConnOf(send_sock) :
                   Returns(Head(sendbuf)) => conns[c].ip = Head(sendbuf).des

\* The last message went over a connection.
LastSendOK == lastSend.msg # <<>> => lastSend.conn \in ConnIds

SourceInv == /\ NetInv /\ InboxOK /\ AtHandOK /\ NoSockChosen
             /\ AnswerPending /\ LastSendOK /\ AnswersReachTheirSource

\* Changing what one connection carries.
LEMMA InboxChange ==
  ASSUME conns \in Seq(Connection), InboxOK, NEW c \in ConnIds, NEW r,
         conns' = [conns EXCEPT ![c] = r], r.ip = conns[c].ip,
         \A k \in DOMAIN r.in : r.in[k].src = r.ip
  PROVE  InboxOK'
<1>1. /\ ConnIds' = ConnIds /\ conns'[c] = r
      /\ \A d \in ConnIds : d # c => conns'[d] = conns[d]
  BY OneChanges
<1>2. ASSUME NEW d \in ConnIds, NEW k \in DOMAIN conns'[d].in
      PROVE  conns'[d].in[k].src = conns'[d].ip
  <2>1. CASE d = c
    BY <1>1, <1>2, <2>1
  <2>2. CASE d # c
    BY <1>1, <1>2, <2>2 DEF InboxOK
  <2> QED
    BY <2>1, <2>2
<1> QED
  BY <1>1, <1>2 DEF InboxOK

\* Every step keeps the terminals of what has arrived.
LEMMA InboxStep == NetInv /\ InboxOK /\ [Next]_vars => InboxOK'
<1> SUFFICES ASSUME NetInv, InboxOK, [Next]_vars
             PROVE  InboxOK'
  OBVIOUS
<1> USE DEF NetInv, IInv
<1>1. conns \in Seq(Connection) /\ \A c \in ConnIds : conns[c] \in Connection
  BY ConnectionAt DEF TypeOK
<1>2. CASE UNCHANGED conns
  BY <1>2 DEF InboxOK, ConnIds
<1>3. ASSUME NEW ip \in Ips, Connect(ip)
      PROVE  InboxOK'
  <2> DEFINE r == [ip |-> ip, state |-> "queued", fd |-> 0, peer |-> "up", in |-> <<>>]
  <2>1. conns' = Append(conns, r) /\ r \in Connection /\ DOMAIN r.in = {}
    BY <1>3, EmptySeq DEF Connect, Connection
  <2> HIDE DEF r
  <2>2. \A c \in ConnIds' : conns'[c] = IF c \in ConnIds THEN conns[c] ELSE r
    BY <1>1, <2>1, AppendProperties, LenProperties DEF ConnIds
  <2>3. \A c \in ConnIds' : \A k \in DOMAIN conns'[c].in : conns'[c].in[k].src = conns'[c].ip
    BY <2>1, <2>2 DEF InboxOK
  <2> QED
    BY <2>3 DEF InboxOK
<1>4. ASSUME NEW c \in ConnIds, NEW pdu \in TerminalPdus, TerminalSend(c, pdu)
      PROVE  InboxOK'
  <2> DEFINE in == conns[c].in
             r  == [conns[c] EXCEPT !.in = Append(in, pdu)]
  <2>1. in \in Seq(TerminalPdus) /\ r.in = Append(in, pdu) /\ r.ip = conns[c].ip
    BY <1>1 DEF Connection
  <2>2. conns' = [conns EXCEPT ![c] = r] /\ pdu.src = conns[c].ip
    BY <1>4 DEF TerminalSend
  <2>3. \A k \in DOMAIN Append(in, pdu) :
          Append(in, pdu)[k] = IF k \in DOMAIN in THEN in[k] ELSE pdu
    BY <2>1, AppendProperties, LenProperties
  <2>4. \A k \in DOMAIN in : in[k].src = conns[c].ip
    BY DEF InboxOK
  <2> HIDE DEF in, r
  <2>5. \A k \in DOMAIN r.in : r.in[k].src = r.ip
    BY <2>1, <2>2, <2>3, <2>4
  <2> QED
    BY <1>1, <2>1, <2>2, <2>5, InboxChange
<1>5. ASSUME NEW c \in ConnIds, NEW n \in 1 .. Len(conns[c].in), RecvData(c, n)
      PROVE  InboxOK'
  <2> DEFINE in == conns[c].in
             rest == SubSeq(in, n + 1, Len(in))
             r  == [conns[c] EXCEPT !.in = rest]
  <2>1. in \in Seq(TerminalPdus) /\ r.in = rest /\ r.ip = conns[c].ip
    BY <1>1 DEF Connection
  <2>2. conns' = [conns EXCEPT ![c] = r]
    BY <1>5 DEF RecvData
  <2>3. \A k \in DOMAIN rest : k + n \in DOMAIN in /\ rest[k] = in[k + n]
    <3>1. Len(in) \in Nat /\ DOMAIN in = 1 .. Len(in)
      BY <2>1, LenProperties
    <3>2. \A k \in n + 1 .. Len(in) : in[k] \in TerminalPdus
      BY <2>1, <3>1, ElementOfSeq
    <3>3. /\ DOMAIN rest = 1 .. Len(rest)
          /\ Len(rest) = IF n + 1 <= Len(in) THEN Len(in) - n ELSE 0
          /\ \A k \in 1 .. Len(rest) : rest[k] = in[n + 1 + k - 1]
      BY <3>1, <3>2, SubSeqProperties, LenProperties
    <3> QED
      BY <3>1, <3>3
  <2>4. \A k \in DOMAIN in : in[k].src = conns[c].ip
    BY DEF InboxOK
  <2> HIDE DEF in, r, rest
  <2>5. \A k \in DOMAIN r.in : r.in[k].src = r.ip
    BY <2>1, <2>3, <2>4
  <2> QED
    BY <1>1, <2>1, <2>2, <2>5, InboxChange
<1>6. CASE Accept
  BY <1>6, AcceptAccepts DEF Accepts, InboxOK, Queued
<1>7. ASSUME NEW c \in ConnIds, RecvEnds(c)
      PROVE  InboxOK'
  BY <1>7, RecvEndsCloses DEF Closes, InboxOK
<1>8. ASSUME NEW c \in ConnIds, NEW how, conns' = [conns EXCEPT ![c].peer = how]
      PROVE  InboxOK'
  <2> DEFINE r == [conns[c] EXCEPT !.peer = how]
  <2>1. r.in = conns[c].in /\ r.ip = conns[c].ip /\ conns' = [conns EXCEPT ![c] = r]
    BY <1>1, <1>8 DEF Connection
  <2>2. \A k \in DOMAIN r.in : r.in[k].src = r.ip
    BY <2>1 DEF InboxOK
  <2> HIDE DEF r
  <2> QED
    BY <1>1, <2>1, <2>2, InboxChange
<1>9. ASSUME NEW c \in ConnIds, NEW how \in Departures, TerminalLeaves(c, how)
      PROVE  InboxOK'
  BY <1>8, <1>9 DEF TerminalLeaves
<1>10. ASSUME NEW c \in ConnIds, NEW peer \in PeersAfterSend(conns[c].peer), Send(c, peer)
      PROVE  InboxOK'
  BY <1>8, <1>10 DEF Send
<1>11. CASE Select \/ AcceptFails \/ pdu_process \/ SendFails \/ UNCHANGED vars
  BY <1>2, <1>11
     DEF Select, AcceptFails, SendFails, pdu_process, ProcessInvalid, ProcessPeriodic, ProcessEcho,
         ProcessReadingOnly, ProcessFusion, ProcessForward, ProcessNoCase, Processing, network, vars
<1> QED
  BY <1>3, <1>4, <1>5, <1>6, <1>7, <1>9, <1>10, <1>11 DEF Next, SinkStep, Environment

\* A step of the environment, or none, leaves the sink where it is.
Rests == /\ UNCHANGED <<sock_list, routes, resources, pc, i, readfds, recvbuf, send_sock, sendbuf,
                        lastSend, heardOn>>
         /\ Settled

\* A case of pdu_process goes on scanning, or chooses a socket and sendbuf.
Passes == /\ pc = "process" /\ pc' \in {"select", "serve"} /\ send_sock' = 0
          /\ UNCHANGED <<conns, lastSend>>

Chooses == /\ pc = "process" /\ pc' = "send" /\ Learn
           /\ UNCHANGED <<sock_list, conns, lastSend, i, readfds, recvbuf>>
           /\ \/ /\ send_sock' = newsock
                 /\ sendbuf' = make_sendbuf(AP_IP, pf.src, PDU_TYPE_PERIODICALLY, <<49, 48, 48>>)
              \/ /\ pf.type = PDU_TYPE_M2M /\ pf.src = pf.des
                 /\ send_sock' = newsock /\ sendbuf' = recvbuf
              \/ ProcessFusion
              \/ /\ ToOther /\ send_sock' = search_route_entry(routes', pf.des)
                 /\ send_sock' # 0 /\ sendbuf' = recvbuf
              \/ /\ pf.type = PDU_TYPE_APPLICATION /\ pf.des # AP_IP
                 /\ send_sock' = send_sock /\ sendbuf' = sendbuf

\* The other steps of the loop between select and recv.
Loops == /\ pc \in {"select", "accept", "serve"} /\ pc' \in {"select", "accept", "serve"}
         /\ UNCHANGED <<send_sock, lastSend>>

\* Where the loop of main can go next.
LEMMA ControlSteps ==
  ASSUME IInv, [Next]_vars
  PROVE  \/ Rests \/ Loops \/ Passes \/ Chooses \/ SendFails
         \/ \E c \in ConnIds : \E n \in 1 .. Len(conns[c].in) : RecvData(c, n)
         \/ \E c \in ConnIds : \E peer \in PeersAfterSend(conns[c].peer) : Send(c, peer)
<1>1. CASE UNCHANGED vars
  BY <1>1 DEF vars, tables, loop, call, network, history, Rests, Settled, ConnIds
<1>2. CASE Environment
  <2>1. UNCHANGED <<sock_list, routes, resources, pc, i, readfds, recvbuf, send_sock, sendbuf,
                    lastSend, heardOn>>
    BY <1>2 DEF Environment, Connect, TerminalSend, TerminalLeaves, tables, loop, call, history
  <2> QED
    BY <1>2, <2>1, EnvironmentSettles DEF Rests
<1>3. CASE Select \/ Accept \/ AcceptFails
  BY <1>3 DEF Select, Accept, AcceptFails, Scan, call, history, Loops
<1>4. ASSUME NEW c \in ConnIds, RecvEnds(c)
      PROVE  Loops
  BY <1>4 DEF RecvEnds, Scan, call, history, Loops
<1>5. ASSUME ScanOn
      PROVE  pc' \in {"select", "serve"} /\ send_sock' = 0
  BY <1>5 DEF ScanOn, Scan
<1>6. CASE ProcessInvalid \/ ProcessReadingOnly
  BY <1>5, <1>6 DEF ProcessInvalid, ProcessReadingOnly, Processing, Ignore, network, Passes
<1>7. ASSUME Processing, NEW s, NEW buf, Answer(s, buf)
      PROVE  \/ Passes
             \/ /\ pc = "process" /\ pc' = "send" /\ send_sock' = s /\ sendbuf' = buf
                /\ UNCHANGED <<sock_list, conns, lastSend, i, readfds, recvbuf>>
  BY <1>5, <1>7 DEF Processing, Answer, network, Passes
<1>8. ASSUME Processing, Ignore
      PROVE  Passes
  BY <1>5, <1>8 DEF Processing, Ignore, network, Passes
<1>9. CASE ProcessPeriodic
  <2> DEFINE buf == make_sendbuf(AP_IP, pf.src, PDU_TYPE_PERIODICALLY, <<49, 48, 48>>)
  <2>1. Processing /\ Learn /\ Answer(newsock, buf)
    BY <1>9 DEF ProcessPeriodic
  <2> QED
    BY <1>7, <2>1 DEF Chooses
<1>10. CASE ProcessEcho
  <2>1. /\ Processing /\ Learn /\ Answer(newsock, recvbuf)
        /\ pf.type = PDU_TYPE_M2M /\ pf.src = pf.des
    BY <1>10 DEF ProcessEcho
  <2> QED
    BY <1>7, <2>1 DEF Chooses
<1>11. CASE ProcessFusion
  <2>1. Processing /\ Learn /\ \E s, buf : Answer(s, buf)
    BY <1>11 DEF ProcessFusion
  <2>2. Passes \/ /\ pc = "process" /\ pc' = "send"
                  /\ UNCHANGED <<sock_list, conns, lastSend, i, readfds, recvbuf>>
    BY <1>7, <2>1
  <2> QED
    BY <1>11, <2>1, <2>2 DEF Chooses
<1>12. CASE ProcessForward
  <2> DEFINE s == search_route_entry(routes', pf.des)
  <2>1. Processing /\ Learn /\ ToOther /\ (Ignore \/ (s # 0 /\ Answer(s, recvbuf)))
    BY <1>12 DEF ProcessForward
  <2> QED
    BY <1>7, <1>8, <2>1 DEF Chooses
<1>13. CASE ProcessNoCase
  <2>1. /\ Processing /\ Learn /\ (Ignore \/ Answer(send_sock, sendbuf))
        /\ pf.type = PDU_TYPE_APPLICATION /\ pf.des # AP_IP
    BY <1>13 DEF ProcessNoCase
  <2> QED
    BY <1>7, <1>8, <2>1 DEF Chooses
<1> QED
  BY <1>1, <1>2, <1>3, <1>4, <1>6, <1>9, <1>10, <1>11, <1>12, <1>13 DEF Next, SinkStep, pdu_process

\* A step that settles keeps the connection a descriptor stands for.
LEMMA SettledConn ==
  ASSUME Settled, NEW fd
  PROVE  {c \in Accepted' : conns'[c].fd = fd} = ConnOf(fd)
<1>1. Accepted' = Accepted
  BY SettledSockets
<1> QED
  BY <1>1 DEF Settled, ConnOf, Accepted

\* Every step keeps the PDU at hand, the socket chosen and the connection served
\* together.
LEMMA SourceInvNext == SourceInv /\ [Next]_vars => SourceInv'
<1> SUFFICES ASSUME SourceInv, [Next]_vars
             PROVE  /\ AtHandOK' /\ NoSockChosen' /\ AnswerPending'
                    /\ LastSendOK' /\ AnswersReachTheirSource'
  BY NetInvNext, InboxStep DEF SourceInv
<1> USE DEF SourceInv, NetInv
<1>1. \A c \in ConnIds : c \in ConnIds' /\ conns'[c].ip = conns[c].ip
  BY DescriptorsStay
<1>2. ASSUME UNCHANGED lastSend
      PROVE  LastSendOK' /\ AnswersReachTheirSource'
  BY <1>1, <1>2 DEF LastSendOK, AnswersReachTheirSource
<1>3. CASE Rests
  <2>1. \A fd : {c \in Accepted' : conns'[c].fd = fd} = ConnOf(fd)
    BY <1>3, SettledConn DEF Rests
  <2>2. \A fd : \A c \in ConnOf(fd) : conns'[c].ip = conns[c].ip
    BY <1>1 DEF ConnOf, Accepted
  <2>3. AtHandOK'
    BY <1>3, <2>1, <2>2 DEF Rests, AtHandOK, ConnOf, newsock, pf
  <2>4. AnswerPending'
    BY <1>3, <2>1, <2>2 DEF Rests, AnswerPending, ConnOf
  <2> QED
    BY <1>2, <1>3, <2>3, <2>4 DEF Rests, NoSockChosen
<1>4. CASE Loops
  BY <1>2, <1>4 DEF Loops, AtHandOK, NoSockChosen, AnswerPending
<1>5. CASE Passes
  BY <1>2, <1>5 DEF Passes, AtHandOK, NoSockChosen, AnswerPending
<1>6. CASE Chooses
  <2>1. AtHandOK' /\ NoSockChosen'
    BY <1>6 DEF Chooses, AtHandOK, NoSockChosen
  <2>2. \A fd : {c \in Accepted' : conns'[c].fd = fd} = ConnOf(fd)
    BY <1>6 DEF Chooses, ConnOf, Accepted, ConnIds
  <2>3. ASSUME NEW c \in ConnOf(send_sock'), Returns(Head(sendbuf'))
        PROVE  conns[c].ip = Head(sendbuf').des
    <3>1. \A d \in ConnOf(newsock) : conns[d].ip = pf.src
      BY <1>6 DEF Chooses, AtHandOK
    <3>2. CASE /\ send_sock' = newsock
               /\ sendbuf' = make_sendbuf(AP_IP, pf.src, PDU_TYPE_PERIODICALLY, <<49, 48, 48>>)
      <4>1. Head(sendbuf').des = pf.src
        BY <3>2 DEF make_sendbuf
      <4> QED
        BY <2>3, <3>1, <3>2, <4>1
    <3>3. CASE /\ pf.type = PDU_TYPE_M2M /\ pf.src = pf.des
               /\ send_sock' = newsock /\ sendbuf' = recvbuf
      BY <2>3, <3>1, <3>3 DEF pf
    <3>4. CASE ProcessFusion
      <4>1. Head(sendbuf').type = PDU_TYPE_APPLICATION
        BY <3>4 DEF ProcessFusion, Answer, make_sendbuf
      <4> QED
        BY <2>3, <4>1 DEF Returns, PDU_TYPE_PERIODICALLY, PDU_TYPE_M2M, PDU_TYPE_APPLICATION
    <3>5. CASE ToOther /\ sendbuf' = recvbuf
      BY <2>3, <3>5 DEF ToOther, Returns, pf, PDU_TYPE_PERIODICALLY, PDU_TYPE_M2M
    <3>6. CASE send_sock' = send_sock
      <4>1. send_sock = 0
        BY <1>6 DEF Chooses, NoSockChosen
      <4>2. \A d \in Accepted : conns[d].fd \in Fds
        BY DEF SocketsOK, Accepted
      <4>3. 0 \notin Fds
        BY FdsAreNat
      <4> QED
        BY <2>3, <3>6, <4>1, <4>2, <4>3 DEF ConnOf
    <3> QED
      BY <1>6, <3>2, <3>3, <3>4, <3>5, <3>6 DEF Chooses
  <2>4. AnswerPending'
    BY <1>1, <2>2, <2>3 DEF AnswerPending, ConnOf, Accepted
  <2> QED
    BY <1>2, <1>6, <2>1, <2>4 DEF Chooses
<1>7. CASE SendFails
  BY <1>2, <1>7 DEF SendFails, history, AtHandOK, NoSockChosen, AnswerPending
<1>8. ASSUME NEW c \in ConnIds, NEW n \in 1 .. Len(conns[c].in), RecvData(c, n)
      PROVE  /\ AtHandOK' /\ NoSockChosen' /\ AnswerPending'
             /\ LastSendOK' /\ AnswersReachTheirSource'
  <2> DEFINE in == conns[c].in
  <2>1. /\ pc = "serve" /\ pc' = "process" /\ c \in ConnOf(newsock) /\ recvbuf' = SubSeq(in, 1, n)
        /\ UNCHANGED <<sock_list, i, send_sock, lastSend>>
    BY <1>8 DEF RecvData, history
  <2>2. {d \in Accepted' : conns'[d].fd = newsock} = {c}
    <3>1. {d \in Accepted' : conns'[d].fd = newsock} = ConnOf(newsock)
      BY <1>8, RecvDataSettles, SettledConn
    <3> QED
      BY <2>1, <3>1 DEF SocketsOK, ConnOf
  <2>3. pf' = in[1] /\ in[1].src = conns[c].ip
    <3>1. conns[c] \in Connection
      BY ConnectionAt DEF IInv, TypeOK
    <3>2. in \in Seq(TerminalPdus) /\ Len(in) \in Nat /\ DOMAIN in = 1 .. Len(in)
      BY <3>1, LenProperties DEF Connection
    <3>3. \A k \in 1 .. n : in[k] \in TerminalPdus
      BY <3>2, ElementOfSeq
    <3>4. SubSeq(in, 1, n) \in Seq(TerminalPdus) /\ Len(SubSeq(in, 1, n)) = n
          /\ SubSeq(in, 1, n)[1] = in[1]
      BY <3>2, <3>3, SubSeqProperties
    <3>5. SubSeq(in, 1, n) # <<>>
      BY <3>4, EmptySeq
    <3>6. Head(SubSeq(in, 1, n)) = in[1]
      BY <3>4, <3>5, HeadTailProperties
    <3>7. 1 \in DOMAIN in
      BY <3>2
    <3> QED
      BY <2>1, <3>6, <3>7 DEF pf, InboxOK
  <2>4. AtHandOK'
    BY <1>1, <2>1, <2>2, <2>3 DEF AtHandOK, ConnOf, newsock
  <2> QED
    BY <1>2, <2>1, <2>4 DEF NoSockChosen, AnswerPending
<1>9. ASSUME NEW c \in ConnIds, NEW peer \in PeersAfterSend(conns[c].peer), Send(c, peer)
      PROVE  /\ AtHandOK' /\ NoSockChosen' /\ AnswerPending'
             /\ LastSendOK' /\ AnswersReachTheirSource'
  <2>1. /\ pc = "send" /\ c \in ConnOf(send_sock) /\ lastSend' = [conn |-> c, msg |-> sendbuf]
        /\ pc' \in {"select", "serve"} /\ send_sock' = 0
    BY <1>9 DEF Send, ScanOn, Scan
  <2>2. lastSend'.conn = c /\ lastSend'.msg = sendbuf
    BY <2>1
  <2>3. LastSendOK'
    BY <1>1, <2>2 DEF LastSendOK
  <2>4. AnswersReachTheirSource'
    BY <1>1, <2>1, <2>2 DEF AnswersReachTheirSource, AnswerPending, Returns
  <2> QED
    BY <2>1, <2>3, <2>4 DEF AtHandOK, NoSockChosen, AnswerPending
<1> QED
  BY <1>3, <1>4, <1>5, <1>6, <1>7, <1>8, <1>9, ControlSteps

\* Before the loop nothing has arrived.
LEMMA SourceInvInit == Init => SourceInv
<1> SUFFICES ASSUME Init
             PROVE  SourceInv
  OBVIOUS
<1>1. ConnIds = {}
  BY DEF Init, ConnIds
<1> QED
  BY <1>1, NetInvInit DEF Init, SourceInv, InboxOK, AtHandOK, NoSockChosen, AnswerPending,
     LastSendOK, AnswersReachTheirSource

\* An answer to a periodic PDU and an echo go back to the terminal that sent
\* the PDU, whatever arrives, leaves and is given the same descriptor between
\* select, recv and send.
THEOREM AnswersCorrect == Spec => []AnswersReachTheirSource
<1>1. SourceInv => AnswersReachTheirSource
  BY DEF SourceInv
<1> QED
  BY SourceInvInit, SourceInvNext, <1>1, PTL DEF Spec

-----------------------------------------------------------------------------
(***************************************************************************)
(* Why the sink ends.                                                      *)
(***************************************************************************)

\* A terminal with an entry in the resource table was heard.
RegisteredHeard ==
  \A k \in ResourceUsed(resources) : heardOn[resources.table[k].ip_string] # 0

\* What makes pdu_process choose descriptor 0.
ZeroCause == /\ pf.type = PDU_TYPE_APPLICATION
             /\ pf.des = AP_IP =>
                  /\ RouteFull(routes)
                  /\ \E k \in Executors(resources, LED_EXECUTE_TYPE) :
                       search_route_entry(routes, resources.table[k].ip_string) = 0

\* What is about to be sent goes to a descriptor that had a connection, or to
\* descriptor 0 for a reason.
SendHasCause ==
  pc = "send" => \/ Holders(send_sock) # {}
                 \/ send_sock = 0 /\ ZeroCause

ExitInv == /\ RouteInv /\ SourceInv /\ RegisteredHeard
           /\ SendHasCause /\ ExitHasACause

\* An address that was heard stays so.
LEMMA HeardStays ==
  ASSUME IInv, [Next]_vars, NEW ip \in Ips
  PROVE  /\ heardOn[ip] # 0 => heardOn'[ip] # 0
         /\ pc = "process" /\ Learn /\ ip = pf.src => heardOn'[ip] # 0
<1> USE DEF IInv
<1>1. CASE UNCHANGED <<routes, heardOn>> /\ ~ (pc = "process" /\ Learn)
  BY <1>1
<1>2. CASE pc = "process" /\ Learn
  <2> DEFINE c == CHOOSE d \in ConnOf(newsock) : TRUE
  <2>1. c \in ConnIds /\ c # 0
    <3>1. ConnOf(newsock) # {}
      BY <1>2 DEF ServingOK
    <3>2. c \in ConnIds
      BY <3>1 DEF ConnOf, Accepted
    <3>3. \A d \in ConnIds : d # 0
      BY ConnectionAt DEF TypeOK
    <3> QED
      BY <3>2, <3>3
  <2>2. heardOn \in [Ips -> Nat] /\ heardOn' = [heardOn EXCEPT ![pf.src] = c]
    BY <1>2 DEF Learn, TypeOK
  <2> HIDE DEF c
  <2> QED
    BY <2>1, <2>2
<1> QED
  BY <1>1, <1>2, RouteSteps

\* A terminal is registered by a PDU that also makes it heard.
LEMMA RegisteredStep == IInv /\ RegisteredHeard /\ [Next]_vars => RegisteredHeard'
<1> SUFFICES ASSUME IInv, RegisteredHeard, [Next]_vars, NEW k \in ResourceUsed(resources')
             PROVE  heardOn'[resources'.table[k].ip_string] # 0
  BY DEF RegisteredHeard
<1>1. CASE k \in ResourceUsed(resources)
  <2>1. resources'.table[k].ip_string = resources.table[k].ip_string
    BY <1>1, TerminalsStay DEF Extends, SameTerminal
  <2>2. resources.table[k].ip_string \in Ips
    BY <1>1, UsedResource DEF IInv, TypeOK, TablesOK, ResourceEntry
  <2> QED
    BY <1>1, <2>1, <2>2, HeardStays DEF RegisteredHeard
<1>2. CASE k \notin ResourceUsed(resources)
  <2>1. Reads
    BY <1>2, ResourceSteps
  <2>2. resources'.table[k].ip_string = pf.src /\ pf.src \in Ips
    BY <1>2, <2>1, ReadsExtend, PduAtHand DEF IInv, Reads
  <2> QED
    BY <2>1, <2>2, HeardStays DEF Reads
<1> QED
  BY <1>1, <1>2

\* The socket of a route was given to the connection its address was heard on.
RoutesLead == \A ip : search_route_entry(routes, ip) # 0 =>
                Holders(search_route_entry(routes, ip)) # {}

\* A route is the socket of the connection on which its address was heard.
LEMMA RouteLeads == RouteInv => RoutesLead
<1> SUFFICES ASSUME RouteInv, NEW ip, search_route_entry(routes, ip) # 0
             PROVE  Holders(search_route_entry(routes, ip)) # {}
  BY DEF RoutesLead
<1> USE DEF RouteInv, NetInv, IInv
<1>1. ip \in Ips
  <2>1. PICK k \in RouteUsed(routes) : routes.table[k].ip_string = ip
    BY DEF search_route_entry, RoutesOf
  <2> QED
    BY <2>1, UsedEntry DEF TypeOK, TablesOK, RouteEntry
<1> DEFINE c == heardOn[ip]
<1>2. c \in ConnIds /\ conns[c].fd = search_route_entry(routes, ip)
  BY <1>1 DEF RouteFollowsLastHeard
<1>3. conns[c].state # "queued"
  <2>1. c # 0
    BY <1>2, ConnectionAt DEF TypeOK
  <2> QED
    BY <1>1, <2>1 DEF HeardOK
<1> QED
  BY <1>2, <1>3 DEF Holders, Queued

\* A descriptor that was given to a connection stays one.
LEMMA HoldersStay ==
  ASSUME NetInv, [Next]_vars, NEW fd, Holders(fd) # {}
  PROVE  {c \in ConnIds' \ Queued' : conns'[c].fd = fd} # {}
<1>1. PICK c \in ConnIds : conns[c].state # "queued" /\ conns[c].fd = fd
  BY DEF Holders, Queued
<1>2. c \in ConnIds' /\ conns'[c].state # "queued" /\ conns'[c].fd = fd
  BY <1>1, DescriptorsStay
<1> QED
  BY <1>2 DEF Queued

\* The socket that pdu_process chooses is that of a connection, or it is 0 for
\* a reason: one case for each kind of answer.
LEMMA ChoiceHasCause ==
  ASSUME ExitInv, [Next]_vars, RouteInv', RegisteredHeard', Chooses
  PROVE  SendHasCause'
<1>0. RoutesLead'
  BY RouteLeads, PTL
<1> USE DEF ExitInv, RouteInv, NetInv, IInv
<1>1. pc = "process" /\ Learn /\ UNCHANGED <<sock_list, conns, i, recvbuf>>
  BY DEF Chooses
<1>2. ASSUME send_sock' = newsock
      PROVE  SendHasCause'
  <2>1. PICK c \in ConnOf(newsock) : TRUE
    BY <1>1 DEF ServingOK
  <2>2. c \in Holders(newsock)
    BY <2>1 DEF ConnOf, Accepted, Holders, Queued
  <2>3. {d \in ConnIds' \ Queued' : conns'[d].fd = newsock} # {}
    BY <2>2, HoldersStay
  <2> QED
    BY <1>2, <2>3 DEF SendHasCause, Holders
<1>3. ASSUME NEW ip, send_sock' = search_route_entry(routes', ip), send_sock' # 0
      PROVE  SendHasCause'
  BY <1>0, <1>3 DEF RoutesLead, SendHasCause
<1>4. CASE ProcessFusion
  <2> DEFINE ex == search_ip_entry(Registered, LED_EXECUTE_TYPE)
             ip == Registered.table[ex].ip_string
  <2>1. Reads
    BY <1>4 DEF ProcessFusion, Processing, Reads
  <2>2. ex \in Executors(Registered, LED_EXECUTE_TYPE)
    <3>1. Executors(Registered, LED_EXECUTE_TYPE) \in SUBSET Nat
      BY DEF Executors, ResourceUsed, ResourceSlots
    <3> QED
      BY <1>4, <3>1, MinIsLeast DEF ProcessFusion, search_ip_entry
  <2>3. ex \in ResourceUsed(Registered)
    BY <2>2 DEF Executors
  <2>4. /\ ip \in Ips /\ heardOn'[ip] # 0
        /\ ex \in Executors(resources', LED_EXECUTE_TYPE)
        /\ resources'.table[ex].ip_string = ip
    <3>1. ip \in Ips
      BY <2>1, <2>3, ReadsExtend, UsedResource DEF ResourceEntry
    <3>2. /\ ex \in ResourceUsed(resources') /\ resources'.table[ex].ip_string = ip
          /\ resources'.table[ex].execute_type = Registered.table[ex].execute_type
      BY <2>1, <2>3, ReadsExtend DEF Extends, SameTerminal
    <3> QED
      BY <2>2, <3>1, <3>2 DEF RegisteredHeard, Executors
  <2>5. send_sock' = search_route_entry(routes', ip)
    BY <1>4 DEF Chooses, ProcessFusion, Answer, ScanOn, Scan
  <2>6. CASE send_sock' # 0
    BY <1>3, <2>5, <2>6
  <2>7. CASE send_sock' = 0
    <3>1. RouteFull(routes')
      BY <2>4, <2>5, <2>7 DEF RouteFollowsLastHeard
    <3>2. pf'.type = PDU_TYPE_APPLICATION
      BY <1>1, <1>4 DEF ProcessFusion, ForSink, pf
    <3> QED
      BY <2>4, <2>5, <2>7, <3>1, <3>2 DEF SendHasCause, ZeroCause
  <2> QED
    BY <2>6, <2>7
<1>5. ASSUME pf.type = PDU_TYPE_APPLICATION, pf.des # AP_IP, send_sock' = send_sock
      PROVE  SendHasCause'
  <2>1. send_sock = 0
    BY <1>1 DEF SourceInv, NoSockChosen
  <2>2. pf' = pf
    BY <1>1 DEF pf
  <2> QED
    BY <1>5, <2>1, <2>2 DEF SendHasCause, ZeroCause
<1> QED
  BY <1>2, <1>3, <1>4, <1>5 DEF Chooses

\* What was chosen stays chosen for the same reason while the sink is in send,
\* or ends.
LEMMA CauseStays ==
  ASSUME NetInv, [Next]_vars, UNCHANGED <<routes, resources, recvbuf, send_sock>>
  PROVE  /\ Holders(send_sock) # {} => Holders(send_sock)' # {}
         /\ ZeroCause => ZeroCause'
<1>1. ZeroCause => ZeroCause'
  BY DEF ZeroCause, pf
<1> QED
  BY <1>1, HoldersStay DEF Holders

\* A send fails on a descriptor only when every connection that had it has
\* lost its terminal.
LEMMA FailedSendHasCause == ExitInv /\ [Next]_vars /\ SendFails => ExitHasACause'
<1> SUFFICES ASSUME ExitInv, [Next]_vars, SendFails
             PROVE  ExitHasACause'
  OBVIOUS
<1> USE DEF ExitInv, RouteInv, NetInv, IInv
<1>1. /\ pc = "send" /\ pc' = "exit"
      /\ UNCHANGED <<routes, resources, recvbuf, send_sock, conns>>
      /\ \A c \in ConnOf(send_sock) : conns[c].peer = "reset"
  BY DEF SendFails, tables, call, network
<1>2. CASE Holders(send_sock) # {}
  <2>1. ASSUME NEW c \in Holders(send_sock)
        PROVE  conns[c].peer # "up"
    <3>1. c \in ConnIds /\ conns[c].fd = send_sock /\ conns[c].state # "queued"
      BY DEF Holders, Queued
    <3>2. conns[c].state \in {"queued", "accepted", "closed"}
      BY <3>1, ConnectionAt DEF TypeOK, Connection
    <3>3. CASE conns[c].state = "accepted"
      BY <1>1, <3>1, <3>3 DEF ConnOf, Accepted
    <3>4. CASE conns[c].state = "closed"
      BY <3>1, <3>4 DEF SocketsOK
    <3> QED
      BY <3>1, <3>2, <3>3, <3>4
  <2>2. Holders(send_sock)' = Holders(send_sock)
    BY <1>1 DEF Holders, Queued, ConnIds
  <2> QED
    BY <1>1, <1>2, <2>1, <2>2 DEF ExitHasACause
<1>3. CASE send_sock = 0 /\ ZeroCause
  BY <1>1, <1>3 DEF ZeroCause, ExitHasACause, pf
<1> QED
  BY <1>1, <1>2, <1>3 DEF SendHasCause

\* Nothing happens on the network of a sink that has ended.
LEMMA EndIsFinal ==
  ASSUME [Next]_vars, pc = "exit"
  PROVE  UNCHANGED conns
BY DEF Next, SinkStep, Environment, pdu_process, Select, Accept, AcceptFails, RecvData, RecvEnds,
   Send, SendFails, Connect, TerminalSend, TerminalLeaves, ProcessInvalid, ProcessPeriodic,
   ProcessEcho, ProcessReadingOnly, ProcessFusion, ProcessForward, ProcessNoCase, Processing,
   network, vars

\* Every step keeps a reason for the end at hand.
LEMMA ExitInvNext == ExitInv /\ [Next]_vars => ExitInv'
<1> SUFFICES ASSUME ExitInv, [Next]_vars
             PROVE  SendHasCause' /\ ExitHasACause'
  BY RouteInvNext, SourceInvNext, RegisteredStep DEF ExitInv, RouteInv, NetInv
<1> USE DEF ExitInv, RouteInv, NetInv
<1>1. RouteInv' /\ RegisteredHeard'
  BY RouteInvNext, RegisteredStep
<1>2. CASE Rests
  <2>1. UNCHANGED <<routes, resources, recvbuf, send_sock, pc>>
    BY <1>2 DEF Rests
  <2>2. SendHasCause'
    BY <2>1, CauseStays DEF SendHasCause
  <2>3. ExitHasACause'
    <3>1. ASSUME pc = "exit"
          PROVE  UNCHANGED conns
      BY <1>2, <3>1, EndIsFinal
    <3> QED
      BY <2>1, <3>1 DEF ExitHasACause, Holders, Queued, pf, ConnIds
  <2> QED
    BY <2>2, <2>3
<1>3. CASE Loops
  BY <1>3 DEF Loops, SendHasCause, ExitHasACause
<1>4. CASE Passes
  BY <1>4 DEF Passes, SendHasCause, ExitHasACause
<1>5. CASE Chooses
  <2>1. SendHasCause'
    BY <1>1, <1>5, ChoiceHasCause
  <2> QED
    BY <1>5, <2>1 DEF Chooses, ExitHasACause
<1>6. CASE SendFails
  BY <1>6, FailedSendHasCause DEF SendFails, SendHasCause
<1>7. ASSUME NEW c \in ConnIds, NEW n \in 1 .. Len(conns[c].in), RecvData(c, n)
      PROVE  SendHasCause' /\ ExitHasACause'
  BY <1>7 DEF RecvData, SendHasCause, ExitHasACause
<1>8. ASSUME NEW c \in ConnIds, NEW peer \in PeersAfterSend(conns[c].peer), Send(c, peer)
      PROVE  SendHasCause' /\ ExitHasACause'
  BY <1>8 DEF Send, ScanOn, Scan, SendHasCause, ExitHasACause
<1> QED
  BY <1>2, <1>3, <1>4, <1>5, <1>6, <1>7, <1>8, ControlSteps

\* Before the loop nothing is chosen.
LEMMA ExitInvInit == Init => ExitInv
<1> SUFFICES ASSUME Init
             PROVE  ExitInv
  OBVIOUS
<1>1. ResourceUsed(resources) = {}
  BY DEF Init, EmptyResourceTable, ResourceUsed, ResourceSlots
<1> QED
  BY <1>1, RouteInvInit, SourceInvInit DEF Init, ExitInv, RegisteredHeard, SendHasCause,
     ExitHasACause

\* The sink ends by itself only on a descriptor whose terminal has left, or on
\* descriptor 0 after a reading for another address or for an executor whose
\* route did not fit: every other send succeeds (sink.c:220-226).
THEOREM ExitCorrect == Spec => []ExitHasACause
<1>1. ExitInv => ExitHasACause
  BY DEF ExitInv
<1> QED
  BY ExitInvInit, ExitInvNext, <1>1, PTL DEF Spec
=============================================================================
