-------------------------------- MODULE Sink --------------------------------
(***************************************************************************)
(* The sink (src/sink): one process that accepts the TCP connections of    *)
(* the terminals, learns their addresses from the PDUs they send, routes   *)
(* PDUs between them and answers the PDUs addressed to itself.  The loop   *)
(* of main (sink.c) is modelled statement by statement where a statement   *)
(* depends on the network, and pdu_process (route.c) one action per case.  *)
(* The network is the environment: terminals connect, send, close their    *)
(* connection or vanish, and the kernel hands out descriptors.             *)
(***************************************************************************)
EXTENDS SockList, RouteTable, ResourceTable

CONSTANTS
  AP_IP,           \* the address of the sink
  MainSock,        \* the descriptor of the listening socket
  Fds,             \* the descriptors the process may still be given
  TerminalPdus,    \* the PDUs terminals send
  Departures,      \* the ways terminals leave: "fin", "gone"
  MaxConnections,  \* bound: connections made during a behaviour
  MaxPdus          \* bound: PDUs sent by the terminals during a behaviour

PDU_TYPE_PERIODICALLY == 0
PDU_TYPE_M2M          == 1
PDU_TYPE_APPLICATION  == 2
PDU_HEADER_LENGTH     == 10

\* The payload of a reading: terminal ID, sensor, executor and the text.
Pdu == [src : Ips, des : Ips \cup {AP_IP}, length : Nat, type : 0 .. 15,
        payload : Seq(Nat)]

ResourceEntry == [termID : Nat, sen_type : Nat, execute_type : Nat,
                  ip_string : Ips, data : Seq(Nat)]

ResourceTables == [current_entry_num : Nat,
                   table : [ResourceSlots -> ResourceEntry \cup {NoResource}]]

ASSUME SinkAssumption ==
  /\ MainSock \in Nat \ {0}
  /\ Fds \subseteq Nat \ {0, MainSock}
  /\ MaxConnections \in Nat
  /\ MaxPdus \in Nat
  /\ Departures \subseteq {"fin", "gone"}
  /\ \A p \in TerminalPdus :
       p \in Pdu /\ (p.type = PDU_TYPE_APPLICATION => Len(p.payload) >= 3)
  /\ NoResource \notin ResourceEntry

VARIABLES
  sock_list,   \* the sockets served, with the number of them
  routes,      \* global_route_table
  resources,   \* global_resource_strcut
  pc,          \* where the loop of main is
  i,           \* the slot of sock_array the scan serves
  readfds,     \* the descriptors select found readable
  recvbuf,     \* the PDUs that the last recv returned, in order
  send_sock,   \* where pdu_process wants sendbuf sent; 0 outside a call
  sendbuf,     \* what it wants sent; empty before the first answer
  conns,       \* the connections made so far, in the order of their SYN
  sent,        \* the number of PDUs sent by terminals
  lastSend,    \* history: connection and contents of the last send
  heardOn      \* history: the connection of the last valid PDU of an address

loop == <<pc, i, readfds>>
call == <<recvbuf, send_sock, sendbuf>>
tables == <<routes, resources>>
history == <<lastSend, heardOn>>
network == <<conns, sent>>
vars == <<sock_list, tables, loop, call, network, history>>

-----------------------------------------------------------------------------
(***************************************************************************)
(* The network.  A connection is queued at the listening socket, accepted  *)
(* under a descriptor, and at last closed by the sink.  Its other end is   *)
(* "up", has closed ("fin"), has vanished without a word ("gone"), or has  *)
(* answered a send with a reset ("reset").                                 *)
(***************************************************************************)
ConnIds == DOMAIN conns

Queued   == {c \in ConnIds : conns[c].state = "queued"}
Accepted == {c \in ConnIds : conns[c].state = "accepted"}

\* The connection a descriptor stands for now: a set of at most one.
ConnOf(fd) == {c \in Accepted : conns[c].fd = fd}

FreeFds == Fds \ {conns[c].fd : c \in Accepted}

Readable(c) == conns[c].in # <<>> \/ conns[c].peer \in {"fin", "reset"}

\* A terminal holds one connection; after losing power it makes another.
Connect(ip) ==
  /\ pc # "exit"
  /\ Len(conns) < MaxConnections
  /\ \A c \in ConnIds : conns[c].ip = ip => conns[c].peer # "up"
  /\ conns' = Append(conns, [ip |-> ip, state |-> "queued", fd |-> 0,
                             peer |-> "up", in |-> <<>>])
  /\ UNCHANGED <<sock_list, tables, loop, call, sent, history>>

TerminalSend(c, pdu) ==
  /\ pc # "exit"
  /\ sent < MaxPdus
  /\ conns[c].peer = "up"
  /\ pdu.src = conns[c].ip
  /\ conns' = [conns EXCEPT ![c].in = Append(@, pdu)]
  /\ sent' = sent + 1
  /\ UNCHANGED <<sock_list, tables, loop, call, history>>

TerminalLeaves(c, how) ==
  /\ pc # "exit"
  /\ conns[c].peer = "up"
  /\ conns' = [conns EXCEPT ![c].peer = how]
  /\ UNCHANGED <<sock_list, tables, loop, call, sent, history>>

-----------------------------------------------------------------------------
(***************************************************************************)
(* The loop of main.                                                       *)
(***************************************************************************)

\* The listening socket and the listed sockets that have something to read.
ReadableFds == (IF Queued # {} THEN {MainSock} ELSE {})
                 \cup {conns[c].fd : c \in {d \in Accepted : Readable(d)}}

\* Mutant: the scan begins one slot too late.
Scan_late(k, fds) ==
  LET ahead == {m \in Slots : m > k + 1 /\ sock_list'.sock_array[m] \in fds}
  IN  IF ahead = {}
      THEN pc' = "select" /\ i' = 0 /\ readfds' = {}
      ELSE pc' = "serve" /\ i' = Min(ahead) /\ readfds' = fds

\* The scan over sock_array stops at the slots whose descriptor is in fds and
\* then starts the next pass.  It begins again behind slot k.
Scan(k, fds) ==
  LET ahead == {m \in Slots : m > k /\ sock_list'.sock_array[m] \in fds}
  IN  IF ahead = {}
      THEN pc' = "select" /\ i' = 0 /\ readfds' = {}
      ELSE pc' = "serve" /\ i' = Min(ahead) /\ readfds' = fds

\* A pass that finds nothing readable changes nothing and is not a step.
Select ==
  /\ pc = "select"
  /\ UNCHANGED <<sock_list, tables, call, network, history>>
  /\ LET fds == make_fdlist(MainSock, sock_list) \cap ReadableFds
     IN  /\ fds # {}
         /\ IF MainSock \in fds
            THEN pc' = "accept" /\ i' = 0 /\ readfds' = fds
            ELSE Scan(0, fds)

\* The kernel gives the lowest free descriptor; insert_list may drop it.
Accept ==
  /\ pc = "accept"
  /\ FreeFds # {}
  /\ Queued # {}
  /\ conns' = [conns EXCEPT ![Min(Queued)].state = "accepted",
                            ![Min(Queued)].fd = Min(FreeFds)]
  /\ sock_list' = insert_list(Min(FreeFds), sock_list)
  /\ Scan(0, readfds)
  /\ UNCHANGED <<tables, call, sent, history>>

\* accept fails for want of a descriptor: the connection stays queued and
\* `continue' skips the scan.
AcceptFails ==
  /\ pc = "accept"
  /\ FreeFds = {}
  /\ pc' = "select" /\ i' = 0 /\ readfds' = {}
  /\ UNCHANGED <<sock_list, tables, call, network, history>>

\* The socket being served.
newsock == sock_list.sock_array[i]

\* One recv takes what has arrived: one PDU or several.  A reading with more
\* behind it would overrun the 8 bytes of resource_payload: not modelled.
RecvData(c, n) ==
  /\ pc = "serve"
  /\ c \in ConnOf(newsock)
  /\ n \in 1 .. Len(conns[c].in)
  /\ Head(conns[c].in).type = PDU_TYPE_APPLICATION => n = 1
  /\ recvbuf' = SubSeq(conns[c].in, 1, n)
  /\ conns' = [conns EXCEPT ![c].in = SubSeq(@, n + 1, Len(@))]
  /\ pc' = "process"
  /\ UNCHANGED <<sock_list, tables, i, readfds, send_sock, sendbuf, sent, history>>

\* recv returns 0 or -1: the socket is closed and leaves the list.
RecvEnds(c) ==
  /\ pc = "serve"
  /\ c \in ConnOf(newsock)
  /\ conns[c].in = <<>>
  /\ conns[c].peer \in {"fin", "reset"}
  /\ conns' = [conns EXCEPT ![c].state = "closed"]
  /\ sock_list' = delete_list(newsock, sock_list)
  /\ Scan(i, readfds)
  /\ UNCHANGED <<tables, call, sent, history>>

-----------------------------------------------------------------------------
(***************************************************************************)
(* pdu_process.  Only the first PDU in recvbuf is looked at.               *)
(***************************************************************************)
pf == Head(recvbuf)

\* parse_pdu: the length field and the type nibble are all it checks.
Valid(pdu) == /\ pdu.length # 0
              /\ pdu.type \in {PDU_TYPE_PERIODICALLY, PDU_TYPE_M2M, PDU_TYPE_APPLICATION}

make_sendbuf(source, des, type, payload) ==
  <<[src |-> source, des |-> des, length |-> Len(payload) + PDU_HEADER_LENGTH,
     type |-> type, payload |-> payload]>>

\* The resource PDU in a payload.  Printing the reading, parse_resource_pdu
\* has already run char_to_int over it.
parse_resource_pdu(payload) ==
  [termID       |-> payload[1],
   sen_type     |-> payload[2],
   execute_type |-> payload[3],
   ip_string    |-> pf.src,
   data         |-> char_to_int(SubSeq(payload, 4, Len(payload))).data]

\* The scan goes on; recvbuf and send_sock are set anew before their next use.
ScanOn == /\ Scan(i, readfds)
          /\ recvbuf' = <<>>
          /\ send_sock' = 0

Ignore == ScanOn /\ UNCHANGED sendbuf

\* RETVAL_ROUTE_SUCCESSFULLY: main sends a sendbuf that is not empty.
Answer(socket, buf) ==
  /\ sendbuf' = buf
  /\ IF buf = <<>>
     THEN ScanOn
     ELSE pc' = "send" /\ send_sock' = socket /\ UNCHANGED <<i, readfds, recvbuf>>

Processing == /\ pc = "process"
              /\ UNCHANGED <<sock_list, network, lastSend>>

\* Step II, before every case: learn the route of the source.
Learn == /\ Valid(pf)
         /\ routes' = LearnRoute(routes, pf.src, newsock)
         /\ heardOn' = [heardOn EXCEPT ![pf.src] = CHOOSE c \in ConnOf(newsock) : TRUE]

ProcessInvalid ==
  /\ Processing
  /\ ~ Valid(pf)
  /\ Ignore
  /\ UNCHANGED <<tables, heardOn>>

\* Mutant: the answer follows the route known before this PDU.
ProcessPeriodic_routed ==
  /\ Processing /\ Learn
  /\ pf.type = PDU_TYPE_PERIODICALLY
  /\ Answer(search_route_entry(routes, pf.src),
            make_sendbuf(AP_IP, pf.src, PDU_TYPE_PERIODICALLY, <<49, 48, 48>>))
  /\ UNCHANGED resources

\* Case 1: the payload of the answer is the text "100".
ProcessPeriodic ==
  /\ Processing /\ Learn
  /\ pf.type = PDU_TYPE_PERIODICALLY
  /\ Answer(newsock,
            make_sendbuf(AP_IP, pf.src, PDU_TYPE_PERIODICALLY, <<49, 48, 48>>))
  /\ UNCHANGED resources

\* Case 2: a PDU a terminal sends to itself comes back to it.
ProcessEcho ==
  /\ Processing /\ Learn
  /\ pf.type = PDU_TYPE_M2M
  /\ pf.src = pf.des
  /\ Answer(newsock, recvbuf)
  /\ UNCHANGED resources

\* Case 4: a reading for the sink.  The command's payload is a byte and the
\* decimal text of the frequency, which is kept as a number.
ForSink == /\ pf.type = PDU_TYPE_APPLICATION
           /\ pf.des = AP_IP

Registered == RegisterReading(resources, parse_resource_pdu(pf.payload))

ProcessReadingOnly ==
  /\ Processing /\ Learn
  /\ ForSink
  /\ ~ CanFuse(Registered) \/ Executors(Registered, LED_EXECUTE_TYPE) = {}
  /\ resources' = ReadForFusion(Registered)
  /\ Ignore

ProcessFusion ==
  /\ Processing /\ Learn
  /\ ForSink
  /\ CanFuse(Registered)
  /\ Executors(Registered, LED_EXECUTE_TYPE) # {}
  /\ resources' = ReadForFusion(Registered)
  /\ LET ip  == Registered.table[search_ip_entry(Registered, LED_EXECUTE_TYPE)].ip_string
         fre == cooperative_control(data_fusion(sensor_mean_data(Registered)))
     IN  Answer(search_route_entry(routes', ip),
                make_sendbuf(AP_IP, ip, PDU_TYPE_APPLICATION, <<1, fre>>))

\* Case 5: the string in recvbuf goes to the terminal it names.
ToOther == /\ pf.type = PDU_TYPE_M2M
           /\ pf.src # pf.des

\* Mutant: an unknown address is not checked for.
ProcessForward_unchecked ==
  /\ Processing /\ Learn
  /\ ToOther
  /\ Answer(search_route_entry(routes', pf.des), recvbuf)
  /\ UNCHANGED resources

ProcessForward ==
  /\ Processing /\ Learn
  /\ ToOther
  /\ IF search_route_entry(routes', pf.des) # 0
     THEN Answer(search_route_entry(routes', pf.des), recvbuf)
     ELSE Ignore
  /\ UNCHANGED resources

\* A reading for another address meets no case: control reaches the end of
\* pdu_process without a return, and what main compares is undefined.
ProcessNoCase ==
  /\ Processing /\ Learn
  /\ pf.type = PDU_TYPE_APPLICATION
  /\ pf.des # AP_IP
  /\ \/ Ignore
     \/ Answer(send_sock, sendbuf)
  /\ UNCHANGED resources

-----------------------------------------------------------------------------
(***************************************************************************)
(* send.  To a peer that has left it succeeds until the peer's reset is    *)
(* known; to a reset connection, or to what is no connection (0, or a      *)
(* descriptor that was closed), it fails, and a failed send ends the sink. *)
(***************************************************************************)
PeersAfterSend(peer) == IF peer = "up" THEN {"up"} ELSE {peer, "reset"}

Send(c, peer) ==
  /\ pc = "send"
  /\ c \in ConnOf(send_sock)
  /\ conns[c].peer # "reset"
  /\ peer \in PeersAfterSend(conns[c].peer)
  /\ conns' = [conns EXCEPT ![c].peer = peer]
  /\ lastSend' = [conn |-> c, msg |-> sendbuf]
  /\ UNCHANGED <<sock_list, tables, sendbuf, sent, heardOn>>
  /\ ScanOn

SendFails ==
  /\ pc = "send"
  /\ \A c \in ConnOf(send_sock) : conns[c].peer = "reset"
  /\ pc' = "exit"
  /\ UNCHANGED <<sock_list, tables, i, readfds, call, network, history>>

-----------------------------------------------------------------------------
Init ==
  /\ sock_list = init_list
  /\ routes = EmptyRouteTable
  /\ resources = EmptyResourceTable
  /\ pc = "select" /\ i = 0 /\ readfds = {}
  /\ recvbuf = <<>> /\ send_sock = 0 /\ sendbuf = <<>>
  /\ conns = <<>> /\ sent = 0
  /\ lastSend = [conn |-> 0, msg |-> <<>>]
  /\ heardOn = [ip \in Ips |-> 0]

pdu_process == \/ ProcessInvalid
               \/ ProcessPeriodic
               \/ ProcessEcho
               \/ ProcessReadingOnly
               \/ ProcessFusion
               \/ ProcessForward
               \/ ProcessNoCase

SinkStep == \/ Select
            \/ Accept
            \/ AcceptFails
            \/ \E c \in ConnIds : \E n \in 1 .. Len(conns[c].in) : RecvData(c, n)
            \/ \E c \in ConnIds : RecvEnds(c)
            \/ pdu_process
            \/ \E c \in ConnIds : \E peer \in PeersAfterSend(conns[c].peer) : Send(c, peer)
            \/ SendFails

Environment == \/ \E ip \in Ips : Connect(ip)
               \/ \E c \in ConnIds : \E pdu \in TerminalPdus : TerminalSend(c, pdu)
               \/ \E c \in ConnIds : \E how \in Departures : TerminalLeaves(c, how)

Next == SinkStep \/ Environment

Spec == Init /\ [][Next]_vars

\* The sink is one process that runs as long as it can.
FairSpec == Spec /\ WF_vars(SinkStep)
-----------------------------------------------------------------------------
(***************************************************************************)
(* Properties.                                                             *)
(***************************************************************************)
Connection == [ip : Ips, state : {"queued", "accepted", "closed"},
               fd : Fds \cup {0}, peer : {"up", "fin", "gone", "reset"},
               in : Seq(TerminalPdus)]

\* Every variable has its type.
TypeOK ==
  /\ sock_list \in [num : Int, sock_array : [Slots -> Fds \cup {0}]]
  /\ routes \in RouteTables
  /\ resources \in ResourceTables
  /\ pc \in {"select", "accept", "serve", "process", "send", "exit"}
  /\ i \in Slots \cup {0}
  /\ readfds \subseteq Fds \cup {MainSock}
  /\ recvbuf \in Seq(TerminalPdus)
  /\ send_sock \in Nat
  /\ \A k \in DOMAIN sendbuf : /\ sendbuf[k].src \in Ips \cup {AP_IP}
                               /\ sendbuf[k].des \in Ips \cup {AP_IP}
  /\ conns \in Seq(Connection)
  /\ sent \in Nat
  /\ heardOn \in [Ips -> Nat]

\* While a socket is served it is one that select found readable; from recv
\* to the end of pdu_process it is connected, and a PDU is at hand.
ServingOK ==
  /\ pc \in {"serve", "process", "send"} => i \in Slots /\ newsock \in readfds
  /\ pc = "process" => ConnOf(newsock) # {}
  /\ pc \in {"process", "send", "exit"} => recvbuf # <<>>

\* sock_array holds the open descriptors of accepted connections, each once,
\* and num is their number (SockList.c, and main's pairing of close with
\* delete_list).
SocketListOK ==
  /\ \A k \in Slots : sock_list.sock_array[k] # 0 =>
        /\ ConnOf(sock_list.sock_array[k]) # {}
        /\ SlotsOf(sock_list.sock_array[k], sock_list) = {k}
  /\ sock_list.num = Cardinality(Slots \ SlotsOf(0, sock_list))

\* Both tables keep the shape their look-ups rely on when they dereference
\* the first current_entry_num pointers (route.c, resource.c).
TablesOK == RouteTableOK(routes) /\ ResourceTableOK(resources)

\* The route of an address is the socket on which it was last heard, and an
\* address that was heard has no route only when the table is full: step II
\* of pdu_process, whatever is accepted, closed and handed out again since.
RouteFollowsLastHeard ==
  \A ip \in Ips :
    /\ search_route_entry(routes, ip) # 0 =>
         /\ heardOn[ip] \in ConnIds
         /\ search_route_entry(routes, ip) = conns[heardOn[ip]].fd
    /\ heardOn[ip] # 0 /\ search_route_entry(routes, ip) = 0 => RouteFull(routes)

\* An answer to a periodic PDU and an echo go back to the terminal that sent
\* the PDU (cases 1 and 2 of pdu_process).
AnswersReachTheirSource ==
  lastSend.msg # <<>> =>
    LET m == Head(lastSend.msg)
    IN  m.type = PDU_TYPE_PERIODICALLY \/ (m.type = PDU_TYPE_M2M /\ m.src = m.des)
          => conns[lastSend.conn].ip = m.des

\* A command is sent only when every kind of sensor has reported, and it is
\* addressed to a terminal that registered the executor (case 4).
CommandsAreJustified ==
  lastSend.msg # <<>> =>
    LET m == Head(lastSend.msg)
    IN  m.src = AP_IP /\ m.type = PDU_TYPE_APPLICATION
          => /\ CanFuse(resources)
             /\ \E k \in Executors(resources, LED_EXECUTE_TYPE) :
                  resources.table[k].ip_string = m.des

\* The connections that have or had a descriptor.
Holders(fd) == {c \in ConnIds \ Queued : conns[c].fd = fd}

\* The sink ends by itself (sink.c:222) only on a descriptor whose terminal has
\* left, or on descriptor 0, which nothing but two cases of pdu_process chooses:
\* a reading for another address, which returns nothing, and a command for an
\* executor whose route did not fit in the full table.
ExitHasACause ==
  pc = "exit" =>
    \/ /\ Holders(send_sock) # {}
       /\ \A c \in Holders(send_sock) : conns[c].peer # "up"
    \/ /\ send_sock = 0
       /\ pf.type = PDU_TYPE_APPLICATION
       /\ pf.des = AP_IP =>
            /\ RouteFull(routes)
            /\ \E k \in Executors(resources, LED_EXECUTE_TYPE) :
                 search_route_entry(routes, resources.table[k].ip_string) = 0

\* A socket leaves the list of served sockets only with its connection.
ServedUntilClosed ==
  [][\A fd \in Listed(sock_list) :
       fd \in Listed(sock_list)' \/ ConnOf(fd)' = {}]_vars

\* A registered terminal stays registered at its index with its sensor, its
\* executor and its address; only its reading changes.
RegistrationIsPermanent ==
  [][\A k \in ResourceUsed(resources) :
       /\ k \in ResourceUsed(resources')
       /\ \A f \in {"termID", "sen_type", "execute_type", "ip_string"} :
            resources'.table[k][f] = resources.table[k][f]]_vars

Waiting(c) == /\ c \in Accepted
              /\ conns[c].fd \in Listed(sock_list)
              /\ conns[c].in # <<>>

\* As long as descriptors last, a connection that waits at the listening
\* socket is accepted and what a terminal sent over a socket of the list is
\* read, or the sink ends: the one scan after each select visits every slot,
\* also those filled and freed meanwhile.  (Out of descriptors
\* accept fails, `continue' skips the scan and select reports the listening
\* socket again, for ever: sink.c:163.)
EverySocketIsServed ==
  \A c \in 1 .. MaxConnections :
    /\ Waiting(c) ~> (~ Waiting(c) \/ pc = "exit")
    /\ c \in Queued ~> (c \in Accepted \/ pc = "exit")

\* route.c:53: the route table maps an address to its socket; a PDU forwarded
\* from terminal to terminal arrives at the address it names.
ForwardedPdusReachTheirAddress ==
  lastSend.msg # <<>> =>
    LET m == Head(lastSend.msg)
    IN  m.type = PDU_TYPE_M2M => conns[lastSend.conn].ip = m.des

-----------------------------------------------------------------------------
\* The route table as a bounded memory of the last socket of each address.
Memory == INSTANCE RouteMemory
            WITH known <- RoutesKnown(routes),
                 Sockets <- Fds,
                 Capacity <- ROUTE_TABLE_ENTRY_MAXNUM - 1

RoutesAreMemory == Memory!Spec
=============================================================================
