------------------------------ MODULE SockList ------------------------------
(***************************************************************************)
(* The list of connected sockets of the sink (src/sink/SockList.c).  A     *)
(* socket list is a record of a counter and of SOCKETLIST_LENGTH slots; a  *)
(* slot that holds 0 is free.  Slots are numbered from 1, and every loop   *)
(* acts on the first slot that fits: Min of the set of them.               *)
(***************************************************************************)
EXTENDS Naturals, FiniteSetsExt

CONSTANT SOCKETLIST_LENGTH

ASSUME SockListAssumption == SOCKETLIST_LENGTH \in Nat \ {0}

Slots == 1 .. SOCKETLIST_LENGTH

\* The slots of a list that hold the value s.
SlotsOf(s, list) == {k \in Slots : list.sock_array[k] = s}

init_list == [num |-> 0, sock_array |-> [k \in Slots |-> 0]]

\* Mutant: a full list gives its last slot away.
insert_list_evicting(s, list) ==
  IF SlotsOf(0, list) = {}
  THEN [list EXCEPT !.sock_array[SOCKETLIST_LENGTH] = s]
  ELSE [num        |-> list.num + 1,
        sock_array |-> [list.sock_array EXCEPT ![Min(SlotsOf(0, list))] = s]]

\* When no slot is free the loop ends without storing s and without telling
\* the caller.
insert_list(s, list) ==
  IF SlotsOf(0, list) = {}
  THEN list
  ELSE [num        |-> list.num + 1,
        sock_array |-> [list.sock_array EXCEPT ![Min(SlotsOf(0, list))] = s]]

\* Mutant: the counter is not decremented.
delete_list_uncounted(s, list) ==
  IF SlotsOf(s, list) = {}
  THEN list
  ELSE [list EXCEPT !.sock_array[Min(SlotsOf(s, list))] = 0]

delete_list(s, list) ==
  IF SlotsOf(s, list) = {}
  THEN list
  ELSE [num        |-> list.num - 1,
        sock_array |-> [list.sock_array EXCEPT ![Min(SlotsOf(s, list))] = 0]]

\* The descriptors the list adds to a descriptor set.
make_fdlist(main, list) ==
  {main} \cup {list.sock_array[k] : k \in Slots \ SlotsOf(0, list)}

Listed(list) == {list.sock_array[k] : k \in Slots} \ {0}
=============================================================================
