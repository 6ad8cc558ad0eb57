--------------------------- MODULE ResourceTable ----------------------------
(***************************************************************************)
(* The resource table of the sink (src/sink/resource.c): one entry per     *)
(* terminal ID, with the sensor and executor the terminal carries, its     *)
(* address and its last reading.  Indices start at 1.                      *)
(***************************************************************************)
EXTENDS Fusion

CONSTANTS RESOURCE_TABLE_ENTRY_MAXNUM, NoResource

ASSUME ResourceTableAssumption == RESOURCE_TABLE_ENTRY_MAXNUM \in Nat \ {0}

TEM_SENSOR_TYPE   == 1
SMOKE_SENSOR_TYPE == 2
CO_SENSOR_TYPE    == 3
LED_EXECUTE_TYPE  == 1

\* fire_sensor_comb.sensor_type, in the order it is visited.
FireSensors == <<TEM_SENSOR_TYPE, SMOKE_SENSOR_TYPE, CO_SENSOR_TYPE>>

ResourceSlots == 1 .. RESOURCE_TABLE_ENTRY_MAXNUM

EmptyResourceTable == [current_entry_num |-> 0,
                       table |-> [k \in ResourceSlots |-> NoResource]]

\* The indices a look-up visits.
ResourceUsed(rs) == {k \in ResourceSlots : k <= rs.current_entry_num}

ResourcesOf(rs, id) == {k \in ResourceUsed(rs) : rs.table[k].termID = id}

ResourceFree(rs) == {k \in ResourceSlots : rs.table[k] = NoResource}

insert_resource_entry(rs, entry) ==
  IF rs.current_entry_num = RESOURCE_TABLE_ENTRY_MAXNUM - 1
  THEN rs
  ELSE [current_entry_num |-> rs.current_entry_num + 1,
        table |-> IF ResourceFree(rs) = {}
                  THEN rs.table
                  ELSE [rs.table EXCEPT ![Min(ResourceFree(rs))] = entry]]

search_id_entry(rs, id) == ResourcesOf(rs, id) # {}

\* Only the reading of a known terminal changes: the sensor, the executor
\* and the address of its first PDU stay.
update_resource_data_entry(rs, id, data) ==
  IF search_id_entry(rs, id)
  THEN [rs EXCEPT !.table[Min(ResourcesOf(rs, id))].data = data]
  ELSE rs

\* Mutant: a known terminal is inserted again.
RegisterReading_inserting(rs, entry) == insert_resource_entry(rs, entry)

\* Mutant: a known terminal's whole entry is replaced.
RegisterReading_replacing(rs, entry) ==
  IF search_id_entry(rs, entry.termID)
  THEN [rs EXCEPT !.table[Min(ResourcesOf(rs, entry.termID))] = entry]
  ELSE insert_resource_entry(rs, entry)

\* Step 2 of the application case of pdu_process.
RegisterReading(rs, entry) ==
  IF search_id_entry(rs, entry.termID)
  THEN update_resource_data_entry(rs, entry.termID, entry.data)
  ELSE insert_resource_entry(rs, entry)

\* The indices of the terminals with an executor, and the first of them.
Executors(rs, type) == {k \in ResourceUsed(rs) : rs.table[k].execute_type = type}

\* Mutant: the first terminal is taken for the executor.
search_ip_entry_first(rs, type) == Min(ResourceUsed(rs))

search_ip_entry(rs, type) == Min(Executors(rs, type))

Sensors(rs, type) == {k \in ResourceUsed(rs) : rs.table[k].sen_type = type}

CanFuse(rs) == \A t \in DOMAIN FireSensors : Sensors(rs, FireSensors[t]) # {}

(***************************************************************************)
(* process_fusion_condition reads the values with char_to_int, so it also  *)
(* rewrites the readings it visits: those of every type up to the first    *)
(* missing one.                                                            *)
(***************************************************************************)
Visited(rs) ==
  {k \in ResourceUsed(rs) :
     \E t \in DOMAIN FireSensors :
        /\ rs.table[k].sen_type = FireSensors[t]
        /\ \A u \in 1 .. (t - 1) : Sensors(rs, FireSensors[u]) # {}}

ReadForFusion(rs) ==
  [rs EXCEPT !.table = [k \in ResourceSlots |->
     IF k \in Visited(rs)
     THEN [rs.table[k] EXCEPT !.data = char_to_int(rs.table[k].data).data]
     ELSE rs.table[k]]]

\* sensor_mean_data of the table, as <<sum, number of readings>>.
MeanOf(rs, type) ==
  <<MapThenSumSet(LAMBDA k : char_to_int(rs.table[k].data).value, Sensors(rs, type)),
    Cardinality(Sensors(rs, type))>>

sensor_mean_data(rs) == [t \in DOMAIN FireSensors |-> MeanOf(rs, FireSensors[t])]

(***************************************************************************)
(* What the look-ups rely on.                                              *)
(***************************************************************************)
ResourceTableOK(rs) ==
  /\ rs.current_entry_num <= RESOURCE_TABLE_ENTRY_MAXNUM - 1
  /\ \A k \in ResourceSlots : rs.table[k] # NoResource <=> k <= rs.current_entry_num
  /\ \A k, m \in ResourceUsed(rs) : rs.table[k].termID = rs.table[m].termID => k = m
=============================================================================
