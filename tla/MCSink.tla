------------------------------- MODULE MCSink -------------------------------
(***************************************************************************)
(* Small instances of Sink for TLC.                                        *)
(***************************************************************************)
EXTENDS Sink

CONSTANTS a, b, c

Pdu_(src, des, length, type, payload) ==
  [src |-> src, des |-> des, length |-> length, type |-> type, payload |-> payload]

M2M(src, des) == Pdu_(src, des, 10, PDU_TYPE_M2M, <<>>)

\* Addresses that talk to each other, to themselves and periodically.
TalkingPdus == {M2M(s, t) : s \in Ips, t \in Ips}
                 \cup {Pdu_(s, AP_IP, 10, PDU_TYPE_PERIODICALLY, <<>>) : s \in Ips}

\* One address is answered, the other one's PDUs are forwarded.
ServicePdus == {M2M(a, b), M2M(b, b), Pdu_(b, AP_IP, 10, PDU_TYPE_PERIODICALLY, <<>>)}

Reading(src, id, sensor, executor, text) ==
  Pdu_(src, AP_IP, 13 + Len(text), PDU_TYPE_APPLICATION, <<id, sensor, executor>> \o text)

\* One terminal ID for each kind of sensor; the first carries the executor.
\* The readings are the texts "35", "5" and "40".  Three PDUs are odd: a
\* reading of terminal 2 from another address and sensor, a PDU with a
\* length of zero, and a reading for another address.
FusionPdus == {Reading(a, 1, TEM_SENSOR_TYPE, LED_EXECUTE_TYPE, <<51, 53>>),
               Reading(b, 2, SMOKE_SENSOR_TYPE, 0, <<53>>),
               Reading(b, 3, CO_SENSOR_TYPE, 0, <<52, 48>>),
               Reading(a, 2, CO_SENSOR_TYPE, 0, <<52, 48>>),
               Pdu_(b, AP_IP, 0, PDU_TYPE_M2M, <<>>),
               Pdu_(b, a, 14, PDU_TYPE_APPLICATION, <<2, 2, 0, 53>>)}

\* Three addresses for two routes.  The second one is sent PDUs by the first
\* and reads for another address; the third one has the executor.
RoutingPdus == {M2M(a, b), Reading(a, 1, SMOKE_SENSOR_TYPE, 0, <<53>>),
                Pdu_(b, AP_IP, 10, PDU_TYPE_PERIODICALLY, <<>>),
                Reading(b, 2, CO_SENSOR_TYPE, 0, <<52>>),
                Pdu_(b, a, 14, PDU_TYPE_APPLICATION, <<2, 2, 0, 52>>),
                Reading(c, 3, TEM_SENSOR_TYPE, LED_EXECUTE_TYPE, <<51>>)}

Addresses == Permutations(Ips)
=============================================================================
