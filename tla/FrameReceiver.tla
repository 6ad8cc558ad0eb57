--------------------------- MODULE FrameReceiver ----------------------------
(***************************************************************************)
(* What the receiver of the WiFi port promises to the task that reads its  *)
(* frames: characters are appended to a frame until it is done; nothing is *)
(* added to a done frame; it may lose its end when it is finished, but not *)
(* while the task reads it.                                                *)
(***************************************************************************)
EXTENDS Naturals, Sequences

CONSTANT Char

VARIABLES frame, done, reading

Init == frame = <<>> /\ ~ done /\ ~ reading

Store == /\ ~ done
         /\ \E c \in Char : frame' = Append(frame, c)
         /\ UNCHANGED <<done, reading>>

Finish == /\ ~ reading
          /\ \E n \in 0 .. Len(frame) : frame' = SubSeq(frame, 1, n)
          /\ done'
          /\ UNCHANGED reading

Look == done /\ ~ reading /\ reading' /\ UNCHANGED <<frame, done>>

Keep == reading /\ ~ reading' /\ UNCHANGED <<frame, done>>

Clear == frame' = <<>> /\ ~ done' /\ ~ reading'

Next == Store \/ Finish \/ Look \/ Keep \/ Clear

Spec == Init /\ [][Next]_<<frame, done, reading>>
=============================================================================
