---------------------------- MODULE MessageQueue ----------------------------
(***************************************************************************)
(* What a queue of the kernel promises: at most Length messages, put at    *)
(* either end, each delivered once and from the front.  Tasks, waits and   *)
(* the ring of cells are not visible here.                                 *)
(***************************************************************************)
EXTENDS Naturals, Sequences

CONSTANTS Msg, Length

VARIABLES
  messages,  \* the messages in the queue, first to be read first
  out        \* the message last delivered

Init == messages = <<>> /\ out \notin Msg

Put == \E msg \in Msg : /\ Len(messages) < Length
                        /\ messages' \in {Append(messages, msg), <<msg>> \o messages}
                        /\ UNCHANGED out

Take == /\ messages # <<>>
        /\ out' = Head(messages)
        /\ messages' = Tail(messages)

\* The queue is deleted.
Discard == messages' = <<>> /\ UNCHANGED out

Next == Put \/ Take \/ Discard

Spec == Init /\ [][Next]_<<messages, out>>
=============================================================================
