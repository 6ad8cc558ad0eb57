------------------------------- MODULE Uart3 --------------------------------
(***************************************************************************)
(* The receiver of the terminal's WiFi port (usart.c, wificommand.c).  The *)
(* interrupt handler stores the characters of a frame; the callback of a   *)
(* software timer completes the frame after a silence; the WiFi task looks *)
(* at a complete frame and clears it.  The interrupt may come between any  *)
(* two instructions of the callback, whose read-modify-writes are therefore*)
(* two steps each.  The callback runs in the software timer's task, which  *)
(* has a higher priority than the WiFi task: the task waits for its end.   *)
(***************************************************************************)
EXTENDS Naturals, Sequences

CONSTANTS
  RX_BUF_SIZE,
  TIMER_LIMIT,   \* 5: the callbacks of silence a frame survives
  MaxChars       \* bound: characters received during a behaviour

ASSUME Uart3Assumption ==
  /\ RX_BUF_SIZE \in Nat /\ 0 < RX_BUF_SIZE /\ RX_BUF_SIZE < 32768
  /\ TIMER_LIMIT \in Nat /\ 0 < TIMER_LIMIT /\ TIMER_LIMIT < 255
  /\ MaxChars \in Nat

VARIABLES
  UART3_RX_STA,        \* bit 15: complete; the rest: the number of characters
  UART3_RX_BUF,        \* a character, or 0; index RX_BUF_SIZE is not part of it
  uart3_timer_enable,
  uart3_timer_count,
  cb,                  \* where the callback is
  reg,                 \* the register of its read-modify-write
  task,                \* "run", or "look" while the task reads a frame
  received,            \* history: the characters that arrived
  stored               \* history: those stored since the task cleared

timer == <<uart3_timer_enable, uart3_timer_count>>
callback == <<cb, reg>>
vars == <<UART3_RX_STA, UART3_RX_BUF, timer, callback, task, received, stored>>

\* Bit 15 of the status word, and the word without it.
FLAG == 32768

Complete(sta) == sta >= FLAG
Count(sta)    == IF Complete(sta) THEN sta - FLAG ELSE sta
Mark(sta)     == IF Complete(sta) THEN sta ELSE sta + FLAG

\* The frame the task sees.
Frame == [k \in 0 .. Count(UART3_RX_STA) - 1 |-> UART3_RX_BUF[k]]

\* Each character is another one.
ch == received + 1

-----------------------------------------------------------------------------
(***************************************************************************)
(* The interrupt.                                                          *)
(***************************************************************************)

\* Mutant: the flag does not keep characters out.
UART3IRQ_unguarded ==
  /\ received < MaxChars
  /\ received' = ch
  /\ UNCHANGED <<callback, task>>
  /\ IF Count(UART3_RX_STA) < RX_BUF_SIZE
     THEN /\ UART3_RX_BUF' = [UART3_RX_BUF EXCEPT ![Count(UART3_RX_STA)] = ch]
          /\ UART3_RX_STA' = UART3_RX_STA + 1
          /\ uart3_timer_count' = 0
          /\ uart3_timer_enable' = IF UART3_RX_STA = 0 THEN 1 ELSE uart3_timer_enable
          /\ stored' = Append(stored, ch)
     ELSE /\ UART3_RX_STA' = Mark(UART3_RX_STA)
          /\ UNCHANGED <<UART3_RX_BUF, timer, stored>>

\* Mutant: the end of the buffer is not checked.
UART3IRQ_unbounded ==
  /\ received < MaxChars
  /\ received' = ch
  /\ UNCHANGED <<callback, task>>
  /\ IF ~ Complete(UART3_RX_STA)
     THEN /\ UART3_RX_BUF' = [UART3_RX_BUF EXCEPT ![UART3_RX_STA] = ch]
          /\ UART3_RX_STA' = UART3_RX_STA + 1
          /\ uart3_timer_count' = 0
          /\ uart3_timer_enable' = IF UART3_RX_STA = 0 THEN 1 ELSE uart3_timer_enable
          /\ stored' = Append(stored, ch)
     ELSE UNCHANGED <<UART3_RX_STA, UART3_RX_BUF, timer, stored>>

\* A character is stored, or the frame is marked complete and it is dropped.
UART3IRQ ==
  /\ received < MaxChars
  /\ received' = ch
  /\ UNCHANGED <<callback, task>>
  /\ IF UART3_RX_STA < RX_BUF_SIZE
     THEN /\ UART3_RX_BUF' = [UART3_RX_BUF EXCEPT ![UART3_RX_STA] = ch]
          /\ UART3_RX_STA' = UART3_RX_STA + 1
          /\ uart3_timer_count' = 0
          /\ uart3_timer_enable' = IF UART3_RX_STA = 0 THEN 1 ELSE uart3_timer_enable
          /\ stored' = Append(stored, ch)
     ELSE /\ UART3_RX_STA' = Mark(UART3_RX_STA)
          /\ UNCHANGED <<UART3_RX_BUF, timer, stored>>

-----------------------------------------------------------------------------
(***************************************************************************)
(* Timer_uart3_Callback.                                                   *)
(***************************************************************************)
Callback(from, to) == cb = from /\ cb' = to

\* Mutant: the timer is switched off when the callback begins to mark.
Begin_disabling ==
  /\ uart3_timer_enable = 1
  /\ Callback("idle", IF uart3_timer_count > TIMER_LIMIT THEN "mark" ELSE "count")
  /\ uart3_timer_enable' = IF uart3_timer_count > TIMER_LIMIT THEN 0 ELSE 1
  /\ UNCHANGED <<UART3_RX_STA, UART3_RX_BUF, uart3_timer_count, reg, task, received, stored>>

\* With the timer off the callback does nothing here.
Begin ==
  /\ uart3_timer_enable = 1
  /\ Callback("idle", IF uart3_timer_count > TIMER_LIMIT THEN "mark" ELSE "count")
  /\ UNCHANGED <<UART3_RX_STA, UART3_RX_BUF, timer, reg, task, received, stored>>

\* UART3_RX_STA |= 1<<15
ReadSta ==
  /\ Callback("mark", "marking")
  /\ reg' = UART3_RX_STA
  /\ UNCHANGED <<UART3_RX_STA, UART3_RX_BUF, timer, task, received, stored>>

WriteSta ==
  /\ Callback("marking", "disable")
  /\ UART3_RX_STA' = Mark(reg)
  /\ UNCHANGED <<UART3_RX_BUF, timer, reg, task, received, stored>>

Disable ==
  /\ Callback("disable", "reset")
  /\ uart3_timer_enable' = 0
  /\ UNCHANGED <<UART3_RX_STA, UART3_RX_BUF, uart3_timer_count, reg, task, received, stored>>

Reset ==
  /\ Callback("reset", "idle")
  /\ uart3_timer_count' = 0
  /\ UNCHANGED <<UART3_RX_STA, UART3_RX_BUF, uart3_timer_enable, reg, task, received, stored>>

\* uart3_timer_count++
ReadCount ==
  /\ Callback("count", "counting")
  /\ reg' = uart3_timer_count
  /\ UNCHANGED <<UART3_RX_STA, UART3_RX_BUF, timer, task, received, stored>>

\* Mutant: the count is written back as it was read.
WriteCount_same ==
  /\ Callback("counting", "idle")
  /\ uart3_timer_count' = reg
  /\ UNCHANGED <<UART3_RX_STA, UART3_RX_BUF, uart3_timer_enable, reg, task, received, stored>>

WriteCount ==
  /\ Callback("counting", "idle")
  /\ uart3_timer_count' = (reg + 1) % 256
  /\ UNCHANGED <<UART3_RX_STA, UART3_RX_BUF, uart3_timer_enable, reg, task, received, stored>>

Timer_uart3_Callback == \/ Begin
                        \/ ReadSta
                        \/ WriteSta
                        \/ Disable
                        \/ Reset
                        \/ ReadCount
                        \/ WriteCount

-----------------------------------------------------------------------------
(***************************************************************************)
(* The WiFi task.                                                          *)
(***************************************************************************)
Cleared == UART3_RX_STA' = 0 /\ stored' = <<>>

\* atk_8266_check_cmd: a terminator is put behind the frame before it is read.
atk_8266_check_cmd ==
  /\ cb = "idle"
  /\ task = "run"
  /\ Complete(UART3_RX_STA)
  /\ task' = "look"
  /\ UART3_RX_BUF' = [UART3_RX_BUF EXCEPT ![Count(UART3_RX_STA)] = 0]
  /\ UNCHANGED <<UART3_RX_STA, timer, callback, received, stored>>

\* The frame was handled, or is not the answer waited for.
Release ==
  /\ cb = "idle"
  /\ task = "look"
  /\ task' = "run"
  /\ Cleared
  /\ UNCHANGED <<UART3_RX_BUF, timer, callback, received>>

\* The frame is the answer waited for: it stays complete.
Keep ==
  /\ cb = "idle"
  /\ task = "look"
  /\ task' = "run"
  /\ UNCHANGED <<UART3_RX_STA, UART3_RX_BUF, timer, callback, received, stored>>

\* A command begins, or a transmission ends: what came so far is discarded.
Discard ==
  /\ cb = "idle"
  /\ task = "run"
  /\ Cleared
  /\ UNCHANGED <<UART3_RX_BUF, timer, callback, task, received>>

WiFiTask == atk_8266_check_cmd \/ Release \/ Keep \/ Discard

-----------------------------------------------------------------------------
Init ==
  /\ UART3_RX_STA = 0
  /\ UART3_RX_BUF = [k \in 0 .. RX_BUF_SIZE |-> 0]
  /\ uart3_timer_enable = 0 /\ uart3_timer_count = 0
  /\ cb = "idle" /\ reg = 0
  /\ task = "run"
  /\ received = 0 /\ stored = <<>>

Next == UART3IRQ \/ Timer_uart3_Callback \/ WiFiTask

Spec == Init /\ [][Next]_vars

\* The software timer is periodic.
FairSpec == Spec /\ WF_vars(Timer_uart3_Callback)

-----------------------------------------------------------------------------
(***************************************************************************)
(* Properties.                                                             *)
(***************************************************************************)

\* Every variable has its type.
TypeOK ==
  /\ UART3_RX_STA \in 0 .. RX_BUF_SIZE \cup FLAG .. FLAG + RX_BUF_SIZE
  /\ UART3_RX_BUF \in [0 .. RX_BUF_SIZE -> Nat]
  /\ uart3_timer_enable \in {0, 1}
  /\ uart3_timer_count \in 0 .. TIMER_LIMIT + 1
  /\ cb \in {"idle", "mark", "marking", "disable", "reset", "count", "counting"}
  /\ reg \in 0 .. FLAG + RX_BUF_SIZE
  /\ task \in {"run", "look"}
  /\ received \in Nat /\ stored \in Seq(Nat)

\* The characters counted are the first ones stored since the task cleared,
\* in their order: a frame may lose its end but has no holes and nothing of
\* an earlier frame (UART3IRQ against the callback and the task).
FrameIsWhatWasStored ==
  /\ Count(UART3_RX_STA) <= Len(stored)
  /\ \A k \in DOMAIN Frame : Frame[k] = stored[k + 1]

\* A frame that has begun and is not complete has its timer running, so the
\* callback will complete it (UART3IRQ starts it on the first character only).
PartialFrameIsTimed ==
  UART3_RX_STA \in 1 .. FLAG - 1 => uart3_timer_enable = 1

\* The frame does not change while the task looks at it, although the task
\* locks out neither the interrupt nor the callback (wificommand.c, strstr).
FrameIsStableWhileRead ==
  [][task = "look" /\ task' = "look" => Frame' = Frame /\ UART3_RX_STA' = UART3_RX_STA]_vars

\* Once characters stop coming, a frame is completed or discarded.
FramesComplete ==
  [](UART3_RX_STA \in 1 .. FLAG - 1 ~> ~ (UART3_RX_STA \in 1 .. FLAG - 1))

\* The receiver implements what the WiFi task relies on: a done frame grows no
\* more, and it does not change under the task.
Receiver == INSTANCE FrameReceiver
  WITH Char <- 1 .. MaxChars,
       frame <- [k \in 1 .. Count(UART3_RX_STA) |-> UART3_RX_BUF[k - 1]],
       done <- Complete(UART3_RX_STA),
       reading <- task = "look"
ImplementsReceiver == Receiver!Spec
=============================================================================
