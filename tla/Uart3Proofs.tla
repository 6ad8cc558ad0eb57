---------------------------- MODULE Uart3Proofs -----------------------------
(***************************************************************************)
(* Proofs about Uart3 for every size of the buffer and every limit of the  *)
(* timer.  The invariant says what the callback may rely on between the    *)
(* two halves of a read-modify-write: the task is held off, so the state   *)
(* has only grown by the characters the interrupt stored.                  *)
(***************************************************************************)
EXTENDS Uart3, TLAPS

Partial == UART3_RX_STA \in 1 .. FLAG - 1

\* Until a frame is complete every stored character is counted.
CountsWhileOpen == ~ Complete(UART3_RX_STA) => UART3_RX_STA = Len(stored)

\* The halves of the callback's steps.
CallbackInv ==
  /\ cb = "marking" => /\ Count(reg) <= Count(UART3_RX_STA)
                       /\ task = "look" => reg = UART3_RX_STA
  /\ cb \in {"disable", "reset"} => Complete(UART3_RX_STA)
  /\ cb = "count" => uart3_timer_count <= TIMER_LIMIT
  /\ cb = "counting" => reg <= TIMER_LIMIT

LookInv == task = "look" => Complete(UART3_RX_STA)

IInv == /\ TypeOK
        /\ FrameIsWhatWasStored
        /\ PartialFrameIsTimed
        /\ CountsWhileOpen
        /\ CallbackInv
        /\ LookInv

\* Count and Mark on the values the status word takes.
LEMMA StatusWord ==
  /\ \A n \in 0 .. RX_BUF_SIZE :
       /\ ~ Complete(n) /\ Count(n) = n /\ Mark(n) = FLAG + n
       /\ Complete(FLAG + n) /\ Count(FLAG + n) = n /\ Mark(FLAG + n) = FLAG + n
  /\ \A sta \in 0 .. RX_BUF_SIZE \cup FLAG .. FLAG + RX_BUF_SIZE :
       \E n \in 0 .. RX_BUF_SIZE : sta = n \/ sta = FLAG + n
<1>1. RX_BUF_SIZE \in Nat /\ 0 < RX_BUF_SIZE /\ RX_BUF_SIZE < 32768
  BY Uart3Assumption
<1>3. ASSUME NEW n \in 0 .. RX_BUF_SIZE
      PROVE  /\ ~ Complete(n) /\ Count(n) = n /\ Mark(n) = FLAG + n
             /\ Complete(FLAG + n) /\ Count(FLAG + n) = n /\ Mark(FLAG + n) = FLAG + n
  BY <1>1 DEF Complete, Count, Mark, FLAG
<1>4. ASSUME NEW sta \in 0 .. RX_BUF_SIZE \cup FLAG .. FLAG + RX_BUF_SIZE
      PROVE  \E n \in 0 .. RX_BUF_SIZE : sta = n \/ sta = FLAG + n
  <2>1. CASE sta \in 0 .. RX_BUF_SIZE
    BY <2>1
  <2>2. CASE sta \in FLAG .. FLAG + RX_BUF_SIZE
    <3>1. sta - FLAG \in 0 .. RX_BUF_SIZE /\ sta = FLAG + (sta - FLAG)
      BY <1>1, <2>2 DEF FLAG
    <3> QED
      BY <3>1
  <2> QED
    BY <2>1, <2>2
<1> QED
  BY <1>3, <1>4

\* The words of a frame that has begun and is not complete.
LEMMA PartialRange == \A n \in Nat : n \in 1 .. FLAG - 1 <=> 1 <= n /\ n < 32768
BY DEF FLAG

\* The status word of a typed state is a natural number.
LEMMA StatusIsNat == TypeOK => UART3_RX_STA \in Nat /\ reg \in Nat
BY Uart3Assumption DEF TypeOK, FLAG

\* The status word is a number of characters, marked or not.
LEMMA StatusType ==
  ASSUME TypeOK
  PROVE  /\ Count(UART3_RX_STA) \in 0 .. RX_BUF_SIZE
         /\ Complete(UART3_RX_STA) => UART3_RX_STA = FLAG + Count(UART3_RX_STA)
         /\ ~ Complete(UART3_RX_STA) => UART3_RX_STA = Count(UART3_RX_STA)
         /\ Complete(UART3_RX_STA) <=> UART3_RX_STA >= 32768
BY Uart3Assumption DEF TypeOK, Complete, Count, FLAG

\* A character may arrive between any two steps of the callback and of the
\* task: the interrupt keeps the invariant in all of them (usart.c:311-332).
LEMMA IRQKeeps ==
  ASSUME IInv, UART3IRQ
  PROVE  IInv'
<1> DEFINE sta == UART3_RX_STA
<1> USE DEF IInv
<1>1. RX_BUF_SIZE \in Nat /\ 0 < RX_BUF_SIZE /\ RX_BUF_SIZE < 32768
  BY Uart3Assumption
<1>2. /\ Count(sta) \in 0 .. RX_BUF_SIZE
      /\ Complete(sta) => sta = FLAG + Count(sta)
      /\ ~ Complete(sta) => sta = Count(sta)
      /\ Complete(sta) <=> sta >= 32768
  BY StatusType
<1>3. UNCHANGED <<cb, reg, task>> /\ received' \in Nat
  BY DEF UART3IRQ, callback, ch, TypeOK
<1>4. CASE sta < RX_BUF_SIZE
  <2>1. /\ UART3_RX_BUF' = [UART3_RX_BUF EXCEPT ![sta] = ch]
        /\ UART3_RX_STA' = sta + 1
        /\ uart3_timer_count' = 0
        /\ uart3_timer_enable' = IF sta = 0 THEN 1 ELSE uart3_timer_enable
        /\ stored' = Append(stored, ch)
    BY <1>4 DEF UART3IRQ
  <2>2. ~ Complete(sta) /\ sta = Count(sta) /\ sta \in 0 .. RX_BUF_SIZE
    BY <1>4, Uart3Assumption DEF TypeOK, FLAG, Complete, Count
  <2>3. /\ sta + 1 \in 0 .. RX_BUF_SIZE
        /\ ~ Complete(sta + 1) /\ Count(sta + 1) = sta + 1
    BY <1>1, <1>4, <2>2, StatusWord
  <2>4. ch \in Nat /\ stored \in Seq(Nat)
    BY DEF ch, TypeOK
  <2>5. /\ Len(stored) = sta /\ Len(stored') = sta + 1
        /\ stored' \in Seq(Nat)
        /\ \A k \in 1 .. sta : stored'[k] = stored[k]
        /\ stored'[sta + 1] = ch
    BY <2>1, <2>2, <2>4 DEF CountsWhileOpen
  <2>6. TypeOK'
    <3>1. UART3_RX_STA' \in 0 .. RX_BUF_SIZE \cup FLAG .. FLAG + RX_BUF_SIZE
      BY <2>1, <2>3
    <3>2. UART3_RX_BUF' \in [0 .. RX_BUF_SIZE -> Nat]
      BY <2>1, <2>2, <2>4 DEF TypeOK
    <3>3. uart3_timer_enable' \in {0, 1} /\ uart3_timer_count' \in 0 .. TIMER_LIMIT + 1
      BY <2>1, Uart3Assumption DEF TypeOK
    <3> QED
      BY <1>3, <2>5, <3>1, <3>2, <3>3 DEF TypeOK
  <2>7. FrameIsWhatWasStored'
    <3>1. \A k \in 0 .. sta - 1 : UART3_RX_BUF[k] = stored[k + 1]
      BY <2>2 DEF FrameIsWhatWasStored, Frame
    <3>2. \A k \in 0 .. sta : UART3_RX_BUF'[k] = stored'[k + 1]
      BY <2>1, <2>2, <2>5, <3>1, <1>1 DEF TypeOK
    <3>3. Count(UART3_RX_STA') = sta + 1 /\ Len(stored') = sta + 1
      BY <2>1, <2>3, <2>5
    <3> QED
      BY <2>2, <3>2, <3>3 DEF FrameIsWhatWasStored, Frame
  <2>8. PartialFrameIsTimed'
    <3>1. ASSUME sta # 0
          PROVE  sta \in 1 .. FLAG - 1
      <4>1. sta \in Nat
        BY StatusIsNat
      <4>2. sta < 32768
        BY <2>2, <4>1 DEF Complete, FLAG
      <4>3. 1 <= sta
        BY <3>1, <4>1
      <4> QED
        BY <4>1, <4>2, <4>3, PartialRange
    <3>2. uart3_timer_enable' = 1
      BY <2>1, <3>1 DEF PartialFrameIsTimed
    <3> QED
      BY <3>2 DEF PartialFrameIsTimed
  <2>9. CountsWhileOpen' /\ LookInv'
    BY <1>3, <2>1, <2>2, <2>3, <2>5 DEF CountsWhileOpen, LookInv
  <2>10. CallbackInv'
    <3>1. task # "look"
      BY <2>2 DEF LookInv
    <3>2. cb = "marking" => Count(reg) <= sta
      BY <2>2 DEF CallbackInv
    <3>3. cb = "marking" => Count(reg) <= sta + 1
      BY <2>2, <3>2 DEF Count, TypeOK, FLAG
    <3>4. ~ (cb \in {"disable", "reset"})
      BY <2>2 DEF CallbackInv
    <3> QED
      BY <1>3, <2>1, <2>3, <3>1, <3>3, <3>4, Uart3Assumption DEF CallbackInv
  <2> QED
    BY <2>6, <2>7, <2>8, <2>9, <2>10
<1>5. CASE ~ (sta < RX_BUF_SIZE)
  <2>1. /\ UART3_RX_STA' = Mark(sta)
        /\ UNCHANGED <<UART3_RX_BUF, uart3_timer_enable, uart3_timer_count, stored>>
    BY <1>5 DEF UART3IRQ, timer
  <2>2. /\ UART3_RX_STA' = FLAG + Count(sta)
        /\ Complete(UART3_RX_STA') /\ Count(UART3_RX_STA') = Count(sta)
    BY <1>2, <2>1, StatusWord
  <2>3. TypeOK'
    BY <1>1, <1>2, <1>3, <2>1, <2>2 DEF TypeOK, FLAG
  <2>4. FrameIsWhatWasStored'
    BY <2>1, <2>2 DEF FrameIsWhatWasStored, Frame
  <2>5. PartialFrameIsTimed'
    <3>1. UART3_RX_STA' \in Nat /\ ~ (UART3_RX_STA' < 32768)
      BY <2>1, <1>5, StatusIsNat DEF Mark, Complete, FLAG
    <3> QED
      BY <3>1, PartialRange DEF PartialFrameIsTimed
  <2>6. CountsWhileOpen' /\ LookInv'
    BY <2>2 DEF CountsWhileOpen, LookInv
  <2>7. task = "look" => UART3_RX_STA' = sta
    BY <1>2, <2>2 DEF LookInv
  <2>8. CallbackInv'
    BY <1>3, <2>1, <2>2, <2>7 DEF CallbackInv
  <2> QED
    BY <2>3, <2>4, <2>5, <2>6, <2>8
<1> QED
  BY <1>4, <1>5

\* Each instruction of the timer callback keeps the invariant
\* (usart.c:406-415).
LEMMA CallbackKeeps ==
  ASSUME IInv, Timer_uart3_Callback
  PROVE  IInv'
<1> USE DEF IInv
<1>1. RX_BUF_SIZE \in Nat /\ 0 < RX_BUF_SIZE /\ RX_BUF_SIZE < 32768 /\ TIMER_LIMIT \in Nat /\ TIMER_LIMIT < 255
  BY Uart3Assumption
<1>2. /\ Count(UART3_RX_STA) \in 0 .. RX_BUF_SIZE
      /\ Complete(UART3_RX_STA) => UART3_RX_STA = FLAG + Count(UART3_RX_STA)
      /\ ~ Complete(UART3_RX_STA) => UART3_RX_STA = Count(UART3_RX_STA)
      /\ Complete(UART3_RX_STA) <=> UART3_RX_STA >= 32768
  BY StatusType
<1>3. ASSUME UNCHANGED <<UART3_RX_STA, UART3_RX_BUF, task, received, stored>>
      PROVE  FrameIsWhatWasStored' /\ CountsWhileOpen' /\ LookInv'
  BY <1>3 DEF FrameIsWhatWasStored, Frame, CountsWhileOpen, LookInv
<1>4. CASE Begin
  <2>1. /\ UNCHANGED <<UART3_RX_STA, UART3_RX_BUF, uart3_timer_enable, uart3_timer_count,
                       reg, task, received, stored>>
        /\ cb' = IF uart3_timer_count > TIMER_LIMIT THEN "mark" ELSE "count"
    BY <1>4 DEF Begin, Callback, timer
  <2>2. TypeOK'
    BY <2>1 DEF TypeOK
  <2>3. PartialFrameIsTimed'
    BY <2>1 DEF PartialFrameIsTimed
  <2>4. CallbackInv'
    BY <1>1, <2>1 DEF CallbackInv, TypeOK
  <2> QED
    BY <1>3, <2>1, <2>2, <2>3, <2>4
<1>5. CASE ReadSta
  <2>1. /\ UNCHANGED <<UART3_RX_STA, UART3_RX_BUF, uart3_timer_enable, uart3_timer_count,
                       task, received, stored>>
        /\ cb' = "marking" /\ reg' = UART3_RX_STA
    BY <1>5 DEF ReadSta, Callback, timer
  <2>2. TypeOK'
    BY <1>1, <2>1 DEF TypeOK, FLAG
  <2>3. PartialFrameIsTimed'
    BY <2>1 DEF PartialFrameIsTimed
  <2>4. CallbackInv'
    BY <1>2, <2>1 DEF CallbackInv
  <2> QED
    BY <1>3, <2>1, <2>2, <2>3, <2>4
<1>6. CASE WriteSta
  <2>1. /\ UNCHANGED <<UART3_RX_BUF, uart3_timer_enable, uart3_timer_count, reg, task,
                       received, stored>>
        /\ cb = "marking" /\ cb' = "disable" /\ UART3_RX_STA' = Mark(reg)
    BY <1>6 DEF WriteSta, Callback, timer
  <2>2. Count(reg) <= Count(UART3_RX_STA) /\ (task = "look" => reg = UART3_RX_STA)
    BY <2>1 DEF CallbackInv
  <2>3. Count(reg) \in 0 .. RX_BUF_SIZE
    <3>1. Count(reg) \in Nat
      BY StatusIsNat DEF Count, Complete, FLAG
    <3> QED
      BY <1>1, <1>2, <2>2, <3>1
  <2>4. Mark(reg) = FLAG + Count(reg)
    BY <1>1 DEF Mark, Complete, Count, TypeOK, FLAG
  <2>5. Complete(UART3_RX_STA') /\ Count(UART3_RX_STA') = Count(reg)
    BY <2>1, <2>3, <2>4, StatusWord
  <2>6. TypeOK'
    BY <1>1, <2>1, <2>3, <2>4 DEF TypeOK, FLAG
  <2>7. FrameIsWhatWasStored'
    <3>1. stored \in Seq(Nat) /\ Len(stored) \in Nat
      BY DEF TypeOK
    <3>2. \A k \in 0 .. Count(UART3_RX_STA) - 1 : UART3_RX_BUF[k] = stored[k + 1]
      BY DEF FrameIsWhatWasStored, Frame
    <3>3. Count(reg) <= Len(stored)
      BY <1>2, <2>2, <2>3, <3>1 DEF FrameIsWhatWasStored
    <3>4. \A k \in 0 .. Count(reg) - 1 : UART3_RX_BUF[k] = stored[k + 1]
      BY <1>2, <2>2, <2>3, <3>2
    <3> QED
      BY <2>1, <2>5, <3>3, <3>4 DEF FrameIsWhatWasStored, Frame
  <2>8. PartialFrameIsTimed'
    <3>1. UART3_RX_STA' \in Nat /\ ~ (UART3_RX_STA' < 32768)
      BY <2>1, StatusIsNat DEF Mark, Complete, FLAG
    <3> QED
      BY <3>1, PartialRange DEF PartialFrameIsTimed
  <2>9. CountsWhileOpen' /\ LookInv'
    BY <2>5 DEF CountsWhileOpen, LookInv
  <2>10. CallbackInv'
    BY <2>1, <2>5 DEF CallbackInv
  <2> QED
    BY <2>6, <2>7, <2>8, <2>9, <2>10
<1>7. CASE Disable
  <2>1. /\ UNCHANGED <<UART3_RX_STA, UART3_RX_BUF, uart3_timer_count, reg, task, received,
                       stored>>
        /\ cb = "disable" /\ cb' = "reset" /\ uart3_timer_enable' = 0
    BY <1>7 DEF Disable, Callback
  <2>2. TypeOK'
    BY <2>1 DEF TypeOK
  <2>3. PartialFrameIsTimed'
    <3>1. UART3_RX_STA \in Nat /\ ~ (UART3_RX_STA < 32768)
      BY <2>1, StatusIsNat DEF CallbackInv, Complete, FLAG
    <3> QED
      BY <2>1, <3>1, PartialRange DEF PartialFrameIsTimed
  <2>4. CallbackInv'
    BY <2>1 DEF CallbackInv
  <2> QED
    BY <1>3, <2>1, <2>2, <2>3, <2>4
<1>8. CASE Reset
  <2>1. /\ UNCHANGED <<UART3_RX_STA, UART3_RX_BUF, uart3_timer_enable, reg, task, received,
                       stored>>
        /\ cb' = "idle" /\ uart3_timer_count' = 0
    BY <1>8 DEF Reset, Callback
  <2>2. TypeOK'
    BY <1>1, <2>1 DEF TypeOK
  <2>3. PartialFrameIsTimed' /\ CallbackInv'
    BY <2>1 DEF PartialFrameIsTimed, CallbackInv
  <2> QED
    BY <1>3, <2>1, <2>2, <2>3
<1>9. CASE ReadCount
  <2>1. /\ UNCHANGED <<UART3_RX_STA, UART3_RX_BUF, uart3_timer_enable, uart3_timer_count,
                       task, received, stored>>
        /\ cb = "count" /\ cb' = "counting" /\ reg' = uart3_timer_count
    BY <1>9 DEF ReadCount, Callback, timer
  <2>2. TypeOK'
    BY <1>1, <2>1 DEF TypeOK, FLAG
  <2>3. PartialFrameIsTimed' /\ CallbackInv'
    BY <2>1 DEF PartialFrameIsTimed, CallbackInv
  <2> QED
    BY <1>3, <2>1, <2>2, <2>3
<1>10. CASE WriteCount
  <2>1. /\ UNCHANGED <<UART3_RX_STA, UART3_RX_BUF, uart3_timer_enable, reg, task, received,
                       stored>>
        /\ cb = "counting" /\ cb' = "idle" /\ uart3_timer_count' = (reg + 1) % 256
    BY <1>10 DEF WriteCount, Callback
  <2>2. reg \in 0 .. TIMER_LIMIT
    BY <1>1, <2>1 DEF CallbackInv, TypeOK, FLAG
  <2>3. (reg + 1) % 256 = reg + 1 /\ reg + 1 \in 0 .. TIMER_LIMIT + 1
    BY <1>1, <2>2
  <2>4. TypeOK'
    BY <2>1, <2>3 DEF TypeOK
  <2>5. PartialFrameIsTimed' /\ CallbackInv'
    BY <2>1 DEF PartialFrameIsTimed, CallbackInv
  <2> QED
    BY <1>3, <2>1, <2>4, <2>5
<1> QED
  BY <1>4, <1>5, <1>6, <1>7, <1>8, <1>9, <1>10 DEF Timer_uart3_Callback

\* Each step of the task that reads and clears frames keeps the invariant
\* (wificommand.c:41-79).
LEMMA TaskKeeps ==
  ASSUME IInv, WiFiTask
  PROVE  IInv'
<1> USE DEF IInv
<1>1. RX_BUF_SIZE \in Nat /\ 0 < RX_BUF_SIZE /\ RX_BUF_SIZE < 32768 /\ TIMER_LIMIT \in Nat /\ TIMER_LIMIT < 255
  BY Uart3Assumption
<1>2. /\ Count(UART3_RX_STA) \in 0 .. RX_BUF_SIZE
      /\ Complete(UART3_RX_STA) => UART3_RX_STA = FLAG + Count(UART3_RX_STA)
      /\ ~ Complete(UART3_RX_STA) => UART3_RX_STA = Count(UART3_RX_STA)
      /\ Complete(UART3_RX_STA) <=> UART3_RX_STA >= 32768
  BY StatusType
<1>3. cb = "idle"
  BY DEF WiFiTask, atk_8266_check_cmd, Release, Keep, Discard
<1>4. CASE atk_8266_check_cmd
  <2>1. /\ UNCHANGED <<UART3_RX_STA, uart3_timer_enable, uart3_timer_count, cb, reg, received,
                       stored>>
        /\ task' = "look"
        /\ Complete(UART3_RX_STA)
        /\ UART3_RX_BUF' = [UART3_RX_BUF EXCEPT ![Count(UART3_RX_STA)] = 0]
    BY <1>4 DEF atk_8266_check_cmd, timer, callback
  <2>2. TypeOK'
    BY <2>1 DEF TypeOK
  <2>3. \A k \in 0 .. Count(UART3_RX_STA) - 1 : UART3_RX_BUF'[k] = UART3_RX_BUF[k]
    BY <1>1, <1>2, <2>1 DEF TypeOK
  <2>4. FrameIsWhatWasStored'
    BY <2>1, <2>3 DEF FrameIsWhatWasStored, Frame
  <2>5. PartialFrameIsTimed' /\ CountsWhileOpen' /\ LookInv' /\ CallbackInv'
    BY <1>3, <2>1 DEF PartialFrameIsTimed, CountsWhileOpen, LookInv, CallbackInv
  <2> QED
    BY <2>2, <2>4, <2>5
<1>5. CASE Keep
  <2>1. /\ UNCHANGED <<UART3_RX_STA, UART3_RX_BUF, uart3_timer_enable, uart3_timer_count, cb,
                       reg, received, stored>>
        /\ task' = "run"
    BY <1>5 DEF Keep, timer, callback
  <2>2. TypeOK'
    BY <2>1 DEF TypeOK
  <2>3. FrameIsWhatWasStored' /\ PartialFrameIsTimed' /\ CountsWhileOpen' /\ LookInv' /\ CallbackInv'
    BY <1>3, <2>1 DEF FrameIsWhatWasStored, Frame, PartialFrameIsTimed, CountsWhileOpen, LookInv,
                      CallbackInv
  <2> QED
    BY <2>2, <2>3
<1>6. CASE Release \/ Discard
  <2>1. /\ UNCHANGED <<UART3_RX_BUF, uart3_timer_enable, uart3_timer_count, cb, reg, received>>
        /\ task' = "run" /\ UART3_RX_STA' = 0 /\ stored' = <<>>
    BY <1>6 DEF Release, Discard, Cleared, timer, callback
  <2>2. TypeOK'
    BY <1>1, <2>1 DEF TypeOK
  <2>3. ~ Complete(0) /\ Count(0) = 0
    BY DEF FLAG, Complete, Count
  <2>4. FrameIsWhatWasStored' /\ PartialFrameIsTimed' /\ CountsWhileOpen' /\ LookInv' /\ CallbackInv'
    BY <1>3, <2>1, <2>3 DEF FrameIsWhatWasStored, Frame, PartialFrameIsTimed, CountsWhileOpen,
                            LookInv, CallbackInv
  <2> QED
    BY <2>2, <2>4
<1> QED
  BY <1>4, <1>5, <1>6 DEF WiFiTask

\* The state after start-up satisfies the inductive invariant.
LEMMA InitInv == Init => IInv
<1> SUFFICES ASSUME Init
             PROVE  IInv
  OBVIOUS
<1>1. RX_BUF_SIZE \in Nat /\ 0 < RX_BUF_SIZE /\ RX_BUF_SIZE < 32768 /\ TIMER_LIMIT \in Nat /\ TIMER_LIMIT < 255
  BY Uart3Assumption
<1>2. ~ Complete(0) /\ Count(0) = 0
  BY DEF FLAG, Complete, Count
<1>3. TypeOK
  BY <1>1 DEF Init, TypeOK, FLAG
<1> QED
  BY <1>2, <1>3 DEF Init, IInv, FrameIsWhatWasStored, Frame, PartialFrameIsTimed, CountsWhileOpen,
                    CallbackInv, LookInv

\* Every step keeps the inductive invariant: one case per context.
LEMMA StepInv == IInv /\ [Next]_vars => IInv'
<1> SUFFICES ASSUME IInv, [Next]_vars
             PROVE  IInv'
  OBVIOUS
<1>1. CASE UNCHANGED vars
  BY <1>1 DEF vars, timer, callback, IInv, TypeOK, FrameIsWhatWasStored, Frame,
              PartialFrameIsTimed, CountsWhileOpen, CallbackInv, LookInv
<1> QED
  BY <1>1, IRQKeeps, CallbackKeeps, TaskKeeps DEF Next

\* Every variable keeps its type, for every buffer size and timer limit.
THEOREM TypeCorrect == Spec => []TypeOK
<1>1. IInv => TypeOK
  BY DEF IInv
<1> QED
  BY InitInv, StepInv, <1>1, PTL DEF Spec

\* A frame consists of the first characters stored since the task cleared,
\* however the interrupt falls into the callback.
THEOREM FramesAreWhatWasStored == Spec => []FrameIsWhatWasStored
<1>1. IInv => FrameIsWhatWasStored
  BY DEF IInv
<1> QED
  BY InitInv, StepInv, <1>1, PTL DEF Spec

\* A frame that has begun always has its timer running.
THEOREM PartialFramesAreTimed == Spec => []PartialFrameIsTimed
<1>1. IInv => PartialFrameIsTimed
  BY DEF IInv
<1> QED
  BY InitInv, StepInv, <1>1, PTL DEF Spec

\* Neither the interrupt nor the callback changes a frame being read.
LEMMA ReadStep ==
  ASSUME IInv, [Next]_vars, task = "look", task' = "look"
  PROVE  Frame' = Frame /\ UART3_RX_STA' = UART3_RX_STA
<1> USE DEF IInv
<1>1. /\ Complete(UART3_RX_STA)
      /\ UART3_RX_STA \in Nat /\ UART3_RX_STA >= 32768
      /\ RX_BUF_SIZE \in Nat /\ 0 < RX_BUF_SIZE /\ RX_BUF_SIZE < 32768
  BY Uart3Assumption DEF LookInv, TypeOK, Complete, FLAG
<1>2. CASE UART3IRQ
  <2>1. ~ (UART3_RX_STA < RX_BUF_SIZE)
    BY <1>1 DEF FLAG
  <2>2. UART3_RX_STA' = UART3_RX_STA /\ UNCHANGED UART3_RX_BUF
    BY <1>1, <1>2, <2>1 DEF UART3IRQ, Mark
  <2> QED
    BY <2>2 DEF Frame
<1>3. CASE WriteSta
  <2>1. UART3_RX_STA' = UART3_RX_STA /\ UNCHANGED UART3_RX_BUF
    BY <1>1, <1>3 DEF WriteSta, Callback, CallbackInv, Mark
  <2> QED
    BY <2>1 DEF Frame
<1>4. CASE Begin \/ ReadSta \/ Disable \/ Reset \/ ReadCount \/ WriteCount \/ UNCHANGED vars
  <2>1. UNCHANGED <<UART3_RX_STA, UART3_RX_BUF>>
    BY <1>4 DEF Begin, ReadSta, Disable, Reset, ReadCount, WriteCount, vars
  <2> QED
    BY <2>1 DEF Frame
<1>5. ~ WiFiTask
  BY DEF WiFiTask, atk_8266_check_cmd, Release, Keep, Discard
<1> QED
  BY <1>2, <1>3, <1>4, <1>5 DEF Next, Timer_uart3_Callback

\* The task may read a complete frame without locking anything out.
THEOREM FramesAreStableWhileRead == Spec => FrameIsStableWhileRead
<1>1. IInv /\ [Next]_vars =>
        [task = "look" /\ task' = "look" => Frame' = Frame /\ UART3_RX_STA' = UART3_RX_STA]_vars
  BY ReadStep
<1> QED
  BY InitInv, StepInv, <1>1, PTL DEF Spec, FrameIsStableWhileRead

-----------------------------------------------------------------------------
(***************************************************************************)
(* The refinement: what the task sees of the receiver.                     *)
(***************************************************************************)

\* The frame as a sequence.
Seen == [k \in 1 .. Count(UART3_RX_STA) |-> UART3_RX_BUF[k - 1]]

\* The frame is a sequence of as many characters as the status word counts.
SeenOK == /\ Count(UART3_RX_STA) \in 0 .. RX_BUF_SIZE
          /\ Seen \in Seq(Nat) /\ Len(Seen) = Count(UART3_RX_STA)
          /\ \A k \in 1 .. Count(UART3_RX_STA) : Seen[k] = UART3_RX_BUF[k - 1]

\* A typed state has a frame.
LEMMA SeenIsOK == TypeOK => SeenOK
<1> SUFFICES ASSUME TypeOK
             PROVE  SeenOK
  OBVIOUS
<1>1. Count(UART3_RX_STA) \in 0 .. RX_BUF_SIZE /\ RX_BUF_SIZE \in Nat
  BY StatusType, Uart3Assumption
<1>2. \A k \in 1 .. Count(UART3_RX_STA) : UART3_RX_BUF[k - 1] \in Nat
  BY <1>1 DEF TypeOK
<1>3. Seen \in [1 .. Count(UART3_RX_STA) -> Nat]
  BY <1>2 DEF Seen
<1>4. Seen \in Seq(Nat)
  BY <1>1, <1>3
<1>5. Len(Seen) = Count(UART3_RX_STA)
  BY <1>1, <1>3, <1>4
<1> QED
  BY <1>1, <1>4, <1>5 DEF Seen, SeenOK

\* So has the state after a step that keeps the types.
LEMMA SeenIsOKNext == TypeOK' => SeenOK'
BY SeenIsOK, PTL

\* The two, spelled out.
LEMMA SeenIsSeq ==
  ASSUME TypeOK
  PROVE  /\ Count(UART3_RX_STA) \in 0 .. RX_BUF_SIZE
         /\ Seen \in Seq(Nat) /\ Len(Seen) = Count(UART3_RX_STA)
         /\ \A k \in 1 .. Count(UART3_RX_STA) : Seen[k] = UART3_RX_BUF[k - 1]
BY SeenIsOK DEF SeenOK

\* The same of the next state.
LEMMA SeenIsSeqNext ==
  ASSUME TypeOK'
  PROVE  /\ Count(UART3_RX_STA)' \in 0 .. RX_BUF_SIZE
         /\ Seen' \in Seq(Nat) /\ Len(Seen') = Count(UART3_RX_STA)'
         /\ \A k \in 1 .. Count(UART3_RX_STA)' : Seen'[k] = UART3_RX_BUF'[k - 1]
BY SeenIsOKNext DEF SeenOK

\* Equal lengths and equal elements make equal sequences.
LEMMA SameSeq ==
  ASSUME NEW s \in Seq(Nat), NEW t \in Seq(Nat), Len(s) = Len(t),
         \A k \in 1 .. Len(s) : s[k] = t[k]
  PROVE  s = t
OBVIOUS

\* What the receiver promises, in the terms of the task.
Looking == task = "look"

\* The interrupt stores a character or completes the frame of a full buffer,
\* but not one that the task reads.
LEMMA IRQImplements ==
  ASSUME IInv, IInv', UART3IRQ
  PROVE  Receiver!Next \/ UNCHANGED <<Seen, Complete(UART3_RX_STA), Looking>>
<1>1. TypeOK /\ TypeOK' /\ UNCHANGED task
  BY DEF IInv, UART3IRQ
<1>2. RX_BUF_SIZE \in Nat /\ 0 < RX_BUF_SIZE /\ RX_BUF_SIZE < 32768
  BY Uart3Assumption
<1>3. CASE UART3_RX_STA < RX_BUF_SIZE
  <2>1. /\ UART3_RX_STA \in 0 .. RX_BUF_SIZE - 1
        /\ UART3_RX_STA' = UART3_RX_STA + 1
        /\ UART3_RX_BUF' = [UART3_RX_BUF EXCEPT ![UART3_RX_STA] = ch]
    BY <1>1, <1>2, <1>3, StatusIsNat DEF UART3IRQ
  <2>2. /\ Count(UART3_RX_STA) = UART3_RX_STA /\ Count(UART3_RX_STA)' = UART3_RX_STA + 1
        /\ ~ Complete(UART3_RX_STA) /\ ~ Complete(UART3_RX_STA)'
    BY <1>2, <2>1 DEF Count, Complete, FLAG
  <2>3. ch \in 1 .. MaxChars
    BY <1>1, Uart3Assumption DEF UART3IRQ, TypeOK, ch
  <2>4. Append(Seen, ch) \in Seq(Nat) /\ Len(Append(Seen, ch)) = UART3_RX_STA + 1
    BY <1>1, <2>2, <2>3, SeenIsSeq
  <2>5. \A k \in 1 .. UART3_RX_STA + 1 : Seen'[k] = Append(Seen, ch)[k]
    <3> TAKE k \in 1 .. UART3_RX_STA + 1
    <3>1. Seen'[k] = UART3_RX_BUF'[k - 1]
      BY <1>1, <2>2, SeenIsSeqNext
    <3>2. k - 1 \in 0 .. RX_BUF_SIZE /\ UART3_RX_STA \in 0 .. RX_BUF_SIZE
      BY <1>2, <2>1
    <3>3. CASE k = UART3_RX_STA + 1
      <4>1. UART3_RX_BUF'[k - 1] = ch
        BY <1>1, <2>1, <3>2, <3>3 DEF TypeOK
      <4>2. Append(Seen, ch)[k] = ch
        BY <1>1, <2>1, <2>2, <3>3, SeenIsSeq
      <4> QED
        BY <3>1, <4>1, <4>2
    <3>4. CASE k # UART3_RX_STA + 1
      <4>1. k \in 1 .. UART3_RX_STA /\ k - 1 # UART3_RX_STA
        BY <2>1, <3>4
      <4>2. UART3_RX_BUF'[k - 1] = UART3_RX_BUF[k - 1]
        BY <1>1, <2>1, <3>2, <4>1 DEF TypeOK
      <4>3. Append(Seen, ch)[k] = Seen[k]
        BY <1>1, <2>1, <2>2, <4>1, SeenIsSeq
      <4> QED
        BY <1>1, <2>2, <3>1, <4>1, <4>2, <4>3, SeenIsSeq
    <3> QED
      BY <3>3, <3>4
  <2>6. Seen' = Append(Seen, ch)
    BY <1>1, <2>2, <2>4, <2>5, SeenIsSeqNext, SameSeq
  <2>7. Receiver!Store
    <3>1. Complete(UART3_RX_STA)' = Complete(UART3_RX_STA)
      BY <1>2, <2>1 DEF Complete, FLAG
    <3>2. (task = "look")' = (task = "look")
      BY <1>1
    <3> QED
      BY <2>2, <2>3, <2>6, <3>1, <3>2 DEF Receiver!Store, Seen
  <2> QED
    BY <2>7 DEF Receiver!Next
<1>4. CASE ~ (UART3_RX_STA < RX_BUF_SIZE)
  <2>1. UART3_RX_STA' = Mark(UART3_RX_STA) /\ UART3_RX_BUF' = UART3_RX_BUF
    BY <1>4 DEF UART3IRQ
  <2>2. Count(UART3_RX_STA)' = Count(UART3_RX_STA) /\ Complete(UART3_RX_STA)'
    BY <1>1, <1>2, <2>1 DEF TypeOK, Count, Complete, Mark, FLAG
  <2>3. Seen' = Seen
    BY <2>1, <2>2 DEF Seen
  <2>4. CASE Complete(UART3_RX_STA)
    BY <1>1, <2>2, <2>3, <2>4 DEF Looking
  <2>5. CASE ~ Complete(UART3_RX_STA)
    <3>1. task # "look" /\ Seen = SubSeq(Seen, 1, Len(Seen)) /\ Len(Seen) \in 0 .. Len(Seen)
      BY <1>1, <2>5, SeenIsSeq DEF IInv, LookInv
    <3>2. Receiver!Finish
      BY <1>1, <2>2, <2>3, <3>1 DEF Receiver!Finish, Seen
    <3> QED
      BY <3>2 DEF Receiver!Next
  <2> QED
    BY <2>4, <2>5
<1> QED
  BY <1>3, <1>4

\* The callback completes a frame that nobody reads, and may cut off what was
\* stored between its reading and its writing.
LEMMA CallbackImplements ==
  ASSUME IInv, IInv', Timer_uart3_Callback
  PROVE  Receiver!Next \/ UNCHANGED <<Seen, Complete(UART3_RX_STA), Looking>>
<1>1. TypeOK /\ TypeOK' /\ UNCHANGED task /\ UNCHANGED UART3_RX_BUF
  BY DEF IInv, Timer_uart3_Callback, Begin, ReadSta, WriteSta, Disable, Reset, ReadCount, WriteCount
<1>2. RX_BUF_SIZE \in Nat /\ 0 < RX_BUF_SIZE /\ RX_BUF_SIZE < 32768
  BY Uart3Assumption
<1>3. CASE UNCHANGED UART3_RX_STA
  BY <1>1, <1>3 DEF Seen, Looking
<1>4. CASE WriteSta
  <2>1. cb = "marking" /\ UART3_RX_STA' = Mark(reg)
    BY <1>4 DEF WriteSta, Callback
  <2>2. reg \in Nat
    BY <1>1, StatusIsNat
  <2>3. Count(UART3_RX_STA)' = Count(reg) /\ Complete(UART3_RX_STA)' /\ Count(reg) \in Nat
    BY <2>1, <2>2 DEF Count, Complete, Mark, FLAG
  <2>4. Count(reg) <= Count(UART3_RX_STA)
    BY <2>1 DEF IInv, CallbackInv
  <2>5. CASE task = "look"
    <3>1. reg = UART3_RX_STA /\ Complete(UART3_RX_STA)
      BY <2>1, <2>5 DEF IInv, CallbackInv, LookInv
    <3>2. UART3_RX_STA' = UART3_RX_STA
      BY <2>1, <3>1 DEF Mark
    <3> QED
      BY <1>3, <3>2
  <2>6. CASE task # "look"
    <3> DEFINE n == Count(reg)
    <3>1. n \in 0 .. Len(Seen)
      BY <1>1, <2>3, <2>4, SeenIsSeq
    <3>2. SubSeq(Seen, 1, n) \in Seq(Nat) /\ Len(SubSeq(Seen, 1, n)) = n
      BY <1>1, <3>1, SeenIsSeq
    <3>3. \A k \in 1 .. n : Seen'[k] = SubSeq(Seen, 1, n)[k]
      <4> TAKE k \in 1 .. n
      <4>1. Seen'[k] = UART3_RX_BUF[k - 1]
        BY <1>1, <2>3, SeenIsSeqNext
      <4>2. k \in 1 .. Count(UART3_RX_STA)
        BY <1>1, <2>3, <3>1, SeenIsSeq
      <4>3. Seen[k] = UART3_RX_BUF[k - 1]
        BY <1>1, <4>2, SeenIsSeq
      <4>4. SubSeq(Seen, 1, n)[k] = Seen[k]
        BY <1>1, <3>1, SeenIsSeq
      <4> QED
        BY <4>1, <4>3, <4>4
    <3>4. Seen' = SubSeq(Seen, 1, n)
      BY <1>1, <2>3, <3>2, <3>3, SeenIsSeqNext, SameSeq
    <3> HIDE DEF n
    <3>5. Receiver!Finish
      BY <1>1, <2>3, <2>6, <3>1, <3>4 DEF Receiver!Finish, Seen
    <3> QED
      BY <3>5 DEF Receiver!Next
  <2> QED
    BY <2>5, <2>6
<1>5. UNCHANGED UART3_RX_STA \/ WriteSta
  BY DEF Timer_uart3_Callback, Begin, ReadSta, Disable, Reset, ReadCount, WriteCount
<1> QED
  BY <1>3, <1>4, <1>5

\* The task looks at a complete frame, keeps it or discards it.
LEMMA TaskImplements ==
  ASSUME IInv, IInv', WiFiTask
  PROVE  Receiver!Next \/ UNCHANGED <<Seen, Complete(UART3_RX_STA), Looking>>
<1>1. TypeOK /\ TypeOK'
  BY DEF IInv
<1>2. RX_BUF_SIZE \in Nat /\ 0 < RX_BUF_SIZE /\ RX_BUF_SIZE < 32768
  BY Uart3Assumption
<1>3. CASE atk_8266_check_cmd
  <2>1. /\ Complete(UART3_RX_STA) /\ task = "run" /\ task' = "look"
        /\ UART3_RX_STA' = UART3_RX_STA
        /\ UART3_RX_BUF' = [UART3_RX_BUF EXCEPT ![Count(UART3_RX_STA)] = 0]
    BY <1>3 DEF atk_8266_check_cmd
  <2>2. \A k \in 1 .. Count(UART3_RX_STA) : UART3_RX_BUF'[k - 1] = UART3_RX_BUF[k - 1]
    <3> TAKE k \in 1 .. Count(UART3_RX_STA)
    <3>1. k - 1 \in 0 .. RX_BUF_SIZE /\ k - 1 # Count(UART3_RX_STA)
      BY <1>1, SeenIsSeq, <1>2
    <3> QED
      BY <1>1, <2>1, <3>1 DEF TypeOK
  <2>3. Seen' = Seen
    BY <2>1, <2>2 DEF Seen
  <2>4. Receiver!Look
    BY <2>1, <2>3 DEF Receiver!Look, Seen
  <2> QED
    BY <2>4 DEF Receiver!Next
<1>4. CASE Release \/ Discard
  <2>1. UART3_RX_STA' = 0 /\ task' # "look"
    BY <1>4 DEF Release, Discard, Cleared
  <2>2. Count(UART3_RX_STA)' = 0 /\ ~ Complete(UART3_RX_STA)'
    BY <2>1 DEF Count, Complete, FLAG
  <2>3. Seen' = <<>>
    BY <1>1, <2>2, SeenIsSeqNext
  <2>4. Receiver!Clear
    BY <2>1, <2>2, <2>3 DEF Receiver!Clear, Seen
  <2> QED
    BY <2>4 DEF Receiver!Next
<1>5. CASE Keep
  <2>1. task = "look" /\ task' # "look" /\ UNCHANGED <<UART3_RX_STA, UART3_RX_BUF>>
    BY <1>5 DEF Keep
  <2>2. Receiver!Keep
    BY <2>1 DEF Receiver!Keep, Seen
  <2> QED
    BY <2>2 DEF Receiver!Next
<1> QED
  BY <1>3, <1>4, <1>5 DEF WiFiTask

\* The receiver begins with an empty frame that nobody reads.
LEMMA InitImplements == Init => Receiver!Init
<1> SUFFICES ASSUME Init
             PROVE  Receiver!Init
  OBVIOUS
<1>1. Count(UART3_RX_STA) = 0 /\ ~ Complete(UART3_RX_STA) /\ task # "look"
  BY DEF Init, Count, Complete, FLAG
<1>2. Seen = <<>>
  BY <1>1, InitInv, SeenIsSeq DEF IInv
<1> QED
  BY <1>1, <1>2 DEF Receiver!Init, Seen

\* The receiver keeps its promise to the task: a complete frame grows no
\* more, and the task reads it undisturbed (UART3IRQ, Timer_uart3_Callback).
THEOREM ReceiverImplemented == Spec => ImplementsReceiver
<1>1. IInv /\ IInv' /\ [Next]_vars
        => [Receiver!Next]_<<Seen, Complete(UART3_RX_STA), Looking>>
  <2> SUFFICES ASSUME IInv, IInv', [Next]_vars
               PROVE  Receiver!Next \/ UNCHANGED <<Seen, Complete(UART3_RX_STA), Looking>>
    OBVIOUS
  <2>1. CASE UNCHANGED vars
    BY <2>1 DEF vars, Seen, Looking
  <2> QED
    BY <2>1, IRQImplements, CallbackImplements, TaskImplements DEF Next
<1>2. IInv /\ [Next]_vars
        => [Receiver!Next]_<<[k \in 1 .. Count(UART3_RX_STA) |-> UART3_RX_BUF[k - 1]],
                             Complete(UART3_RX_STA), task = "look">>
  BY <1>1, StepInv DEF Seen, Looking
<1> QED
  BY InitInv, InitImplements, StepInv, <1>2, PTL DEF Spec, ImplementsReceiver, Receiver!Spec
=============================================================================
