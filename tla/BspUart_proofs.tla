----------------------------- MODULE BspUart_proofs -----------------------------
(***************************************************************************)
(* The transmit side of BspUart, for every set of tasks, every message and *)
(* every traffic on the receive side: tx_done_sem passes the buffer, the   *)
(* channel and the driver from one call to the interrupt and to the next.  *)
(***************************************************************************)
EXTENDS BspUart, TLAPS

Busy(t) == pc[t] \in Working

(* Who is in a call knows what to send; one task at most works, and then   *)
(* nobody has the semaphore.                                               *)
Callers ==
    /\ \A t \in Tasks : pc[t] # "out" => data[t] \in Data
    /\ \A t, u \in Tasks : Busy(t) /\ Busy(u) => t = u

(* How far the working task has come, with the transmitter at rest.        *)
Preparing(t) ==
    /\ ~sem /\ ~ftf /\ ~isr /\ unsent = 0 /\ job = data[t]
    /\ pc[t] # "memcpy" => tx_buf = job
    /\ pc[t] \in {"stop", "number", "enable"} => de
    /\ dma.on => dma.left = 0 /\ pc[t] \notin {"number", "enable"}
    /\ pc[t] = "enable" => dma.number = Size[job] /\ dma.left = Size[job] /\ fetched = <<>>

Prepared == \A t \in Tasks : Busy(t) => Preparing(t)

(* What the channel has fetched is the beginning of the job.               *)
Leaving ==
    ~sem /\ (\A t \in Tasks : ~Busy(t)) =>
        /\ job \in Data /\ tx_buf = job /\ de /\ dma.on
        /\ dma.number = Size[job] /\ dma.left <= Size[job]
        /\ Len(fetched) = Size[job] - dma.left
        /\ \A i \in 1..Len(fetched) : fetched[i] = <<job, i>>
        /\ dma.left > 0 => ~ftf /\ ~isr
        /\ dma.left = 0 => (ftf <=> ~isr)

Free == sem => /\ \A t \in Tasks : ~Busy(t)
               /\ ~ftf /\ ~isr /\ QuietWhenFree

SendInv == TypeOK /\ Callers /\ Prepared /\ Leaving /\ Free

(* The receive side keeps its types.                                       *)
LEMMA ReceiveType == ASSUME TypeOK, RxChar \/ LineIdle \/ USART1_IRQHandler
                     PROVE  TypeOK'
  <1> USE RxBufAssumption DEF TypeOK, sending, transmit, receive, turns
  <1>1. polite' \in BOOLEAN /\ owed' \in BOOLEAN
    <2>1. CASE RxChar
      BY <2>1, Zenon DEF RxChar
    <2>2. CASE LineIdle \/ USART1_IRQHandler
      BY <2>2 DEF LineIdle, USART1_IRQHandler
    <2> QED
      BY <2>1, <2>2
  <1>2. rx' \in [on : BOOLEAN, left : 0..rx_buf_size] /\ rx_len' \in 0..rx_buf_size
    <2>0. rx.left \in 0..rx_buf_size
      OBVIOUS
    <2>1. \/ rx' = rx
          \/ rx.left > 0 /\ rx' = [rx EXCEPT !.left = rx.left - 1]
          \/ rx' = [rx EXCEPT !.on = FALSE]
      BY DEF RxChar, LineIdle, USART1_IRQHandler
    <2>2. rx_len' = rx_len \/ rx_len' = rx_buf_size - rx.left
      BY DEF RxChar, LineIdle, USART1_IRQHandler
    <2>3. rx \in [on : BOOLEAN, left : 0..rx_buf_size] /\ rx_len \in 0..rx_buf_size
      OBVIOUS
    <2>4. rx_len' \in 0..rx_buf_size
      BY <2>0, <2>2, <2>3
    <2>5. CASE rx.left > 0 /\ rx' = [rx EXCEPT !.left = rx.left - 1]
      <3>1. rx.left - 1 \in 0..rx_buf_size
        BY <2>0, <2>5
      <3> QED
        BY <3>1, <2>3, <2>4, <2>5
    <2> QED
      BY <2>1, <2>3, <2>4, <2>5
  <1>3. held' \in BOOLEAN /\ idle' \in BOOLEAN
    <2>1. (held' = held \/ held' = TRUE \/ held' = FALSE) /\ (idle' = idle \/ idle' = TRUE \/ idle' = FALSE)
      BY DEF RxChar, LineIdle, USART1_IRQHandler
    <2> QED
      BY <2>1
  <1>4. burst' \in 0..rx_buf_size /\ last' \in 0..rx_buf_size
    BY DEF RxChar, LineIdle, USART1_IRQHandler
  <1>5. UNCHANGED <<sending, transmit>>
    BY DEF RxChar, LineIdle, USART1_IRQHandler
  <1> QED
    BY <1>1, <1>2, <1>3, <1>4, <1>5

(* And leaves the transmit side alone.                                     *)
LEMMA ReceiveInv == ASSUME SendInv, RxChar \/ LineIdle \/ USART1_IRQHandler
                    PROVE  SendInv'
  <1>1. TypeOK'
    BY ReceiveType DEF SendInv
  <1>2. UNCHANGED <<sending, transmit>>
    BY DEF RxChar, LineIdle, USART1_IRQHandler
  <1> QED
    BY <1>1, <1>2 DEF SendInv, sending, transmit, Callers, Prepared, Preparing, Leaving, Free,
       QuietWhenFree, Busy

(* A call begins, or times out: nothing is touched.                        *)
LEMMA CallInv == ASSUME SendInv, NEW t \in Tasks, Call(t) \/ Timeout(t)
                 PROVE  SendInv'
  <1> USE DEF SendInv, At, sending, transmit, receive, turns
  <1>1. PICK d \in Data \cup {None} : data' = [data EXCEPT ![t] = d] /\ (Call(t) => d \in Data)
    BY DEF Call, Timeout, TypeOK
  <1>2. /\ ~Busy(t) /\ ~Busy(t)' /\ pc' = [pc EXCEPT ![t] = IF Call(t) THEN "take" ELSE "out"]
        /\ UNCHANGED <<sem, tx_buf, job, dma, ftf, fetched, unsent, dir, de, isr, receive>>
    BY DEF Call, Timeout, Busy, Working, TypeOK
  <1>3. polite' \in BOOLEAN /\ owed' \in BOOLEAN
    BY Zenon DEF Call, Timeout, TypeOK
  <1>4. \A u \in Tasks : Busy(u)' = Busy(u) /\ (Busy(u) => data'[u] = data[u] /\ pc'[u] = pc[u])
    BY <1>1, <1>2 DEF Busy, TypeOK
  <1>5. TypeOK'
    BY <1>1, <1>2, <1>3 DEF TypeOK
  <1>6. Callers'
    BY <1>1, <1>2, <1>4 DEF Callers, TypeOK
  <1>7. Prepared'
    BY <1>2, <1>4 DEF Prepared, Preparing
  <1>8. Leaving' /\ Free'
    BY <1>2, <1>4 DEF Leaving, Free, QuietWhenFree
  <1> QED
    BY <1>5, <1>6, <1>7, <1>8

(* The semaphore is taken: the transmitter was at rest.                    *)
LEMMA TakeInv == ASSUME SendInv, NEW t \in Tasks, Take(t)
                 PROVE  SendInv'
  <1> USE DEF SendInv, At, sending, transmit, receive, turns, Take
  <1>1. \A u \in Tasks : ~Busy(u) /\ (Busy(u)' <=> u = t)
    BY DEF Free, Busy, Working, TypeOK
  <1>2. TypeOK'
    BY DEF TypeOK, Working
  <1>3. Callers'
    BY <1>1 DEF Callers, TypeOK
  <1>4. Prepared' /\ Leaving' /\ Free'
    BY <1>1 DEF Prepared, Preparing, Leaving, Free, QuietWhenFree, TypeOK
  <1> QED
    BY <1>2, <1>3, <1>4

(* The steps of the working task.                                          *)
LEMMA WorkInv ==
    ASSUME SendInv, NEW t \in Tasks, Memcpy(t) \/ Direction(t) \/ Stop(t) \/ Number(t) \/ Enable(t)
    PROVE  SendInv'
  <1> USE DEF At, sending, transmit, receive, turns
  <1>0. TypeOK /\ Callers /\ Prepared /\ Leaving /\ Free
    BY DEF SendInv
  <1>1. /\ Busy(t) /\ Preparing(t) /\ data[t] \in Data /\ Size[data[t]] \in Nat \ {0}
        /\ \A u \in Tasks : Busy(u) => u = t
    BY <1>0, DataAssumption
       DEF Memcpy, Direction, Stop, Number, Enable, Prepared, Callers, Busy, Working
  <1>2. UNCHANGED <<sem, data, job, ftf, unsent, isr, receive, turns>>
    BY DEF Memcpy, Direction, Stop, Number, Enable
  <1>3. TypeOK'
    <2>1. pc' \in [Tasks -> Working \cup {"out", "take"}]
      BY <1>0 DEF TypeOK, Memcpy, Direction, Stop, Number, Enable, Working
    <2>2. tx_buf' \in Data \cup {None}
      BY <1>0, <1>1 DEF TypeOK, Memcpy, Direction, Stop, Number, Enable
    <2>3. dma' \in [on : BOOLEAN, number : Nat, left : Nat]
      BY <1>0, <1>1 DEF TypeOK, Memcpy, Direction, Stop, Number, Enable
    <2>4. fetched' \in Seq((Data \cup {None}) \X Nat)
      <3>1. fetched' = fetched \/ fetched' = <<>>
        BY DEF Memcpy, Direction, Stop, Number, Enable
      <3>2. fetched \in Seq((Data \cup {None}) \X Nat)
        BY <1>0 DEF TypeOK
      <3>3. ASSUME NEW S PROVE <<>> \in Seq(S)
        OBVIOUS
      <3> QED
        BY <3>1, <3>2, <3>3
    <2>5. dir' \in {"UART_DIR_RECV", "UART_DIR_SEND"}
      BY <1>0 DEF TypeOK, Memcpy, Direction, Stop, Number, Enable
    <2>6. de' = de \/ de' = TRUE
      BY DEF Memcpy, Direction, Stop, Number, Enable
    <2> QED
      BY <1>0, <1>2, <2>1, <2>2, <2>3, <2>4, <2>5, <2>6 DEF TypeOK
  <1>4. Callers'
    <2>1. PICK l \in Working \cup {"out"} : pc' = [pc EXCEPT ![t] = l]
      BY DEF Memcpy, Direction, Stop, Number, Enable, Working
    <2> QED
      BY <2>1, <1>0, <1>1, <1>2 DEF TypeOK, Callers, Busy
  <1>5. CASE Enable(t)
    <2>1. \A u \in Tasks : ~Busy(u)'
      BY <1>0, <1>1, <1>5 DEF Enable, Busy, Working, TypeOK
    <2>2. /\ tx_buf' = job /\ de' /\ dma' = [dma EXCEPT !.on = TRUE] /\ job \in Data
          /\ dma.number = Size[job] /\ dma.left = Size[job] /\ fetched' = <<>>
      BY <1>0, <1>1, <1>5 DEF Enable, Preparing
    <2>3. Leaving'
      BY <2>1, <2>2, <1>0, <1>1, <1>2 DEF Leaving, Preparing, TypeOK
    <2> QED
      BY <2>1, <2>3, <1>1, <1>2, <1>3, <1>4 DEF SendInv, Prepared, Preparing, Free
  <1>6. CASE ~Enable(t)
    <2>1. Busy(t)' /\ \A u \in Tasks : Busy(u)' => u = t
      BY <1>0, <1>1, <1>6 DEF TypeOK, Memcpy, Direction, Stop, Number, Busy, Working
    <2>2. Preparing(t)'
      BY <1>0, <1>1, <1>2, <1>6 DEF TypeOK, Memcpy, Direction, Stop, Number, Preparing
    <2> QED
      BY <2>1, <2>2, <1>1, <1>2, <1>3, <1>4 DEF SendInv, Prepared, Leaving, Free, Preparing
  <1> QED
    BY <1>5, <1>6

(* The hardware works only while the last call's job leaves.               *)
LEMMA HardwareInv == ASSUME SendInv, Fetch \/ Transmit \/ FullTransfer
                     PROVE  SendInv'
  <1> USE DEF sending, transmit, receive, turns
  <1>0. TypeOK /\ Callers /\ Prepared /\ Leaving /\ Free
    BY DEF SendInv
  <1>1. ~sem /\ \A t \in Tasks : ~Busy(t)
    BY <1>0 DEF Fetch, Transmit, FullTransfer, Prepared, Preparing, Free, QuietWhenFree, TypeOK
  <1>2. UNCHANGED <<sem, pc, data, tx_buf, job, dir, de, receive, turns>>
    BY DEF Fetch, Transmit, FullTransfer
  <1>3. \A t \in Tasks : ~Busy(t)'
    BY <1>1, <1>2 DEF Busy
  <1>l. /\ job \in Data /\ tx_buf = job /\ de /\ dma.on
        /\ dma.number = Size[job] /\ dma.left <= Size[job] /\ Size[job] \in Nat
        /\ Len(fetched) = Size[job] - dma.left
        /\ \A i \in 1..Len(fetched) : fetched[i] = <<job, i>>
        /\ dma.left > 0 => ~ftf /\ ~isr
        /\ dma.left = 0 => (ftf <=> ~isr)
    BY <1>0, <1>1, DataAssumption DEF Leaving
  <1>4. CASE Fetch
    <2>1. /\ dma' = [dma EXCEPT !.left = dma.left - 1] /\ dma.left > 0 /\ unsent' = unsent + 1
          /\ unsent < 2 /\ isr' = isr /\ ftf' = (ftf \/ dma.left = 1)
          /\ fetched' = Append(fetched, <<tx_buf, dma.number - dma.left + 1>>)
      BY <1>4 DEF Fetch
    <2>2. TypeOK'
      <3>0. unsent' \in 0..2
        BY <1>0, <2>1 DEF TypeOK
      <3>1. dma' \in [on : BOOLEAN, number : Nat, left : Nat]
        <4>1. dma.left - 1 \in Nat
          BY <1>0, <2>1 DEF TypeOK
        <4> QED
          BY <4>1, <1>0, <2>1 DEF TypeOK
      <3>2. fetched' \in Seq((Data \cup {None}) \X Nat)
        BY <1>0, <1>l, <2>1 DEF TypeOK
      <3>3. ftf' \in BOOLEAN
        BY <1>0, <2>1, Zenon DEF TypeOK
      <3> QED
        BY <3>0, <3>1, <3>2, <3>3, <1>0, <1>2, <2>1 DEF TypeOK
    <2>3. /\ Len(fetched') = Size[job] - dma'.left
          /\ \A i \in 1..Len(fetched') : fetched'[i] = <<job, i>>
      <3>1. dma'.left = dma.left - 1 /\ dma.left \in Nat /\ fetched \in Seq((Data \cup {None}) \X Nat)
        BY <1>0, <2>1 DEF TypeOK
      <3>2. fetched' = Append(fetched, <<job, Len(fetched) + 1>>)
        BY <3>1, <1>l, <2>1
      <3> QED
        BY <3>1, <3>2, <1>l
    <2>4. (dma'.left > 0 => ~ftf' /\ ~isr') /\ (dma'.left = 0 => (ftf' <=> ~isr'))
      <3>1. dma'.left = dma.left - 1 /\ dma.left \in Nat
        BY <1>0, <2>1 DEF TypeOK
      <3>2. ~isr' /\ (ftf' <=> dma.left = 1)
        BY <1>l, <2>1
      <3> QED
        BY <2>1, <3>1, <3>2
    <2>5. Leaving'
      <3>1. /\ dma'.on = dma.on /\ dma'.number = dma.number /\ dma'.left <= Size[job]
            /\ tx_buf' = tx_buf /\ job' = job /\ de' = de
        <4>1. dma'.left = dma.left - 1 /\ dma'.on = dma.on /\ dma'.number = dma.number
          BY <1>0, <2>1 DEF TypeOK
        <4>2. dma.left \in Nat
          BY <1>0 DEF TypeOK
        <4> QED
          BY <4>1, <4>2, <1>2, <1>l
      <3> QED
        BY <3>1, <2>3, <2>4, <1>l DEF Leaving
    <2> QED
      BY <2>2, <2>5, <1>0, <1>1, <1>2, <1>3 DEF SendInv, Callers, Prepared, Free
  <1>5. CASE Transmit
    BY <1>5, <1>0, <1>1, <1>2, <1>3, <1>l
       DEF Transmit, SendInv, TypeOK, Callers, Prepared, Leaving, Free
  <1>6. CASE FullTransfer
    <2>1. /\ ftf /\ ~isr /\ ftf' = FALSE /\ isr' = TRUE
          /\ UNCHANGED <<dma, fetched, unsent>>
      BY <1>6 DEF FullTransfer
    <2>2. TypeOK'
      BY <2>1, <1>0, <1>2 DEF TypeOK
    <2>3. ~(dma.left > 0)
      BY <2>1, <1>l
    <2>4. Leaving'
      BY <2>1, <2>3, <1>2, <1>l DEF Leaving
    <2> QED
      BY <2>2, <2>4, <1>0, <1>1, <1>2, <1>3 DEF SendInv, Callers, Prepared, Free
  <1> QED
    BY <1>4, <1>5, <1>6

(* The line is turned around: everything was fetched and has left.         *)
LEMMA TransmittedInv == ASSUME SendInv, Transmitted
                        PROVE  SendInv'
  <1> USE DEF Transmitted, TurnAround
  <1>0. TypeOK /\ Callers /\ Prepared /\ Leaving /\ Free
    BY DEF SendInv
  <1>1. ~sem /\ \A t \in Tasks : ~Busy(t)
    BY <1>0 DEF Prepared, Preparing, Free
  <1>2. dma.left = 0 /\ ~ftf
    BY <1>0, <1>1 DEF Leaving, TypeOK
  <1>3. TypeOK'
    <2>1. rx' \in [on : BOOLEAN, left : 0..rx_buf_size]
      BY RxBufAssumption DEF Rearmed
    <2>2. /\ sem' \in BOOLEAN /\ de' \in BOOLEAN /\ isr' \in BOOLEAN /\ held' \in BOOLEAN
          /\ dir' \in {"UART_DIR_RECV", "UART_DIR_SEND"} /\ owed' \in BOOLEAN
      OBVIOUS
    <2>3. UNCHANGED <<pc, data, tx_buf, job, dma, ftf, fetched, unsent, rx_len, burst, idle, last, polite>>
      OBVIOUS
    <2> HIDE DEF Transmitted, TurnAround
    <2> QED
      BY <2>1, <2>2, <2>3, <1>0 DEF TypeOK
  <1>4. \A t \in Tasks : ~Busy(t)'
    BY <1>1 DEF Busy
  <1> QED
    BY <1>0, <1>1, <1>2, <1>3, <1>4 DEF SendInv, Callers, Prepared, Leaving, Free, QuietWhenFree

(* The initial state.                                                      *)
LEMMA InitInv == Init => SendInv
  <1> SUFFICES ASSUME Init PROVE SendInv
    OBVIOUS
  <1> USE DEF Init
  <1>1. TypeOK
    <2>1. /\ sem \in BOOLEAN /\ ftf \in BOOLEAN /\ de \in BOOLEAN /\ isr \in BOOLEAN
          /\ held \in BOOLEAN /\ idle \in BOOLEAN /\ owed \in BOOLEAN
          /\ polite \in BOOLEAN
      OBVIOUS
    <2>2. /\ rx \in [on : BOOLEAN, left : 0..rx_buf_size] /\ rx_len \in 0..rx_buf_size
          /\ burst \in 0..rx_buf_size /\ last \in 0..rx_buf_size
      BY RxBufAssumption
    <2>3. dma \in [on : BOOLEAN, number : Nat, left : Nat] /\ unsent \in 0..2
      OBVIOUS
    <2> QED
      BY <2>1, <2>2, <2>3 DEF TypeOK
  <1>2. Callers /\ Prepared /\ Leaving /\ Free
    BY DEF Callers, Prepared, Leaving, Free, QuietWhenFree, Busy, Working
  <1> QED
    BY <1>1, <1>2 DEF SendInv

(* Every step preserves the invariant.                                     *)
LEMMA StepInv == SendInv /\ [Next]_vars => SendInv'
  <1> SUFFICES ASSUME SendInv, [Next]_vars PROVE SendInv'
    OBVIOUS
  <1>1. CASE UNCHANGED vars
    BY <1>1 DEF vars, sending, transmit, receive, turns, SendInv, TypeOK, Callers, Prepared, Preparing,
       Leaving, Free, QuietWhenFree, Busy
  <1>2. ASSUME NEW t \in Tasks, Call(t) \/ bsp_uart_send(t) PROVE SendInv'
    BY <1>2, CallInv, TakeInv, WorkInv DEF bsp_uart_send
  <1> QED
    BY <1>1, <1>2, ReceiveInv, HardwareInv, TransmittedInv DEF Next, DMA0_Channel3_IRQHandler

(* The invariant of the transmit side holds in every reachable state.      *)
THEOREM UartInvariant == Spec => []SendInv
  BY InitInv, StepInv, PTL DEF Spec

(* The driver's variables have their types.                                *)
THEOREM UartTypeCorrect == Spec => []TypeOK
  <1>1. SendInv => TypeOK
    BY DEF SendInv
  <1> QED
    BY <1>1, UartInvariant, PTL

(* When the semaphore is given the driver is off and the transmitter rests.*)
THEOREM UartQuietWhenFree == Spec => []QuietWhenFree
  <1>1. SendInv => QuietWhenFree
    BY DEF SendInv, Free, QuietWhenFree
  <1> QED
    BY <1>1, UartInvariant, PTL

(* A taken semaphore has a giver: a task on its way to start the channel,  *)
(* the channel with something to fetch, its flag, or its interrupt.        *)
HasGiver ==
    ~sem => \/ \E t \in Tasks : Busy(t)
            \/ dma.on /\ dma.left > 0
            \/ ftf
            \/ isr

(* No send leaves the semaphore taken with nothing at work that will give  *)
(* it back, however calls, timeouts and interrupts fall: the safety half   *)
(* of Released (bsp_uart.c:192-210).                                       *)
THEOREM UartHasGiver == Spec => []HasGiver
<1>1. SendInv => HasGiver
  BY DEF SendInv, TypeOK, Leaving, HasGiver
<1> QED BY <1>1, UartInvariant, PTL

(* No character leaves with the driver off, whoever sends and when.        *)
THEOREM UartDriverHeld == Spec => DriverHeld
  <1>1. SendInv /\ [Next]_vars => (unsent' < unsent => de /\ de')
    <2> SUFFICES ASSUME SendInv, [Next]_vars, unsent' < unsent PROVE de /\ de'
      OBVIOUS
    <2>1. unsent \in 0..2
      BY DEF SendInv, TypeOK
    <2>a. Transmit \/ unsent' = unsent \/ unsent' = unsent + 1
      BY DEF Next, vars, sending, transmit, receive, turns, bsp_uart_send, At, Call, Take, Timeout,
         Memcpy, Direction, Stop, Number, Enable, Fetch, RxChar, LineIdle, USART1_IRQHandler,
         DMA0_Channel3_IRQHandler, FullTransfer, Transmitted, TurnAround
    <2>2. Transmit
      BY <2>1, <2>a
    <2>3. ~sem /\ \A t \in Tasks : ~Busy(t)
      BY <2>1, <2>2 DEF Transmit, SendInv, Free, QuietWhenFree, Prepared, Preparing
    <2> QED
      BY <2>2, <2>3 DEF Transmit, SendInv, Leaving
  <1> QED
    BY <1>1, UartInvariant, PTL DEF Spec, DriverHeld

(* tx_buf is not written while the channel reads it or its bytes leave.    *)
THEOREM UartBufferStable == Spec => BufferStable
  <1>1. SendInv /\ [Next]_vars => (tx_buf' # tx_buf => ~dma.on \/ (dma.left = 0 /\ unsent = 0))
    <2> SUFFICES ASSUME SendInv, [Next]_vars, tx_buf' # tx_buf
                 PROVE  ~dma.on \/ (dma.left = 0 /\ unsent = 0)
      OBVIOUS
    <2>1. PICK t \in Tasks : Memcpy(t)
      BY DEF Next, vars, sending, transmit, receive, turns, bsp_uart_send, At, Call, Take, Timeout,
         Direction, Stop, Number, Enable, Fetch, Transmit, RxChar, LineIdle, USART1_IRQHandler,
         DMA0_Channel3_IRQHandler, FullTransfer, Transmitted, TurnAround
    <2> QED
      BY <2>1 DEF Memcpy, At, SendInv, Prepared, Preparing, Busy, Working
  <1> QED
    BY <1>1, UartInvariant, PTL DEF Spec, BufferStable

(* Each accepted call's message leaves whole before the semaphore is given *)
(* back.                                                                   *)
THEOREM UartWholeMessage == Spec => WholeMessage
  <1>1. SendInv /\ [Next]_vars =>
          (~sem /\ sem' => /\ Len(fetched) = Size[job] /\ unsent = 0
                           /\ \A i \in 1..Len(fetched) : fetched[i] = <<job, i>>)
    <2> SUFFICES ASSUME SendInv, [Next]_vars, ~sem, sem'
                 PROVE  /\ Len(fetched) = Size[job] /\ unsent = 0
                        /\ \A i \in 1..Len(fetched) : fetched[i] = <<job, i>>
      OBVIOUS
    <2>1. Transmitted
      BY DEF Next, vars, sending, transmit, receive, turns, bsp_uart_send, At, Call, Take, Timeout,
         Memcpy, Direction, Stop, Number, Enable, Fetch, Transmit, RxChar, LineIdle,
         USART1_IRQHandler, DMA0_Channel3_IRQHandler, FullTransfer
    <2>2. \A t \in Tasks : ~Busy(t)
      BY <2>1 DEF Transmitted, SendInv, Prepared, Preparing
    <2>3. job \in Data /\ Size[job] \in Nat /\ dma.left = 0
      BY <2>1, <2>2, DataAssumption DEF Transmitted, SendInv, Leaving, TypeOK
    <2> QED
      BY <2>1, <2>2, <2>3 DEF Transmitted, SendInv, Leaving
  <1> QED
    BY <1>1, UartInvariant, PTL DEF Spec, WholeMessage
-----------------------------------------------------------------------------
(* The receive side.  As long as stations take turns, nothing waits in the *)
(* data register, the channel runs unless a frame is yet to be answered,   *)
(* and from the first character of a burst until the idle interrupt nobody *)
(* is in a call and the channel counts the burst.                          *)
NobodyCalls == pc = [t \in Tasks |-> "out"]

Received ==
    polite =>
        /\ ~held
        /\ ~owed => rx.on
        /\ idle => owed
        /\ burst > 0 => ~idle
        /\ burst > 0 \/ idle =>
              /\ rx.on /\ sem /\ NobodyCalls
              /\ rx.left = rx_buf_size - (IF idle THEN last ELSE burst)
        /\ burst = 0 /\ ~idle /\ rx.on => rx.left = rx_buf_size

(* A bus that was used impolitely stays so.                                *)
LEMMA PoliteBefore == ASSUME [Next]_vars, polite' PROVE polite
  <1>1. polite' = polite \/ (\E t \in Tasks : Call(t)) \/ RxChar
    BY DEF Next, vars, sending, transmit, receive, turns, bsp_uart_send, At, Take, Timeout,
       Memcpy, Direction, Stop, Number, Enable, Fetch, Transmit, LineIdle, USART1_IRQHandler,
       DMA0_Channel3_IRQHandler, FullTransfer, Transmitted, TurnAround
  <1>2. CASE \E t \in Tasks : Call(t)
    BY <1>2, Zenon DEF Call
  <1>3. CASE RxChar
    BY <1>3, Zenon DEF RxChar
  <1> QED
    BY <1>1, <1>2, <1>3

(* A character of a polite burst is stored and counted.                    *)
LEMMA RxCharReceived == ASSUME SendInv, Received, polite, polite', RxChar
                        PROVE  Received'
  <1>1. /\ burst' = burst + 1 /\ burst < rx_buf_size
        /\ UNCHANGED <<sem, pc, idle, last, owed>>
    BY DEF RxChar, sending
  <1>2. burst > 0 \/ (~owed /\ ~de /\ NobodyCalls)
    BY Zenon DEF RxChar, NobodyCalls
  <1>a. NobodyCalls /\ ~de => sem
    BY DEF NobodyCalls, SendInv, Leaving, Busy, Working
  <1>3. /\ burst \in 0..rx_buf_size /\ rx_buf_size \in Nat
        /\ rx \in [on : BOOLEAN, left : 0..rx_buf_size]
    BY RxBufAssumption DEF SendInv, TypeOK
  <1>4. ~held /\ ~idle /\ rx.on /\ sem /\ NobodyCalls /\ rx.left = rx_buf_size - burst
    BY <1>2, <1>3, <1>a DEF Received
  <1>5. rx.left > 0
    BY <1>1, <1>3, <1>4
  <1>6. rx' = [rx EXCEPT !.left = @ - 1] /\ held' = held
    BY <1>4, <1>5 DEF RxChar
  <1>7. rx'.on /\ rx'.left = rx_buf_size - burst' /\ burst' > 0
    BY <1>1, <1>3, <1>4, <1>6
  <1> QED
    BY <1>1, <1>4, <1>6, <1>7 DEF Received, NobodyCalls

(* The end of a burst is what the channel has counted.                     *)
LEMMA LineIdleReceived == ASSUME SendInv, Received, polite, LineIdle
                          PROVE  Received'
  <1>1. /\ burst > 0 /\ burst' = 0 /\ idle' = TRUE /\ last' = burst /\ owed' = TRUE
        /\ UNCHANGED <<sem, pc, rx, held, polite>>
    BY DEF LineIdle, sending
  <1>2. ~held /\ ~idle /\ rx.on /\ sem /\ NobodyCalls /\ rx.left = rx_buf_size - burst
    BY <1>1 DEF Received
  <1> QED
    BY <1>1, <1>2 DEF Received, NobodyCalls

(* Every step keeps Received.                                              *)
LEMMA ReceivedStep == SendInv /\ Received /\ [Next]_vars => Received'
  <1> SUFFICES ASSUME SendInv, Received, [Next]_vars, polite' PROVE Received'
    BY DEF Received
  <1>0. polite
    BY PoliteBefore
  <1>1. CASE UNCHANGED <<turns, receive, sem, pc>>
    BY <1>1 DEF turns, receive, Received, NobodyCalls
  <1>2. ASSUME NEW t \in Tasks, Call(t) PROVE Received'
    <2>1. burst = 0 /\ ~idle
      BY <1>2, Zenon DEF Call
    <2>2. UNCHANGED <<receive, owed>>
      BY <1>2 DEF Call
    <2> QED
      BY <1>0, <2>1, <2>2 DEF turns, receive, Received
  <1>3. ASSUME NEW t \in Tasks, bsp_uart_send(t) PROVE Received'
    <2>1. UNCHANGED <<receive, turns>>
      BY <1>3 DEF bsp_uart_send, Take, Timeout, Memcpy, Direction, Stop, Number, Enable
    <2>2. ~NobodyCalls
      BY <1>3 DEF bsp_uart_send, At, Take, Timeout, Memcpy, Direction, Stop, Number, Enable,
         NobodyCalls
    <2> QED
      BY <1>0, <2>1, <2>2 DEF turns, receive, Received
  <1>4. CASE Fetch \/ Transmit \/ FullTransfer
    <2>1. UNCHANGED <<turns, receive, sem, pc>>
      BY <1>4 DEF Fetch, Transmit, FullTransfer, sending
    <2> QED
      BY <2>1, <1>1
  <1>5. CASE USART1_IRQHandler
    <2>1. /\ idle' = FALSE /\ held' = FALSE /\ idle /\ ~rx'.on
          /\ burst' = burst /\ owed' = owed
      BY <1>5 DEF USART1_IRQHandler, SendInv, TypeOK, turns
    <2>2. ~(burst > 0) /\ owed
      BY <1>0, <2>1 DEF Received
    <2> QED
      BY <2>1, <2>2 DEF Received
  <1>6. CASE Transmitted
    <2>1. ~sem
      BY <1>6 DEF Transmitted, SendInv, Free
    <2>2. ~(burst > 0) /\ ~idle /\ ~held
      BY <1>0, <2>1 DEF Received
    <2>3. /\ rx' = [on |-> TRUE, left |-> rx_buf_size - 0] /\ held' = FALSE
          /\ burst' = burst /\ idle' = idle
      BY <1>6, <2>2 DEF Transmitted, TurnAround, Rearmed
    <2>4. rx'.left = rx_buf_size
      BY <2>3, RxBufAssumption
    <2> QED
      BY <2>2, <2>3, <2>4 DEF Received
  <1>7. CASE UNCHANGED vars
    <2>1. UNCHANGED <<turns, receive, sem, pc>>
      BY <1>7 DEF vars, sending
    <2> QED
      BY <2>1, <1>1
  <1> QED
    BY <1>0, <1>2, <1>3, <1>4, <1>5, <1>6, <1>7, RxCharReceived, LineIdleReceived
       DEF Next, DMA0_Channel3_IRQHandler

(* Received holds in every reachable state.                                *)
THEOREM UartReceived == Spec => []Received
  <1>1. Init => Received
    BY DEF Init, Received
  <1> QED
    BY <1>1, ReceivedStep, UartInvariant, PTL DEF Spec

(* As long as stations take turns, what bsp_uart hands to its user as the  *)
(* length is that of the burst that just ended, for every burst and every  *)
(* schedule of tasks and interrupts: each end of a message leaves the      *)
(* receive channel running from the start.                                 *)
THEOREM UartRxLenWhenPolite == Spec => RxLenWhenPolite
  <1>1. SendInv /\ Received /\ [Next]_vars
          => [polite /\ idle /\ ~idle' => rx_len' = last]_vars
    <2> SUFFICES ASSUME SendInv, Received, Next, polite, idle, ~idle'
                 PROVE  rx_len' = last
      BY DEF vars
    <2>1. USART1_IRQHandler
      BY DEF Next, sending, transmit, receive, bsp_uart_send, At, Call, Take, Timeout,
         Memcpy, Direction, Stop, Number, Enable, Fetch, Transmit, RxChar, LineIdle,
         DMA0_Channel3_IRQHandler, FullTransfer, Transmitted, TurnAround
    <2>2. rx_len' = rx_buf_size - rx.left
      BY <2>1 DEF USART1_IRQHandler
    <2>3. rx.left = rx_buf_size - last
      BY DEF Received
    <2>4. last \in Nat /\ rx_buf_size \in Nat
      BY RxBufAssumption DEF SendInv, TypeOK
    <2> QED
      BY <2>2, <2>3, <2>4
  <1> QED
    BY <1>1, UartInvariant, UartReceived, PTL DEF Spec, RxLenWhenPolite
=============================================================================
