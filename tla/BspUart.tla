-------------------------------- MODULE BspUart --------------------------------
(***************************************************************************)
(* One device of the board's UART driver (bsp_uart.c): tasks send through  *)
(* bsp_uart_send, the transmit DMA and the transmitter work on the buffer  *)
(* after the call has returned, and the DMA's interrupt turns the line     *)
(* around; the idle interrupt hands over what the receive DMA stored.      *)
(* Both interrupts have priority 5: neither preempts the other, and tasks  *)
(* stand still while one runs, even while it waits for the transmitter.    *)
(***************************************************************************)
EXTENDS Integers, Sequences

CONSTANTS Tasks,         (* the tasks that call bsp_uart_send              *)
          Data,          (* what they send                                 *)
          None,          (* no data                                        *)
          Size,          (* the number of bytes of each                    *)
          rx_buf_size    (* BSP_UART_RX_BUF_SIZE                           *)

ASSUME DataAssumption == None \notin Data /\ Size \in [Data -> Nat \ {0}]
ASSUME RxBufAssumption == rx_buf_size \in Nat \ {0}

VARIABLES
    sem,     (* tx_done_sem is given                                       *)
    pc,      (* where each task is in bsp_uart_send                        *)
    data,    (* what it was called with                                    *)
    tx_buf,  (* what tx_buf holds                                          *)
    dma,     (* transmit channel: [on, number, left]                       *)
    ftf,     (* its full-transfer flag                                     *)
    fetched, (* the characters it has read since it was started            *)
    unsent,  (* how many of them the transmitter still holds               *)
    dir,     (* curr_dir                                                   *)
    de,      (* the DE pin: the driver is on                               *)
    isr,     (* DMA0_Channel3_IRQHandler waits for TC                      *)
    rx,      (* receive channel: [on, left]                                *)
    rx_len,  (* rx_len of the device                                       *)
    held,    (* a character waits in the data register                     *)
    burst,   (* characters received since the line was idle                *)
    idle,    (* the idle flag                                              *)
    last,    (* history: the length of the burst that ended last           *)
    job,     (* history: what the last accepted call was to send           *)
    owed,    (* history: a frame has come in since a message last left     *)
    polite   (* history: stations took turns on the bus, this one after    *)
             (* each frame                                                 *)

sending   == <<sem, pc, data, tx_buf, job>>
transmit  == <<dma, ftf, fetched, unsent, dir, de, isr>>
receive   == <<rx, rx_len, held, burst, idle, last>>
turns     == <<owed, polite>>
vars      == <<sending, transmit, receive, turns>>

Working == {"memcpy", "direction", "stop", "number", "enable"}

Init ==
    /\ sem = TRUE /\ pc = [t \in Tasks |-> "out"] /\ data = [t \in Tasks |-> None]
    /\ tx_buf = None /\ job = None
    /\ dma = [on |-> FALSE, number |-> 0, left |-> 0] /\ ftf = FALSE
    /\ fetched = <<>> /\ unsent = 0
    /\ dir = "UART_DIR_RECV" /\ de = FALSE /\ isr = FALSE
    /\ rx = [on |-> TRUE, left |-> rx_buf_size] /\ rx_len = 0 /\ held = FALSE
    /\ burst = 0 /\ idle = FALSE /\ last = 0
    /\ owed = FALSE /\ polite = TRUE

-----------------------------------------------------------------------------
(* bsp_uart_send.                                                          *)

Call(t) ==
    /\ ~isr
    /\ pc[t] = "out" /\ pc' = [pc EXCEPT ![t] = "take"]
    /\ \E d \in Data : data' = [data EXCEPT ![t] = d]
    /\ polite' = (polite /\ burst = 0 /\ ~idle)
    /\ UNCHANGED <<sem, tx_buf, job, transmit, receive, owed>>

At(t, l, next) == ~isr /\ pc[t] = l /\ pc' = [pc EXCEPT ![t] = next]

TakeAnyway(t) ==   \* Mutant: the result of the take is not looked at
    /\ At(t, "take", "memcpy")
    /\ sem' = FALSE /\ job' = data[t]
    /\ UNCHANGED <<data, tx_buf, transmit, receive, turns>>

Take(t) ==
    /\ At(t, "take", "memcpy")
    /\ sem /\ sem' = FALSE
    /\ job' = data[t]
    /\ UNCHANGED <<data, tx_buf, transmit, receive, turns>>

(* 100 ms have passed: the call returns -1.                                *)
Timeout(t) ==
    /\ At(t, "take", "out")
    /\ ~sem
    /\ UNCHANGED <<sem, data, tx_buf, job, transmit, receive, turns>>

Memcpy(t) ==
    /\ At(t, "memcpy", "direction")
    /\ tx_buf' = data[t]
    /\ UNCHANGED <<sem, data, job, transmit, receive, turns>>

DirectionLate(t) ==   \* Mutant: DE is left to whoever enables the channel
    /\ At(t, "direction", "stop")
    /\ dir' = "UART_DIR_SEND"
    /\ UNCHANGED <<sem, data, tx_buf, job, dma, ftf, fetched, unsent, de, isr, receive, turns>>

Direction(t) ==
    /\ At(t, "direction", "stop")
    /\ de' = TRUE /\ dir' = "UART_DIR_SEND"
    /\ UNCHANGED <<sem, data, tx_buf, job, dma, ftf, fetched, unsent, isr, receive, turns>>

Stop(t) ==
    /\ At(t, "stop", "number")
    /\ dma' = [dma EXCEPT !.on = FALSE]
    /\ UNCHANGED <<sem, data, tx_buf, job, ftf, fetched, unsent, dir, de, isr, receive, turns>>

NumberKept(t) ==   \* Mutant: the channel keeps the number of the first transfer
    /\ At(t, "number", "enable")
    /\ dma' = IF dma.number = 0 THEN [dma EXCEPT !.number = Size[data[t]], !.left = Size[data[t]]]
                                ELSE [dma EXCEPT !.left = dma.number]
    /\ fetched' = <<>>
    /\ UNCHANGED <<sem, data, tx_buf, job, ftf, unsent, dir, de, isr, receive, turns>>

NumberShort(t) ==   \* Mutant: one byte too few, none of a message of one byte
    /\ At(t, "number", "enable")
    /\ dma' = [dma EXCEPT !.number = Size[data[t]] - 1, !.left = Size[data[t]] - 1]
    /\ fetched' = <<>>
    /\ UNCHANGED <<sem, data, tx_buf, job, ftf, unsent, dir, de, isr, receive, turns>>

(* The address and the number of bytes.                                    *)
Number(t) ==
    /\ At(t, "number", "enable")
    /\ dma' = [dma EXCEPT !.number = Size[data[t]], !.left = Size[data[t]]]
    /\ fetched' = <<>>
    /\ UNCHANGED <<sem, data, tx_buf, job, ftf, unsent, dir, de, isr, receive, turns>>

Enable(t) ==
    /\ At(t, "enable", "out")
    /\ dma' = [dma EXCEPT !.on = TRUE]
    /\ UNCHANGED <<sem, data, tx_buf, job, ftf, fetched, unsent, dir, de, isr, receive, turns>>

bsp_uart_send(t) ==
    \/ Take(t) \/ Timeout(t) \/ Memcpy(t) \/ Direction(t) \/ Stop(t) \/ Number(t) \/ Enable(t)

-----------------------------------------------------------------------------
(* The hardware: the DMA fetches bytes for the transmitter, which holds    *)
(* two of them; TC is set when it holds none.                              *)

Fetch ==
    /\ dma.on /\ dma.left > 0 /\ unsent < 2
    /\ fetched' = Append(fetched, <<tx_buf, dma.number - dma.left + 1>>)
    /\ dma' = [dma EXCEPT !.left = @ - 1]
    /\ unsent' = unsent + 1
    /\ ftf' = (ftf \/ dma.left = 1)
    /\ UNCHANGED <<sending, dir, de, isr, receive, turns>>

Transmit ==
    /\ unsent > 0 /\ unsent' = unsent - 1
    /\ UNCHANGED <<sending, dma, ftf, fetched, dir, de, isr, receive, turns>>

(* A character arrives: to the buffer, or it waits in the data register.   *)
(* No burst is longer than rx_buf_size: a Modbus frame has at most 256.    *)
(* The first of a polite burst finds the last frame answered, the driver   *)
(* off and nobody about to send; it need not find the receiver running.    *)
RxChar ==
    /\ burst < rx_buf_size /\ burst' = burst + 1
    /\ IF rx.on /\ rx.left > 0 THEN rx' = [rx EXCEPT !.left = @ - 1] /\ UNCHANGED held
                               ELSE held' = TRUE /\ UNCHANGED rx
    /\ polite' = (polite /\ (burst > 0 \/ (~owed /\ ~de /\ pc = [t \in Tasks |-> "out"])))
    /\ UNCHANGED <<sending, transmit, rx_len, idle, last, owed>>

LineIdle ==
    /\ burst > 0 /\ burst' = 0
    /\ idle' = TRUE /\ last' = burst /\ owed' = TRUE
    /\ UNCHANGED <<sending, transmit, rx, rx_len, held, polite>>

-----------------------------------------------------------------------------
(* The interrupts.                                                         *)

USART1_IRQHandler ==
    /\ idle /\ ~isr
    /\ idle' = FALSE /\ held' = FALSE
    /\ rx_len' = rx_buf_size - rx.left
    /\ rx' = [rx EXCEPT !.on = FALSE]
    /\ UNCHANGED <<sending, transmit, burst, last, turns>>

FullTransfer ==
    /\ ftf /\ ~isr
    /\ ftf' = FALSE /\ isr' = TRUE
    /\ UNCHANGED <<sending, dma, fetched, unsent, dir, de, receive, turns>>

RearmedForMore == [on |-> TRUE, left |-> rx_buf_size + 1]   \* Mutant: one byte too many

(* The receive channel as it is started anew: it takes what waits at once. *)
Rearmed == [on |-> TRUE, left |-> rx_buf_size - IF held THEN 1 ELSE 0]

TurnAroundDeaf ==   \* Mutant: the receive channel is not started again
    /\ dir' = "UART_DIR_RECV" /\ de' = FALSE /\ isr' = FALSE
    /\ sem' = TRUE /\ owed' = FALSE
    /\ UNCHANGED <<pc, data, tx_buf, job, dma, ftf, fetched, unsent, receive, polite>>

(* The line is turned around, and the next send may begin.                 *)
TurnAround ==
    /\ dir' = "UART_DIR_RECV" /\ de' = FALSE /\ isr' = FALSE
    /\ rx' = Rearmed /\ held' = FALSE
    /\ sem' = TRUE /\ owed' = FALSE
    /\ UNCHANGED <<pc, data, tx_buf, job, dma, ftf, fetched, unsent, rx_len, burst, idle, last, polite>>

TransmittedUnwaited == isr /\ TurnAround   \* Mutant: the last bytes are not waited for

Transmitted == isr /\ unsent = 0 /\ TurnAround

DMA0_Channel3_IRQHandler == FullTransfer \/ Transmitted

Next ==
    \/ \E t \in Tasks : Call(t) \/ bsp_uart_send(t)
    \/ Fetch \/ Transmit \/ RxChar \/ LineIdle
    \/ USART1_IRQHandler \/ DMA0_Channel3_IRQHandler

Spec == Init /\ [][Next]_vars

(* A task in a call executes, the transmit side works, interrupts return.  *)
FairSpec ==
    /\ Spec
    /\ \A t \in Tasks : WF_vars(pc[t] \in Working /\ bsp_uart_send(t))
    /\ WF_vars(Fetch) /\ WF_vars(Transmit) /\ WF_vars(DMA0_Channel3_IRQHandler)

-----------------------------------------------------------------------------
(* The types of the device's state, with rx_len in its buffer.             *)
TypeOK ==
    /\ sem \in BOOLEAN /\ pc \in [Tasks -> Working \cup {"out", "take"}]
    /\ data \in [Tasks -> Data \cup {None}] /\ tx_buf \in Data \cup {None}
    /\ job \in Data \cup {None}
    /\ dma \in [on : BOOLEAN, number : Nat, left : Nat] /\ ftf \in BOOLEAN
    /\ fetched \in Seq((Data \cup {None}) \X Nat) /\ unsent \in 0..2
    /\ dir \in {"UART_DIR_RECV", "UART_DIR_SEND"} /\ de \in BOOLEAN /\ isr \in BOOLEAN
    /\ rx \in [on : BOOLEAN, left : 0..rx_buf_size] /\ rx_len \in 0..rx_buf_size
    /\ held \in BOOLEAN /\ idle \in BOOLEAN
    /\ burst \in 0..rx_buf_size /\ last \in 0..rx_buf_size
    /\ owed \in BOOLEAN /\ polite \in BOOLEAN

(* Characters leave the transmitter only while the driver is on: no second *)
(* send and no interrupt turns the line around under them.                 *)
DriverHeld == [][unsent' < unsent => de /\ de']_vars

(* tx_buf is left alone from the first fetch until the last character has  *)
(* left, although the call that filled it returned long ago, and calls     *)
(* time out meanwhile (bsp_uart.c:192-196).                                *)
BufferStable == [][tx_buf' # tx_buf => ~dma.on \/ (dma.left = 0 /\ unsent = 0)]_vars

(* When the semaphore comes back, what left on the line is all of what the *)
(* last accepted call was given, and nothing else.                         *)
WholeMessage ==
    [][~sem /\ sem' => /\ Len(fetched) = Size[job] /\ unsent = 0
                       /\ \A i \in 1..Len(fetched) : fetched[i] = <<job, i>>]_vars

(* A device nobody sends with listens: driver off, direction and pin agree.*)
QuietWhenFree == sem => ~de /\ dir = "UART_DIR_RECV" /\ unsent = 0 /\ (dma.on => dma.left = 0)

(* As long as stations take turns, this one after each frame, rx_len is    *)
(* the length of the frame that just ended: the channel the idle interrupt *)
(* stops is running again, from the start, before the next frame comes.    *)
RxLenWhenPolite == [][polite /\ idle /\ ~idle' => rx_len' = last]_vars

(* What an idle interrupt hands over has been received since the one       *)
(* before: the receive channel was running.                                *)
HandedOverIsNew == [][idle /\ ~idle' => rx.on]_vars

(* The semaphore always comes back: no send can starve all later ones.     *)
Released == ~sem ~> sem
=============================================================================
