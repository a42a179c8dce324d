------------------------------ MODULE MbSlave ------------------------------
(***************************************************************************)
(* The Modbus RTU slave as it runs: the UART with its receive and transmit *)
(* DMA channels and the RS485 driver-enable pin, USART0_IRQHandler         *)
(* (mb_slv_port_gd32.c), and the task that initialises the port and then   *)
(* calls mb_slave_poll for ever (mb_slv.c, main.c).                        *)
(*                                                                         *)
(* Granularity.  A character arriving, the line falling idle, a character  *)
(* leaving and every task statement that touches shared state are steps of *)
(* their own.  The interrupt handler is one step: it outranks the task, so *)
(* no task step is taken while it is pending, and it is over in far less   *)
(* than a character time, so no character arrives or leaves while it is    *)
(* pending either.  The semaphore operations are atomic here.              *)
(*                                                                         *)
(* Characters on the wire are tokens <<k, i>>, the i-th character of the   *)
(* k-th ADU; the last two of an ADU are its CRC.  <<0, i>> is the i-th     *)
(* character of the slave's own reply heard back on the line.              *)
(***************************************************************************)
EXTENDS MbFrame, FiniteSets

CONSTANTS
    MB_SLV_ADDR,   \* this slave's address, mb_slv_config.h
    Requests,      \* the ADUs a master (or another slave) may put on the bus
    MaxFrames,     \* bound: ADUs in one behaviour
    RX_BUF_SIZE,   \* size of rx_buf and reload value of the receive DMA
    TurnTaking,    \* TRUE: an ADU starts only while the slave has settled
    MaxGaps,       \* bound: pauses inside one ADU that raise IDLE (0 or more)
    Echo           \* TRUE: the receiver hears the slave's own replies

ASSUME SlaveAssumption ==
    /\ MB_SLV_ADDR \in Byte
    /\ Requests \subseteq ADU
    /\ \A r \in Requests : Len(r.bytes) >= 1
    /\ MaxFrames \in Nat
    /\ RX_BUF_SIZE \in Nat /\ RX_BUF_SIZE > 2
    /\ \A r \in Requests : AduLen(r) <= RX_BUF_SIZE
    /\ TurnTaking \in BOOLEAN /\ Echo \in BOOLEAN
    /\ MaxGaps \in Nat

None == <<0, 0>>

VARIABLES
    \* the line and what the master put on it
    bus,        \* every ADU whose transmission has begun
    pos,        \* characters of the last ADU already sent
    gaps,       \* pauses so far in the ADU being sent
    split,      \* the ADUs a pause has split
    heard,      \* a character was received since IDLE was last raised
    \* receiver: UART data register, DMA channel, memory
    uartOn,     \* usart_enable done
    rdr,        \* USART_DATA: the character not yet fetched, or None
    rxEn,       \* receive DMA channel enabled
    rxCnt,      \* its transfer counter
    rx_buf,
    \* transmitter: DMA channel, characters sent, driver-enable pin
    txEn, txLen, txPos, de,
    wire,       \* the replies that left completely
    \* interrupt: flags, NVIC enable, what the handler hands over
    idleF, tcF, irqOn,
    frame_len,
    sem,        \* xSemaphore: 1 when given
    \* the task
    pc, len, frame, s_tx_buf,
    hold_regs,
    replies     \* history: what was dispatched, [req, reply]

line  == <<bus, pos, gaps, split, heard>>
rx    == <<uartOn, rdr, rxEn, rxCnt, rx_buf>>
tx    == <<txEn, txLen, txPos, de, wire>>
irq   == <<idleF, tcF, irqOn, frame_len, sem>>
task  == <<pc, len, frame, s_tx_buf, hold_regs, replies>>
vars  == <<line, rx, tx, irq, task>>

Tokens == ((0..MaxFrames) \X Nat)

BootSteps == {"uart_enable", "dma_init", "nvic"}
RxStart   == {"rx_disable", "rx_reload", "rx_enable"}
Reading   == {"get_len", "addr", "parse", "dispatch"}
TxSend    == {"tx_config", "tx_de", "tx_enable"}

NoHeader == [slave_addr |-> 0, fc |-> 0, start |-> 0, word |-> 0]
NoReply  == Reply(<<>>)

(* The types of the slave's state; frame_len and the counters stay within  *)
(* their buffers.                                                          *)
TypeOK ==
    /\ bus \in Seq(Requests) /\ Len(bus) <= MaxFrames
    /\ pos \in 0..RX_BUF_SIZE /\ gaps \in 0..MaxGaps
    /\ split \subseteq 1..MaxFrames /\ heard \in BOOLEAN
    /\ uartOn \in BOOLEAN /\ rdr \in Tokens /\ rxEn \in BOOLEAN
    /\ rxCnt \in 1..RX_BUF_SIZE
    /\ rx_buf \in [0..(RX_BUF_SIZE - 1) -> Tokens]
    /\ txEn \in BOOLEAN /\ txLen \in Nat /\ txPos \in Nat /\ de \in BOOLEAN
    /\ wire \in Seq(ADU)
    /\ idleF \in BOOLEAN /\ tcF \in BOOLEAN /\ irqOn \in BOOLEAN
    /\ frame_len \in 0..RX_BUF_SIZE /\ sem \in {0, 1}
    /\ pc \in BootSteps \cup RxStart \cup {"take"} \cup Reading \cup TxSend
    /\ len \in 0..RX_BUF_SIZE /\ frame \in Headers /\ s_tx_buf \in ADU
    /\ hold_regs \in [Reg -> Word]
    /\ replies \in Seq([req : Nat, reply : ADU])

Init ==
    /\ bus = <<>> /\ pos = 0 /\ gaps = 0 /\ split = {} /\ heard = FALSE
    /\ uartOn = FALSE /\ rdr = None /\ rxEn = FALSE /\ rxCnt = RX_BUF_SIZE
    /\ rx_buf = [i \in 0..(RX_BUF_SIZE - 1) |-> None]
    /\ txEn = FALSE /\ txLen = 0 /\ txPos = 0 /\ de = FALSE /\ wire = <<>>
    /\ idleF = FALSE /\ tcF = TRUE /\ irqOn = FALSE     \* TC is set at reset
    /\ frame_len = 0 /\ sem = 0
    /\ pc = "uart_enable" /\ len = 0 /\ frame = NoHeader /\ s_tx_buf = NoReply
    /\ hold_regs = [r \in Reg |-> 0] /\ replies = <<>>

IrqPending == irqOn /\ (idleF \/ tcF)
-----------------------------------------------------------------------------
(* The line and the UART *)

Sending == bus # <<>> /\ pos < AduLen(bus[Len(bus)])

Transmitting == txEn /\ txPos < txLen

(* The slave is waiting for a request with its receiver armed.             *)
Settled ==
    /\ pc = "take" /\ sem = 0 /\ rxEn
    /\ ~IrqPending /\ ~Transmitting

(* An ADU begins after a silence: the previous one has ended and its IDLE  *)
(* has been raised.                                                        *)
StartAdu(r) ==
    /\ Len(bus) < MaxFrames
    /\ ~Sending /\ ~heard /\ ~IrqPending
    /\ TurnTaking => Settled
    /\ bus' = Append(bus, r)
    /\ pos' = 0 /\ gaps' = 0
    /\ UNCHANGED <<split, heard, rx, tx, irq, task>>

(* A character completes in the receiver.  The DMA moves it to rx_buf at   *)
(* once and reloads its counter after the last place (circular mode); with *)
(* the channel off it stays in the data register, and while the register   *)
(* is full further characters are lost (overrun).                          *)
Fetch(token) ==
    /\ rx_buf' = [rx_buf EXCEPT ![RX_BUF_SIZE - rxCnt] = token]
    /\ rxCnt' = IF rxCnt = 1 THEN RX_BUF_SIZE ELSE rxCnt - 1

Receive(token) ==
    IF ~uartOn THEN UNCHANGED <<heard, rx>>
    ELSE /\ heard' = TRUE
         /\ IF rxEn THEN Fetch(token) /\ UNCHANGED rdr
            ELSE /\ rdr' = IF rdr = None THEN token ELSE rdr
                 /\ UNCHANGED <<rx_buf, rxCnt>>
         /\ UNCHANGED <<uartOn, rxEn>>

RxChar ==
    /\ Sending /\ ~IrqPending
    /\ pos' = pos + 1
    /\ Receive(<<Len(bus), pos + 1>>)
    /\ UNCHANGED <<bus, gaps, split, tx, irq, task>>

(* One character time of silence after a character: the IDLE flag.  Inside *)
(* an ADU this is a pause that splits it for the receiver.                 *)
RaiseIdle ==
    /\ heard /\ ~IrqPending /\ ~Transmitting
    /\ Sending => gaps < MaxGaps
    /\ heard' = FALSE /\ idleF' = TRUE
    /\ IF Sending THEN gaps' = gaps + 1 /\ split' = split \cup {Len(bus)}
                  ELSE UNCHANGED <<gaps, split>>
    /\ UNCHANGED <<bus, pos, rx, tx, tcF, irqOn, frame_len, sem, task>>

(* A character of the reply leaves; with the last one TC is raised.  That  *)
(* the driver is on meanwhile is a property, DriverHeld.                   *)
TxChar ==
    /\ Transmitting /\ ~IrqPending
    /\ txPos' = txPos + 1
    /\ IF txPos' = txLen
         THEN tcF' = TRUE /\ wire' = Append(wire, s_tx_buf)
         ELSE UNCHANGED <<tcF, wire>>
    /\ IF Echo THEN Receive(<<0, txPos + 1>>) ELSE UNCHANGED <<heard, rx>>
    /\ UNCHANGED <<bus, pos, gaps, split, txEn, txLen, de,
                   idleF, irqOn, frame_len, sem, task>>
-----------------------------------------------------------------------------
(* USART0_IRQHandler *)

(* dma_channel_enable on the receive channel: a character waiting in the   *)
(* data register is fetched at once, to the first place of rx_buf.         *)
EnableRxOffByOne(waiting) ==   \* Mutant: one character more than the buffer holds
    /\ rxEn' = TRUE /\ rxCnt' = RX_BUF_SIZE + 1 /\ UNCHANGED rx_buf

EnableRx(waiting) ==
    /\ rxEn' = TRUE
    /\ IF waiting = None
         THEN rxCnt' = RX_BUF_SIZE /\ UNCHANGED rx_buf
         ELSE /\ rx_buf' = [rx_buf EXCEPT ![0] = waiting]
              /\ rxCnt' = RX_BUF_SIZE - 1

(* The IDLE part: publish the length and give the semaphore unless nothing *)
(* was counted.  Reading USART_DATA empties the data register.             *)
Counted == RX_BUF_SIZE - rxCnt

HandOverLong ==   \* Mutant: the limit is taken for the shortest request
    IF idleF
      THEN /\ frame_len' = Counted
           /\ sem' = IF Counted > MinLen THEN 1 ELSE sem
      ELSE UNCHANGED <<frame_len, sem>>

HandOver ==
    IF idleF
      THEN /\ frame_len' = Counted
           /\ sem' = IF Counted > 0 /\ Counted < RX_BUF_SIZE THEN 1 ELSE sem
      ELSE UNCHANGED <<frame_len, sem>>

Waiting == IF idleF THEN None ELSE rdr

(* The IDLE part alone leaves the receive channel disabled.                *)
IdleAloneRunning ==   \* Mutant: it keeps running, being circular
    rdr' = Waiting /\ UNCHANGED <<rxEn, txEn, de, rxCnt, rx_buf>>

IdleAlone ==
    rxEn' = FALSE /\ rdr' = Waiting /\ UNCHANGED <<txEn, de, rxCnt, rx_buf>>

(* The TC part stops the transmit channel, releases the driver and calls   *)
(* mb_slv_port_rx_start.                                                   *)
TransferCompleteHolding ==   \* Mutant: the driver is not released
    txEn' = FALSE /\ UNCHANGED de /\ EnableRx(Waiting) /\ rdr' = None

TransferComplete ==
    txEn' = FALSE /\ de' = FALSE /\ EnableRx(Waiting) /\ rdr' = None

(* The whole handler.                                                      *)
USART0_IRQHandler ==
    /\ IrqPending
    /\ HandOver
    /\ idleF' = FALSE /\ tcF' = FALSE
    /\ IF tcF THEN TransferComplete ELSE IdleAlone
    /\ UNCHANGED <<line, uartOn, txLen, txPos, wire, irqOn, task>>
-----------------------------------------------------------------------------
(* The task: mb_slave_init, then mb_slave_poll for ever *)

(* A task step never overtakes a pending interrupt.                        *)
Step(from, to) == pc = from /\ ~IrqPending /\ pc' = to

UartEnable ==
    /\ Step("uart_enable", "dma_init")
    /\ uartOn' = TRUE
    /\ UNCHANGED <<line, rdr, rxEn, rxCnt, rx_buf, tx, irq,
                   len, frame, s_tx_buf, hold_regs, replies>>

DmaInit ==
    /\ Step("dma_init", "nvic")
    /\ EnableRx(rdr) /\ rdr' = None
    /\ UNCHANGED <<line, uartOn, tx, irq, len, frame, s_tx_buf, hold_regs, replies>>

NvicEnable ==
    /\ Step("nvic", "rx_disable")
    /\ irqOn' = TRUE
    /\ UNCHANGED <<line, rx, tx, idleF, tcF, frame_len, sem,
                   len, frame, s_tx_buf, hold_regs, replies>>

(* mb_slv_port_rx_start, in task context: the handler may run between its  *)
(* statements.  The counter can be written only while the channel is off.  *)
RxDisable ==
    /\ Step("rx_disable", "rx_reload")
    /\ rxEn' = FALSE
    /\ UNCHANGED <<line, uartOn, rdr, rxCnt, rx_buf, tx, irq,
                   len, frame, s_tx_buf, hold_regs, replies>>

RxReload ==
    /\ Step("rx_reload", "rx_enable")
    /\ rxCnt' = IF rxEn THEN rxCnt ELSE RX_BUF_SIZE
    /\ UNCHANGED <<line, uartOn, rdr, rxEn, rx_buf, tx, irq,
                   len, frame, s_tx_buf, hold_regs, replies>>

RxEnable ==
    /\ Step("rx_enable", "take")
    /\ IF rxEn THEN UNCHANGED <<rxEn, rxCnt, rx_buf, rdr>>
               ELSE /\ rxEn' = TRUE /\ rdr' = None
                    /\ IF rdr = None THEN UNCHANGED <<rx_buf, rxCnt>> ELSE Fetch(rdr)
    /\ UNCHANGED <<line, uartOn, tx, irq, len, frame, s_tx_buf, hold_regs, replies>>

(* xSemaphoreTake(xSemaphore, portMAX_DELAY).                              *)
TakeKeeping ==   \* Mutant: the semaphore stays given
    /\ Step("take", "get_len")
    /\ sem = 1
    /\ UNCHANGED <<line, rx, tx, irq, len, frame, s_tx_buf, hold_regs, replies>>

Take ==
    /\ Step("take", "get_len")
    /\ sem = 1
    /\ sem' = 0
    /\ UNCHANGED <<line, rx, tx, idleF, tcF, irqOn, frame_len,
                   len, frame, s_tx_buf, hold_regs, replies>>

GetLen ==
    /\ Step("get_len", "addr")
    /\ len' = frame_len
    /\ UNCHANGED <<line, rx, tx, irq, frame, s_tx_buf, hold_regs, replies>>

(* What rx_buf holds.  Its bytes are those of the tokens; a CRC byte, the  *)
(* zeroed memory of start-up and the tail of an echo read as 0, which no   *)
(* address is.  The CRC of len bytes matches exactly when they are one     *)
(* whole ADU sent with a good CRC.                                         *)
ByteOf(token) ==
    LET src == IF token[1] = 0 THEN s_tx_buf.bytes ELSE bus[token[1]].bytes
    IN  IF token[2] \in 1..Len(src) THEN src[token[2]] ELSE 0

Whole(k, n) ==
    /\ n = AduLen(bus[k])
    /\ \A i \in 1..n : rx_buf[i - 1] = <<k, i>>

Buffered(n) ==
    [bytes |-> [i \in 1..(n - 2) |-> ByteOf(rx_buf[i - 1])],
     crcOk |-> \E k \in 1..Len(bus) : Whole(k, n) /\ bus[k].crcOk]

(* Both refusals - another slave's address, a request that does not parse  *)
(* - restart the receiver from the task.                                   *)
CheckAddrNever ==   \* Mutant: the address is not looked at
    /\ Step("addr", "parse")
    /\ UNCHANGED <<line, rx, tx, irq, len, frame, s_tx_buf, hold_regs, replies>>

CheckAddr ==
    /\ Step("addr", IF ByteOf(rx_buf[0]) = MB_SLV_ADDR THEN "parse" ELSE "rx_disable")
    /\ UNCHANGED <<line, rx, tx, irq, len, frame, s_tx_buf, hold_regs, replies>>

ParseRequestForgetful ==   \* Mutant: a refusal does not restart the receiver
    /\ IF Accepts(Buffered(len))
         THEN Step("parse", "dispatch") /\ frame' = Header(Buffered(len))
         ELSE Step("parse", "take") /\ UNCHANGED frame
    /\ UNCHANGED <<line, rx, tx, irq, len, s_tx_buf, hold_regs, replies>>

ParseRequestAnswering ==   \* Mutant: a refusal sends what is in s_tx_buf
    /\ IF Accepts(Buffered(len))
         THEN Step("parse", "dispatch") /\ frame' = Header(Buffered(len))
         ELSE Step("parse", "tx_config") /\ UNCHANGED frame
    /\ UNCHANGED <<line, rx, tx, irq, len, s_tx_buf, hold_regs, replies>>

ParseRequest ==
    /\ IF Accepts(Buffered(len))
         THEN Step("parse", "dispatch") /\ frame' = Header(Buffered(len))
         ELSE Step("parse", "rx_disable") /\ UNCHANGED frame
    /\ UNCHANGED <<line, rx, tx, irq, len, s_tx_buf, hold_regs, replies>>

(* mb_func_dispatch: FC10 reads its data from rx_buf itself, now.          *)
DispatchRequest ==
    /\ Step("dispatch", "tx_config")
    /\ LET out == Dispatch(frame, Data(Buffered(len)), hold_regs)
       IN  /\ hold_regs' = out.regs
           /\ s_tx_buf' = out.reply
           /\ replies' = Append(replies, [req |-> rx_buf[0][1], reply |-> out.reply])
    /\ UNCHANGED <<line, rx, tx, irq, len, frame>>

(* mb_slv_port_tx_send, statement by statement.                            *)
TxConfigStarting ==   \* Mutant: the channel is not stopped before DE rises
    /\ Step("tx_config", "tx_de")
    /\ txEn' = TRUE /\ txLen' = AduLen(s_tx_buf) /\ txPos' = 0
    /\ UNCHANGED <<line, rx, de, wire, irq, len, frame, s_tx_buf, hold_regs, replies>>

TxConfig ==
    /\ Step("tx_config", "tx_de")
    /\ txEn' = FALSE /\ txLen' = AduLen(s_tx_buf) /\ txPos' = 0
    /\ UNCHANGED <<line, rx, de, wire, irq, len, frame, s_tx_buf, hold_regs, replies>>

TxDe ==
    /\ Step("tx_de", "tx_enable")
    /\ de' = TRUE
    /\ UNCHANGED <<line, rx, txEn, txLen, txPos, wire, irq,
                   len, frame, s_tx_buf, hold_regs, replies>>

TxEnableRestarting ==   \* Mutant: the task, not the TC interrupt, restarts reception
    /\ Step("tx_enable", "rx_disable")
    /\ txEn' = TRUE
    /\ UNCHANGED <<line, rx, txLen, txPos, de, wire, irq,
                   len, frame, s_tx_buf, hold_regs, replies>>

TxEnable ==
    /\ Step("tx_enable", "take")
    /\ txEn' = TRUE
    /\ UNCHANGED <<line, rx, txLen, txPos, de, wire, irq,
                   len, frame, s_tx_buf, hold_regs, replies>>
-----------------------------------------------------------------------------
mb_slave_init == UartEnable \/ DmaInit \/ NvicEnable
mb_slv_port_rx_start == RxDisable \/ RxReload \/ RxEnable
mb_slave_poll == Take \/ GetLen \/ CheckAddr \/ ParseRequest \/ DispatchRequest
mb_slv_port_tx_send == TxConfig \/ TxDe \/ TxEnable

mb_slave_task ==
    mb_slave_init \/ mb_slv_port_rx_start \/ mb_slave_poll \/ mb_slv_port_tx_send

Next ==
    \/ \E r \in Requests : StartAdu(r)
    \/ RxChar \/ RaiseIdle \/ TxChar
    \/ USART0_IRQHandler
    \/ mb_slave_task

Spec == Init /\ [][Next]_vars

(* The handler and the task run when they can (the task is the highest     *)
(* ready one); an ADU begun is completed; silence raises IDLE; the transmit *)
(* DMA does not stall.  Nobody is obliged to send a request.               *)
Fairness ==
    /\ WF_vars(RxChar) /\ WF_vars(~Sending /\ RaiseIdle) /\ WF_vars(TxChar)
    /\ WF_vars(USART0_IRQHandler) /\ WF_vars(mb_slave_task)

FairSpec == Spec /\ Fairness
-----------------------------------------------------------------------------
(* Properties *)

(* Half duplex: while a reply is leaving, the receive DMA stays off, so    *)
(* the slave never captures its own reply as a request.  mb_slave_poll     *)
(* leaves the restart to the TC interrupt for this reason.                 *)
HalfDuplex == Transmitting => ~rxEn

(* The driver is released whenever the slave is back to waiting: it never  *)
(* holds the bus while the master is to speak.                             *)
BusReleased == Settled => ~de

(* What left on the wire is, in order, what was dispatched; at most the    *)
(* last reply is still on its way, and none is when the slave has settled. *)
WireFollowsReplies ==
    /\ Len(wire) \in {Len(replies), Len(replies) - 1}
    /\ Settled => Len(wire) = Len(replies)
    /\ \A i \in 1..Len(wire) : wire[i] = replies[i].reply

(* No character of a reply leaves while the driver is off: DE rises before *)
(* the transmit DMA starts and falls only after TC.                        *)
DriverHeld == [][txPos' > txPos => de]_vars

(* The transmit buffer and the transfer belong to the DMA until the last   *)
(* character has left: the task neither overwrites nor restarts it.        *)
ReplyStable ==
    [][Transmitting => s_tx_buf' = s_tx_buf /\ txEn' /\ txPos' >= txPos]_vars

(* The receive buffer belongs to the task from the moment it takes the     *)
(* semaphore to the end of the dispatch (FC10 data are not copied): the    *)
(* receive DMA writes none of the characters the task still reads.         *)
FrameStable == [][(pc \in Reading) => (rx_buf' = rx_buf)]_vars

(* The slave implements the promise of MbServer: whole ADUs addressed to   *)
(* it, each executed at most once, in the order sent.                      *)
Server == INSTANCE MbServer
Implements == Server!ServerSpec

(* Whatever was on the line, the slave comes back to waiting with its      *)
(* receiver armed.                                                         *)
ListensAgain == []<>Settled

(* Every valid request for this slave that no pause split is answered.     *)
Answered ==
    \A k \in 1..MaxFrames :
        (k <= Len(bus) /\ Server!Addressed(bus[k]) /\ Accepts(bus[k]))
            ~> (k \in split \/ \E i \in 1..Len(wire) : replies[i].req = k)

(* mb_slv_port_gd32.c calls the receive DMA "circular, always running":    *)
(* whenever it is off it will be on again.                                 *)
AlwaysRunning == []<>rxEn
=============================================================================
