--------------------------- MODULE MbSlave_proofs ---------------------------
(***************************************************************************)
(* The theorems about MbSlave, for every set of requests, every size of    *)
(* the receive buffer, any number of ADUs and of pauses inside them, with  *)
(* the slave's replies echoed or not.  They follow from the two inductive  *)
(* invariants of MbSlaveInv: the first ones from AnyTraffic, whoever sends *)
(* and whenever; the others from IInv, on a bus where turns are taken.     *)
(***************************************************************************)
EXTENDS MbSlaveInv_proofs

(* What holds whatever is sent and when: also when a master repeats its    *)
(* request before the answer, or two masters speak at once.                *)
THEOREM SlaveAnyTraffic == Spec => []AnyTraffic
  <1>1. AnyTraffic /\ [Next]_vars => AnyTraffic'
    BY NextAny
  <1> QED
    BY <1>1, InitAny, PTL DEF Spec

(* Indices, counters and lengths stay in range: no rx_buf access outside   *)
(* the buffer, no frame_len beyond it.                                     *)
THEOREM SlaveTypeCorrect == Spec => []TypeOK
  <1>1. AnyTraffic => TypeOK
    BY DEF AnyTraffic
  <1> QED
    BY <1>1, SlaveAnyTraffic, PTL

(* A slave that waits with its receiver armed has let go of the bus: no    *)
(* order of sends, stops and TC interrupts leaves the driver on.           *)
THEOREM SlaveBusReleased == Spec => []BusReleased
  <1>1. AnyTraffic => BusReleased
    <2> SUFFICES ASSUME AnyTraffic, Settled, de PROVE FALSE
      BY DEF BusReleased, AnyTraffic, TypeOK
    <2>1. txEn /\ ~(txPos < txLen) /\ ~tcF
      BY DEF Settled, AnyTraffic, DriverKept, Transmitting, IrqPending, BootSteps
    <2>2. txPos \in Nat /\ txLen \in Nat /\ txPos <= txLen
      BY <2>1 DEF AnyTraffic, TypeOK, Completed
    <2> QED
      BY <2>1, <2>2 DEF AnyTraffic, Completed
  <1> QED
    BY <1>1, SlaveAnyTraffic, PTL

(* No character of a reply leaves while the driver is off, also when a     *)
(* second reply is begun while the first one leaves.                       *)
THEOREM SlaveDriverHeld == Spec => DriverHeld
  <1>1. AnyTraffic /\ [Next]_vars => [txPos' > txPos => de]_vars
    <2> SUFFICES ASSUME AnyTraffic, Next, txPos' > txPos PROVE de
      OBVIOUS
    <2>0. txPos \in Nat
      BY DEF AnyTraffic, TypeOK
    <2>1. txPos' # txPos /\ txPos' # 0
      BY <2>0
    <2>2. TxChar
      BY <2>1 DEF Next, mb_slave_task, mb_slave_init, mb_slv_port_rx_start, mb_slave_poll,
         mb_slv_port_tx_send, StartAdu, RxChar, RaiseIdle, USART0_IRQHandler, UartEnable,
         DmaInit, NvicEnable, RxDisable, RxReload, RxEnable, Take, GetLen, CheckAddr,
         ParseRequest, DispatchRequest, TxConfig, TxDe, TxEnable, tx
    <2> QED
      BY <2>2 DEF TxChar, Transmitting, AnyTraffic, DriverOn
  <1> QED
    BY <1>1, SlaveAnyTraffic, PTL DEF Spec, DriverHeld

(* However a request came to be dispatched - whole, torn by a second one,  *)
(* or a second time - it stays inside hold_regs, its reply fits in         *)
(* s_tx_buf, and nothing is stored when it is refused.                     *)
ServedInBounds ==
    [][replies' # replies =>
          LET reply == replies'[Len(replies')].reply
          IN  /\ AduLen(reply) <= TX_BUF_SIZE
              /\ IsException(reply) => hold_regs' = hold_regs
              /\ ~IsException(reply) =>
                    frame.start + (IF frame.fc = FC06 THEN 1 ELSE frame.word)
                      <= HOLD_REG_COUNT]_vars

(* mb_slave_task's dispatch is safe on every frame it may come to see: the *)
(* checks of mb_slv_frame.c and mb_slv_data.c do not rest on the bus.      *)
THEOREM SlaveServedInBounds == Spec => ServedInBounds
  <1> DEFINE InBounds(reply) ==
               /\ AduLen(reply) <= TX_BUF_SIZE
               /\ IsException(reply) => hold_regs' = hold_regs
               /\ ~IsException(reply) =>
                     frame.start + (IF frame.fc = FC06 THEN 1 ELSE frame.word)
                       <= HOLD_REG_COUNT
             Served == replies' # replies => InBounds(replies'[Len(replies')].reply)
  <1>1. AnyTraffic /\ [Next]_vars => [Served]_vars
    <2> SUFFICES ASSUME AnyTraffic, Next, replies' # replies
                 PROVE  InBounds(replies'[Len(replies')].reply)
      OBVIOUS
    <2>1. DispatchRequest
      BY DEF Next, mb_slave_task, mb_slave_init, mb_slv_port_rx_start, mb_slave_poll,
         mb_slv_port_tx_send, StartAdu, RxChar, RaiseIdle, TxChar, USART0_IRQHandler,
         UartEnable, DmaInit, NvicEnable, RxDisable, RxReload, RxEnable, Take, GetLen,
         CheckAddr, ParseRequest, TxConfig, TxDe, TxEnable, task
    <2> DEFINE out == Dispatch(frame, Data(Buffered(len)), hold_regs)
               entry == [req |-> rx_buf[0][1], reply |-> out.reply]
    <2>2. pc = "dispatch" /\ hold_regs' = out.regs /\ replies' = Append(replies, entry)
      BY <2>1 DEF DispatchRequest, Step
    <2>3. /\ AduLen(out.reply) <= TX_BUF_SIZE
          /\ IsException(out.reply) => out.regs = hold_regs
          /\ ~IsException(out.reply) =>
                frame.start + (IF frame.fc = FC06 THEN 1 ELSE frame.word) <= HOLD_REG_COUNT
      BY <2>2, DispatchedAny
    <2> HIDE DEF out
    <2>4. entry.reply = out.reply
      OBVIOUS
    <2> HIDE DEF entry
    <2>5. replies'[Len(replies')] = entry
      BY <2>2 DEF AnyTraffic, TypeOK
    <2> QED
      BY <2>2, <2>3, <2>4, <2>5
  <1> QED
    BY <1>1, SlaveAnyTraffic, PTL DEF Spec, ServedInBounds
-----------------------------------------------------------------------------
(* On a bus where turns are taken.                                         *)

(* The invariant holds in every reachable state.                           *)
THEOREM SlaveInvariant == ASSUME TurnTaking PROVE Spec => []IInv
  <1>1. IInv /\ [Next]_vars => IInv'
    BY NextInv
  <1> QED
    BY <1>1, InitInv, PTL DEF Spec

(* The receive DMA is off while a reply is leaving, so no reply is ever    *)
(* captured as a request.                                                  *)
THEOREM SlaveHalfDuplex == ASSUME TurnTaking PROVE Spec => []HalfDuplex
  <1>1. IInv => HalfDuplex
    BY TransmittingReplying DEF HalfDuplex, Transmitting
  <1> QED
    BY <1>1, SlaveInvariant, PTL

(* Nothing but the dispatched replies leaves on the wire, in their order;  *)
(* none is lost, repeated or overwritten on the way.                       *)
THEOREM SlaveWireFollowsReplies == ASSUME TurnTaking PROVE Spec => []WireFollowsReplies
  <1>1. IInv => WireFollowsReplies
    <2> SUFFICES ASSUME IInv PROVE WireFollowsReplies
      OBVIOUS
    <2>1. Len(wire) \in Nat /\ Len(replies) \in Nat
      BY DEF IInv, TypeOK
    <2>2. Settled => ~Outstanding
      BY DEF Settled, Outstanding, TxSend
    <2> QED
      BY <2>1, <2>2 DEF IInv, WireHistory, WireFollowsReplies
  <1> QED
    BY <1>1, SlaveInvariant, PTL

(* Until its last character has left, a reply is neither overwritten nor   *)
(* restarted nor cut off.                                                  *)
THEOREM SlaveReplyStable == ASSUME TurnTaking PROVE Spec => ReplyStable
  <1> DEFINE Stable == Transmitting => s_tx_buf' = s_tx_buf /\ txEn' /\ txPos' >= txPos
  <1>1. IInv /\ [Next]_vars => [Stable]_vars
    <2> SUFFICES ASSUME IInv, Next, Transmitting
                 PROVE  s_tx_buf' = s_tx_buf /\ txEn' /\ txPos' >= txPos
      OBVIOUS
    <2>0. txPos \in Nat /\ txEn
      BY DEF IInv, TypeOK, Transmitting
    <2>1. pc = "take" /\ sem = 0 /\ ~tcF /\ ~idleF
      BY <2>0, TransmittingReplying DEF Replying
    <2>2. ~USART0_IRQHandler /\ ~mb_slave_task
      BY <2>1 DEF USART0_IRQHandler, IrqPending, mb_slave_task, mb_slave_init,
         mb_slv_port_rx_start, mb_slave_poll, mb_slv_port_tx_send, UartEnable, DmaInit,
         NvicEnable, RxDisable, RxReload, RxEnable, Take, GetLen, CheckAddr, ParseRequest,
         DispatchRequest, TxConfig, TxDe, TxEnable, Step
    <2>3. CASE \E r \in Requests : StartAdu(r)
      BY <2>3, <2>0 DEF StartAdu, tx, task
    <2>4. CASE RxChar \/ RaiseIdle
      BY <2>4, <2>0 DEF RxChar, RaiseIdle, tx, task
    <2>5. CASE TxChar
      BY <2>5, <2>0 DEF TxChar, task
    <2> QED
      BY <2>2, <2>3, <2>4, <2>5 DEF Next
  <1> QED
    BY <1>1, SlaveInvariant, PTL DEF Spec, ReplyStable
-----------------------------------------------------------------------------
(* MbSlave implements MbServer.  MbServer brings its own copy of MbFrame's *)
(* operators; the copies agree.                                            *)
LEMMA SameDispatch ==
  ASSUME NEW adu, NEW regs
  PROVE  /\ Server!Accepts(adu) = Accepts(adu)
         /\ Server!Dispatch(Server!Header(adu), Server!Data(adu), regs)
              = Dispatch(Header(adu), Data(adu), regs)
  <1>1. Server!Accepts(adu) = Accepts(adu)
    BY DEF Server!Accepts, Accepts, Server!AduLen, AduLen, Server!MinLen, MinLen,
       Server!FC03, FC03, Server!FC10, FC10, Server!U16, U16
  <1>2. Server!Header(adu) = Header(adu) /\ Server!Data(adu) = Data(adu)
    BY DEF Server!Header, Header, Server!Data, Data, Server!U16, U16
  <1>3. \A f, data : Server!Dispatch(f, data, regs) = Dispatch(f, data, regs)
    BY DEF Server!Dispatch, Dispatch, Server!DispatchRead, DispatchRead,
       Server!DispatchWriteOne, DispatchWriteOne, Server!DispatchWriteMany, DispatchWriteMany,
       Server!Outcome, Outcome, Server!Exception, Exception, Server!Reply, Reply,
       Server!ReadReply, ReadReply, Server!EchoReply, EchoReply, Server!ReadRegs, ReadRegs,
       Server!WriteRegs, WriteRegs, Server!InRange, InRange, Server!ValueInMemory,
       ValueInMemory, Server!Hi, Hi, Server!Lo, Lo, Server!U16, U16, Server!Reg, Reg,
       Server!FC03, FC03, Server!FC06, FC06, Server!FC10, FC10
  <1> QED
    BY <1>1, <1>2, <1>3

(* One dispatch serves the last ADU put on the bus, and only once.         *)
LEMMA DispatchServes == ASSUME IInv, DispatchRequest PROVE Server!Serve(Last)
  <1>0. /\ pc = "dispatch"
        /\ hold_regs' = Dispatch(frame, Data(Buffered(len)), hold_regs).regs
        /\ replies' = Append(replies,
             [req |-> rx_buf[0][1],
              reply |-> Dispatch(frame, Data(Buffered(len)), hold_regs).reply])
        /\ UNCHANGED bus
    BY DEF DispatchRequest, Step, line
  <1>1. /\ Intact /\ Buffered(len) = bus[Last] /\ Accepts(bus[Last])
        /\ frame = Header(bus[Last])
    BY <1>0, AcceptedIsLast DEF IInv, FrameParsed
  <1>2. rx_buf[0][1] = Last
    BY <1>1 DEF Intact
  <1>3. Server!Addressed(bus[Last])
    BY <1>0, <1>1 DEF IInv, AddrChecked
  <1>4. Last > Server!LastServed
    <2>1. Server!LastServed < Last
      BY <1>0, <1>1 DEF IInv, History, Unserved, Reading
    <2>2. Server!LastServed \in Nat /\ Last \in Nat
      BY LastServedType DEF IInv, TypeOK, Last
    <2> QED
      BY <2>1, <2>2
  <1> QED
    BY <1>0, <1>1, <1>2, <1>3, <1>4, SameDispatch DEF Server!Serve

(* Every step of the slave is a step of the promise or leaves what it      *)
(* talks about alone.                                                      *)
LEMMA StepImplements ==
  ASSUME IInv, [Next]_vars PROVE [Server!ServerNext]_Server!serverVars
  <1>0. UNCHANGED <<hold_regs, bus, replies>> => UNCHANGED Server!serverVars
    BY DEF Server!serverVars
  <1>1. CASE UNCHANGED vars
    BY <1>0, <1>1 DEF vars, line, task
  <1>2. ASSUME NEW r \in Requests, StartAdu(r) PROVE Server!ServerNext
    BY <1>2 DEF StartAdu, task, Server!ServerNext, Server!Send
  <1>3. CASE DispatchRequest
    <2>1. Last \in 1..Len(bus)
      <3>1. bus # <<>>
        BY <1>3 DEF DispatchRequest, Step, IInv, Booting, BootSteps, RxStart
      <3> QED
        BY <3>1, LastElement DEF IInv, TypeOK, Last
    <2> QED
      BY <2>1, <1>3, DispatchServes DEF Server!ServerNext
  <1>4. CASE RxChar \/ RaiseIdle \/ TxChar \/ USART0_IRQHandler
    BY <1>0, <1>4 DEF RxChar, RaiseIdle, TxChar, USART0_IRQHandler, line, task
  <1>5. CASE mb_slave_init \/ mb_slv_port_rx_start \/ mb_slv_port_tx_send
    BY <1>0, <1>5 DEF mb_slave_init, mb_slv_port_rx_start, mb_slv_port_tx_send, UartEnable,
       DmaInit, NvicEnable, RxDisable, RxReload, RxEnable, TxConfig, TxDe, TxEnable, line
  <1>6. CASE Take \/ GetLen \/ CheckAddr \/ ParseRequest
    BY <1>0, <1>6 DEF Take, GetLen, CheckAddr, ParseRequest, line
  <1> QED
    BY <1>1, <1>2, <1>3, <1>4, <1>5, <1>6 DEF Next, mb_slave_task, mb_slave_poll

(* The slave implements its promise: whatever the interleaving of wire,    *)
(* interrupt and task, only whole ADUs addressed to it are executed, each  *)
(* at most once, in the order they were sent, on the registers the earlier *)
(* ones left.                                                              *)
THEOREM SlaveImplementsServer == ASSUME TurnTaking PROVE Spec => Implements
  <1>1. Init => Server!ServerInit
    BY DEF Init, Server!ServerInit, Server!Reg, Reg
  <1>2. IInv /\ [Next]_vars => [Server!ServerNext]_Server!serverVars
    BY StepImplements
  <1> QED
    BY <1>1, <1>2, SlaveInvariant, PTL DEF Spec, Implements, Server!ServerSpec
-----------------------------------------------------------------------------
(* The receive buffer while the task reads it.                             *)

(* A task that reads rx_buf finds the transmitter at rest.                 *)
LEMMA ReadingStage ==
  ASSUME IInv, pc \in Reading
  PROVE  bus # <<>> /\ irqOn /\ ~txEn /\ ~tcF /\ (Intact => Handled)
  <1>1. bus # <<>> /\ irqOn
    BY DEF IInv, Booting, InterruptsOn, Reading, BootSteps, RxStart
  <1>2. Intact => Handled
    BY DEF IInv, IntactStages, Arriving, Arrived, Given, Replying, Finished, AtRest, Reading
  <1> QED
    BY <1>1, <1>2 DEF IInv, OnlyIntactServed, Handled, NoFlag

(* Only a character from the line, with the channel on, changes rx_buf     *)
(* under it.                                                               *)
LEMMA ReadingChange ==
  ASSUME IInv, [Next]_vars, pc \in Reading, rx_buf' # rx_buf
  PROVE  RxChar /\ Sending /\ rxEn
  <1>1. ~tcF /\ ~txEn
    BY ReadingStage
  <1>2. ~TxChar
    BY <1>1 DEF TxChar, Transmitting
  <1>3. ~USART0_IRQHandler
    BY <1>1 DEF USART0_IRQHandler, IdleAlone
  <1>4. ~mb_slave_task
    BY DEF mb_slave_task, mb_slave_init, mb_slv_port_rx_start, mb_slave_poll,
       mb_slv_port_tx_send, UartEnable, DmaInit, NvicEnable, RxDisable, RxReload, RxEnable,
       Take, GetLen, CheckAddr, ParseRequest, DispatchRequest, TxConfig, TxDe, TxEnable,
       Step, Reading, rx
  <1>5. ~(\E r \in Requests : StartAdu(r)) /\ ~RaiseIdle /\ ~UNCHANGED vars
    BY DEF StartAdu, RaiseIdle, vars, rx
  <1>6. RxChar
    BY <1>2, <1>3, <1>4, <1>5 DEF Next
  <1>7. rxEn
    BY <1>6 DEF RxChar, Receive, rx
  <1> QED
    BY <1>6, <1>7 DEF RxChar

(* A request that no pause has split stays as it arrived from the time the *)
(* task takes it to the end of its dispatch, however many pauses other     *)
(* ADUs have, and so does the length that goes with it: what is executed   *)
(* is never overwritten while it is read.                                  *)
IntactStable ==
    [][(pc \in Reading /\ Intact) => UNCHANGED <<rx_buf, frame_len>>]_vars

(* The parser and the dispatcher read one and the same request.            *)
THEOREM SlaveIntactStable == ASSUME TurnTaking PROVE Spec => IntactStable
  <1>1. IInv /\ [Next]_vars
          => [(pc \in Reading /\ Intact) => UNCHANGED <<rx_buf, frame_len>>]_vars
    <2> SUFFICES ASSUME IInv, Next, pc \in Reading, Intact
                 PROVE  rx_buf' = rx_buf /\ frame_len' = frame_len
      OBVIOUS
    <2>1. ~Sending /\ ~idleF /\ ~tcF
      BY ReadingStage DEF Handled, Silent, NoFlag
    <2>2. rx_buf' = rx_buf
      BY <2>1, ReadingChange
    <2>3. frame_len' = frame_len \/ USART0_IRQHandler
      BY DEF Next, mb_slave_task, mb_slave_init, mb_slv_port_rx_start, mb_slave_poll,
         mb_slv_port_tx_send, StartAdu, RxChar, RaiseIdle, TxChar, UartEnable,
         DmaInit, NvicEnable, RxDisable, RxReload, RxEnable, Take, GetLen, CheckAddr,
         ParseRequest, DispatchRequest, TxConfig, TxDe, TxEnable, irq
    <2>4. ~USART0_IRQHandler
      BY <2>1 DEF USART0_IRQHandler, IrqPending
    <2> QED
      BY <2>2, <2>3, <2>4
  <1> QED
    BY <1>1, SlaveInvariant, PTL DEF Spec, IntactStable

(* OnePause survives every step, with no more than one pause in an ADU.    *)
LEMMA OnePauseStep ==
  ASSUME MaxGaps <= 1, IInv, OnePause, [Next]_vars
  PROVE  OnePause'
  <1> SUFFICES ASSUME Sending', gaps' > 0
               PROVE  /\ idleF' => pc' = "take" /\ sem' = 0
                      /\ sem' = 1 => pc' = "take" /\ ~rxEn'
                      /\ pc' \in Reading => ~rxEn'
    BY DEF OnePause
  <1>0. gaps \in Nat /\ gaps <= 1 /\ sem \in {0, 1}
    BY SlaveAssumption DEF IInv, TypeOK
  <1>1. CASE UNCHANGED vars
    BY <1>1 DEF vars, line, rx, tx, irq, task, OnePause, Sending, AduLen
  <1>2. CASE \E r \in Requests : StartAdu(r)
    BY <1>2, <1>0 DEF StartAdu
  <1>3. CASE RxChar
    <2>1. Sending /\ UNCHANGED <<gaps, idleF, sem, pc, rxEn>>
      BY <1>3 DEF RxChar, Receive, rx, irq, task
    <2> QED
      BY <2>1 DEF OnePause
  <1>4. CASE RaiseIdle
    <2>1. /\ Sending /\ gaps < MaxGaps /\ heard
          /\ UNCHANGED <<sem, pc, rxEn>>
      BY <1>4 DEF RaiseIdle, Sending, AduLen, rx, task
    <2>2. gaps = 0 /\ bus # <<>>
      BY <2>1, <1>0, SlaveAssumption DEF Sending
    <2>3. pos > 0
      BY <2>1, <2>2 DEF IInv, Fresh, TypeOK
    <2>4. Intact
      BY <2>1, <2>2, <2>3 DEF IInv, UnsplitIntact
    <2>5. pc = "take" /\ sem = 0
      BY <2>1, <2>4 DEF IInv, IntactStages, Arriving, Arrived, Given, Handled, Replying,
         Finished, AtRest, Silent
    <2> QED
      BY <2>1, <2>5 DEF Reading
  <1>5. CASE TxChar
    <2>1. txEn /\ gaps > 0
      BY <1>5 DEF TxChar, Transmitting
    <2> QED
      BY <2>1, <1>0 DEF IInv, OnlyIntactServed, Intact
  <1>6. CASE USART0_IRQHandler
    <2>1. Sending /\ gaps > 0 /\ bus # <<>> /\ pc' = pc
      BY <1>6 DEF USART0_IRQHandler, Sending, AduLen, line, task
    <2>2. ~tcF
      BY <2>1, <1>0 DEF IInv, OnlyIntactServed, Intact
    <2>3. idleF /\ idleF' = FALSE /\ rxEn' = FALSE
      BY <1>6, <2>2 DEF USART0_IRQHandler, IrqPending, IdleAlone
    <2>4. pc = "take"
      BY <2>1, <2>3 DEF OnePause
    <2> QED
      BY <2>1, <2>3, <2>4
  <1>7. CASE mb_slave_task
    <2>1. Sending /\ gaps > 0 /\ bus # <<>>
      BY <1>7 DEF mb_slave_task, mb_slave_init, mb_slv_port_rx_start, mb_slave_poll,
         mb_slv_port_tx_send, UartEnable, DmaInit, NvicEnable, RxDisable, RxReload, RxEnable,
         Take, GetLen, CheckAddr, ParseRequest, DispatchRequest, TxConfig, TxDe, TxEnable,
         line, Sending, AduLen
    <2>2. idleF' = idleF /\ ~idleF
      BY <1>7, <2>1 DEF mb_slave_task, mb_slave_init, mb_slv_port_rx_start, mb_slave_poll,
         mb_slv_port_tx_send, UartEnable, DmaInit, NvicEnable, RxDisable, RxReload, RxEnable,
         Take, GetLen, CheckAddr, ParseRequest, DispatchRequest, TxConfig, TxDe, TxEnable,
         irq, Step, IrqPending, IInv, InterruptsOn
    <2>3. CASE mb_slave_init
      BY <2>1, <2>3 DEF mb_slave_init, UartEnable, DmaInit, NvicEnable, Step, IInv,
         InterruptsOn, BootSteps
    <2>4. CASE mb_slv_port_rx_start
      <3>1. sem = 0 /\ sem' = sem /\ pc' \notin Reading
        BY <2>1, <2>4, <1>0 DEF mb_slv_port_rx_start, RxDisable, RxReload, RxEnable, Step, irq,
           OnePause, Reading
      <3> QED
        BY <2>2, <3>1
    <2>5. CASE Take
      BY <2>1, <2>2, <2>5 DEF Take, Step, OnePause, rx
    <2>6. CASE GetLen \/ CheckAddr \/ ParseRequest \/ DispatchRequest
      <3>1. pc \in Reading /\ UNCHANGED <<sem, rxEn>>
        BY <2>6 DEF GetLen, CheckAddr, ParseRequest, DispatchRequest, Step, Reading, rx, irq
      <3>2. sem = 0 /\ ~rxEn
        BY <2>1, <3>1, <1>0 DEF OnePause, Reading
      <3> QED
        BY <2>2, <3>1, <3>2
    <2>7. CASE mb_slv_port_tx_send
      <3>1. pc \in Serving
        BY <2>7 DEF mb_slv_port_tx_send, TxConfig, TxDe, TxEnable, Step, Serving, TxSend
      <3> QED
        BY <2>1, <3>1, <1>0, ServingHandled DEF Intact
    <2> QED
      BY <1>7, <2>3, <2>4, <2>5, <2>6, <2>7 DEF mb_slave_task, mb_slave_poll
  <1> QED
    BY <1>1, <1>2, <1>3, <1>4, <1>5, <1>6, <1>7 DEF Next

(* On a line whose ADUs pause once at most, rx_buf belongs to the task     *)
(* from the take to the end of the dispatch, also while it reads what a    *)
(* pause has left of an ADU: mb_slave_poll needs no copy of the frame.     *)
THEOREM SlaveFrameStable ==
  ASSUME TurnTaking, MaxGaps <= 1
  PROVE  Spec => FrameStable
  <1>1. Init => OnePause
    BY DEF Init, OnePause, Sending
  <1>2. IInv /\ OnePause /\ [Next]_vars => OnePause'
    BY OnePauseStep
  <1>3. IInv /\ OnePause /\ [Next]_vars => [(pc \in Reading) => (rx_buf' = rx_buf)]_vars
    <2> SUFFICES ASSUME IInv, OnePause, Next, pc \in Reading, rx_buf' # rx_buf
                 PROVE  FALSE
      OBVIOUS
    <2>1. Sending /\ rxEn
      BY ReadingChange
    <2>2. gaps = 0
      BY <2>1 DEF OnePause, IInv, TypeOK
    <2>3. Intact
      BY <2>1, <2>2 DEF IInv, UnsplitIntact, Fresh, AtRest, TypeOK, Reading, Sending
    <2> QED
      BY <2>1, <2>3, ReadingStage DEF Handled
  <1> QED
    BY <1>1, <1>2, <1>3, SlaveInvariant, PTL DEF Spec, FrameStable
-----------------------------------------------------------------------------
(* The receiver is never left off.                                         *)

(* The line, the UART and the handler keep Listening.                      *)
LEMMA LineListening ==
  ASSUME TurnTaking, MaxGaps <= 1, \A r \in Requests : AduLen(r) < RX_BUF_SIZE,
         IInv, OnePause, Listening,
         \/ \E r \in Requests : StartAdu(r)
         \/ RxChar \/ RaiseIdle \/ TxChar \/ USART0_IRQHandler
  PROVE  Listening'
  <1>0. /\ RX_BUF_SIZE \in Nat /\ RX_BUF_SIZE > 2 /\ rxCnt \in 1..RX_BUF_SIZE
        /\ pos \in Nat /\ gaps \in Nat /\ gaps <= 1 /\ sem \in {0, 1} /\ Len(bus) \in Nat
    BY SlaveAssumption DEF IInv, TypeOK
  <1>b. bus = <<>> => ~heard /\ ~idleF /\ ~Sending
    BY DEF IInv, Booting, Sending
  <1>i. bus # <<>> => irqOn
    BY DEF IInv, InterruptsOn
  <1>1. ASSUME NEW r \in Requests, StartAdu(r) PROVE Listening'
    BY <1>1, <1>0 DEF StartAdu, rx, tx, irq, task, Listening, NeverDeaf, IrqPending,
       Transmitting, Counted
  <1>2. CASE RxChar
    <2> USE <1>2 DEF RxChar, tx, irq, task
    <2>1. /\ Sending /\ bus # <<>> /\ ~idleF /\ ~tcF /\ uartOn /\ irqOn /\ pc \notin Serving
          /\ Intact => Arriving
      BY SendingQuiet DEF IrqPending
    <2>2. LastLen \in Nat /\ LastLen < RX_BUF_SIZE /\ pos < LastLen
      <3>1. bus[Last] \in Requests
        BY <2>1, LastElement DEF IInv, TypeOK, Last
      <3> QED
        BY <2>1, <3>1, LastLenType DEF LastLen, Last, Sending
    <2>3. /\ heard' = TRUE /\ rxEn' = rxEn
          /\ rxEn => rxCnt' = IF rxCnt = 1 THEN RX_BUF_SIZE ELSE rxCnt - 1
          /\ ~rxEn => rdr' = IF rdr = None THEN <<Len(bus), pos + 1>> ELSE rdr
      BY <2>1 DEF Receive, Fetch
    <2>4. CASE pos = 0
      <3>1. AtRest /\ rxEn /\ Counted = 0 /\ gaps = 0
        BY <2>1, <2>4 DEF IInv, Fresh
      <3>2. Counted' = 1
        BY <3>1, <2>3, <1>0 DEF Counted
      <3> QED
        BY <2>1, <2>3, <3>1, <3>2, <1>0 DEF AtRest, Listening, NeverDeaf
    <2>5. CASE pos > 0 /\ gaps = 0
      <3>1. Arriving
        BY <2>1, <2>5 DEF IInv, UnsplitIntact
      <3>2. Counted = pos
        BY <3>1, <2>2, <1>0 DEF Arriving, Counted
      <3>3. Counted' = pos + 1
        BY <3>1, <3>2, <2>2, <2>3, <1>0 DEF Arriving, Counted
      <3> QED
        BY <2>1, <2>3, <2>5, <3>1, <3>3, <1>0 DEF Arriving, AtRest, Listening, NeverDeaf
    <2>6. CASE gaps > 0
      <3>1. rxEn => pc = "take" /\ sem = 0
        <4>1. pc \notin BootSteps
          BY <2>1 DEF IInv, InterruptsOn
        <4>2. rxEn => pc \notin Reading /\ sem # 1 /\ pc \notin RxStart
          BY <2>1, <2>6 DEF OnePause, Listening
        <4> QED
          BY <4>1, <4>2, <2>1, <1>0 DEF IInv, TypeOK, Serving
      <3>2. rxEn => Counted' = Counted + 1 /\ Counted >= 0
        <4>1. rxEn => Counted < pos
          BY <2>1, <2>6 DEF IInv, Lagging
        <4> QED
          BY <4>1, <2>2, <2>3, <1>0 DEF Counted
      <3>3. sem = 1 => pc = "take" /\ ~rxEn
        BY <2>1, <2>6 DEF OnePause
      <3>4. ~rxEn => rdr' # None
        <4>1. Len(bus) # 0
          BY <2>1, EmptySeq DEF IInv, TypeOK
        <4> QED
          BY <4>1, <2>3 DEF None
      <3>5. Sending' => Sending
        BY <2>1
      <3>6. NeverDeaf'
        BY <2>3 DEF Listening, NeverDeaf, IrqPending, Transmitting
      <3>7. /\ heard' /\ rxEn' => pc' = "take" /\ sem' = 0 /\ Counted' > 0
            /\ Counted \in Nat
        BY <2>3, <3>1, <3>2, <1>0 DEF Counted
      <3> QED
        BY <2>1, <2>3, <2>6, <3>3, <3>4, <3>5, <3>6, <3>7 DEF Listening
    <2> QED
      BY <2>4, <2>5, <2>6, <1>0
  <1>3. CASE RaiseIdle
    <2> USE <1>3 DEF RaiseIdle, rx, tx, task
    <2>1. heard /\ bus # <<>> /\ irqOn /\ ~idleF /\ ~tcF /\ ~Transmitting
      BY <1>b, <1>i DEF IrqPending
    <2>2. pc = "take" /\ sem = 0 => Counted > 0 /\ Counted' = Counted
      BY <2>1 DEF Listening, NeverDeaf, IrqPending, Counted
    <2>3. Sending' /\ gaps' > 0 => pc \notin RxStart
      <3> SUFFICES ASSUME Sending' PROVE pc \notin RxStart
        OBVIOUS
      <3>1. Sending /\ gaps = 0
        BY <1>0, SlaveAssumption DEF Sending, AduLen
      <3>2. Intact
        BY <2>1, <3>1, <1>0 DEF IInv, Fresh, UnsplitIntact
      <3> QED
        BY <2>1, <3>1, <3>2 DEF IInv, IntactStages, Arriving, Arrived, Given, Handled, Replying,
           Finished, AtRest, Silent, RxStart
    <2> QED
      BY <2>1, <2>2, <2>3 DEF Listening, NeverDeaf, IrqPending
  <1>4. CASE TxChar
    <2>1. /\ Replying /\ bus # <<>> /\ uartOn /\ txEn /\ txPos < txLen
          /\ txPos \in Nat /\ txLen \in Nat
      BY <1>4, TransmittingReplying DEF TxChar, Transmitting, IInv, UartOn, TypeOK
    <2>2. /\ UNCHANGED <<pc, sem, idleF, irqOn, rxEn, txEn, txLen, bus, pos, gaps>>
          /\ txPos' = txPos + 1 /\ (txPos' = txLen => tcF')
      BY <1>4, <2>1 DEF TxChar, Receive, rx, task
    <2>3. heard' => rdr' # None
      <3>1. <<0, txPos + 1>> # None
        BY <2>1 DEF None
      <3> QED
        BY <1>4, <2>1, <3>1 DEF TxChar, Receive, rx, Replying
    <2>4. ~Sending'
      BY <2>1, <2>2 DEF Replying, Sending, AduLen
    <2>5. NeverDeaf'
      BY <2>1, <2>2, <1>i DEF NeverDeaf, Transmitting, IrqPending
    <2> QED
      BY <2>1, <2>2, <2>3, <2>4, <2>5 DEF Replying, Listening
  <1>5. CASE USART0_IRQHandler
    <2> USE <1>5 DEF USART0_IRQHandler, line, task
    <2>0. irqOn' /\ ~idleF' /\ ~tcF' /\ pc' = pc /\ heard' = heard /\ Sending' = Sending
      BY DEF IrqPending, Sending, AduLen
    <2>1. CASE tcF /\ bus = <<>>
      <3>1. rxEn' = TRUE /\ ~heard /\ ~Sending
        BY <2>1, <1>b DEF TransferComplete, EnableRx
      <3> QED
        BY <2>0, <3>1 DEF Listening, NeverDeaf
    <2>2. CASE tcF /\ bus # <<>>
      <3>1. Replying
        BY <2>2 DEF IInv, OnlyIntactServed, IntactStages, Arriving, Arrived, Given, Handled,
           Finished, AtRest, NoFlag
      <3>2. /\ rxEn' = TRUE /\ sem' = 0 /\ pc = "take" /\ ~Sending
            /\ rdr # None => rxCnt' = RX_BUF_SIZE - 1
        BY <2>2, <3>1 DEF Replying, TransferComplete, EnableRx, Waiting, HandOver
      <3>3. heard => Counted' > 0
        BY <3>1, <3>2, <1>0 DEF Replying, Counted
      <3> QED
        BY <2>0, <3>2, <3>3 DEF Listening, NeverDeaf
    <2>3. CASE ~tcF
      <3>1. idleF /\ ~heard /\ rxEn' = FALSE /\ UNCHANGED <<txEn, txPos, txLen>>
        BY <2>3 DEF IrqPending, IdleAlone, Listening
      <3>2. sem' = 0 /\ pc = "take" => FALSE
        <4>1. sem' = IF Counted > 0 /\ Counted < RX_BUF_SIZE THEN 1 ELSE sem
          BY <3>1 DEF HandOver
        <4>2. Counted < RX_BUF_SIZE
          BY <1>0 DEF Counted
        <4>3. pc = "take" /\ sem = 0 => Counted > 0
          BY <2>3, <3>1 DEF Listening
        <4> QED
          BY <4>1, <4>2, <4>3, <1>0
      <3> QED
        BY <2>0, <3>1, <3>2 DEF Listening, NeverDeaf
    <2> QED
      BY <2>1, <2>2, <2>3
  <1> QED
    BY <1>1, <1>2, <1>3, <1>4, <1>5

(* So does the task.                                                       *)
LEMMA TaskListening ==
  ASSUME IInv, OnePause, Listening, mb_slave_task
  PROVE  Listening'
  <1>0. /\ RX_BUF_SIZE \in Nat /\ RX_BUF_SIZE > 2 /\ rxCnt \in 1..RX_BUF_SIZE
        /\ sem \in {0, 1} /\ AduLen(s_tx_buf) \in Nat /\ AduLen(s_tx_buf) >= 2
    BY SlaveAssumption, AduLenType DEF IInv, TypeOK
  <1>b. bus = <<>> => ~heard /\ ~idleF /\ ~Sending
    BY DEF IInv, Booting, Sending
  <1>1. ~idleF
    BY <1>b DEF mb_slave_task, mb_slave_init, mb_slv_port_rx_start, mb_slave_poll,
       mb_slv_port_tx_send, UartEnable, DmaInit, NvicEnable, RxDisable, RxReload, RxEnable,
       Take, GetLen, CheckAddr, ParseRequest, DispatchRequest, TxConfig, TxDe, TxEnable,
       Step, IrqPending, IInv, InterruptsOn
  <1>2. /\ UNCHANGED <<heard, idleF, bus, pos, gaps>> /\ Sending' = Sending
        /\ sem' = sem \/ sem' = 0
    BY DEF mb_slave_task, mb_slave_init, mb_slv_port_rx_start, mb_slave_poll,
       mb_slv_port_tx_send, UartEnable, DmaInit, NvicEnable, RxDisable, RxReload, RxEnable,
       Take, GetLen, CheckAddr, ParseRequest, DispatchRequest, TxConfig, TxDe, TxEnable,
       line, irq, Sending, AduLen
  <1>3. CASE mb_slave_init
    <2>1. pc \in BootSteps /\ pc' # "take"
      BY <1>3 DEF mb_slave_init, UartEnable, DmaInit, NvicEnable, Step, BootSteps
    <2>2. ~heard /\ ~Sending
      BY <2>1, <1>b DEF IInv, InterruptsOn
    <2> QED
      BY <1>1, <1>2, <2>1, <2>2 DEF Listening, NeverDeaf
  <1>4. CASE RxDisable \/ RxReload
    <2>1. pc # "take" /\ pc' # "take" /\ sem' = sem /\ rdr' = rdr /\ (~rxEn => ~rxEn')
          /\ pc \in RxStart
      BY <1>4 DEF RxDisable, RxReload, Step, irq, RxStart
    <2> QED
      BY <1>1, <1>2, <2>1 DEF Listening, NeverDeaf
  <1>5. CASE RxEnable
    <2>1. /\ pc = "rx_enable" /\ pc' = "take" /\ sem' = sem /\ ~rxEn /\ rxEn'
          /\ rxCnt = RX_BUF_SIZE
      BY <1>5 DEF RxEnable, Step, irq, IInv, Reloaded
    <2>2. heard => rdr # None /\ sem = 0
      BY <2>1, <1>0 DEF Listening
    <2>3. heard => Counted' > 0
      BY <1>5, <2>1, <2>2, <1>0 DEF RxEnable, Fetch, Counted
    <2>4. pc' \notin RxStart
      BY <2>1 DEF RxStart
    <2> QED
      BY <1>1, <1>2, <2>1, <2>2, <2>3, <2>4, <1>0 DEF Listening, NeverDeaf
  <1>6. CASE mb_slave_poll \/ TxConfig \/ TxDe
    <2>1. /\ rxEn' = rxEn /\ rdr' = rdr /\ pc' # "take"
          /\ pc \in Reading \cup TxSend \/ (pc = "take" /\ sem = 1 /\ sem' = 0)
      BY <1>6 DEF mb_slave_poll, Take, GetLen, CheckAddr, ParseRequest, DispatchRequest,
         TxConfig, TxDe, Step, rx, Reading, TxSend
    <2>2. ~(heard /\ rxEn)
      BY <2>1, <1>0 DEF Listening, Reading, TxSend
    <2>3. heard => sem' = 0
      BY <2>1, <1>0, <1>2 DEF Listening, Reading, TxSend
    <2>4. Sending /\ gaps > 0 /\ pc' \in RxStart => ~rxEn
      <3>1. pc' \in RxStart => pc \in Reading
        BY <1>6 DEF mb_slave_poll, Take, GetLen, CheckAddr, ParseRequest, DispatchRequest,
           TxConfig, TxDe, Step, Reading, RxStart
      <3> QED
        BY <3>1 DEF OnePause
    <2> QED
      BY <1>1, <1>2, <2>1, <2>2, <2>3, <2>4 DEF Listening, NeverDeaf
  <1>7. CASE TxEnable
    <2>1. /\ pc = "tx_enable" /\ pc' = "take" /\ rxEn' = rxEn /\ rdr' = rdr /\ sem' = sem
          /\ txEn' /\ txPos' = txPos /\ txLen' = txLen
      BY <1>7 DEF TxEnable, Step, rx, irq
    <2>2. Transmitting'
      BY <2>1, <1>0 DEF IInv, ReplyPending, Transmitting
    <2>3. pc' \notin RxStart
      BY <2>1 DEF RxStart
    <2> QED
      BY <1>1, <1>2, <2>1, <2>2, <2>3 DEF Listening, NeverDeaf
  <1> QED
    BY <1>3, <1>4, <1>5, <1>6, <1>7
       DEF mb_slave_task, mb_slv_port_rx_start, mb_slv_port_tx_send

(* The slave is never deaf: whenever its task waits, with no interrupt and *)
(* no reply to come, the receive channel is on, though the IDLE interrupt  *)
(* leaves it off every time and on some paths the task, on others the TC   *)
(* interrupt has to restart it.  Each hypothesis is needed: without the    *)
(* one on lengths the run mb_slave_full, without turns mb_slave_boot, and  *)
(* with two pauses TLC find the slave deaf.                                *)
THEOREM SlaveNeverDeaf ==
  ASSUME TurnTaking, MaxGaps <= 1, \A r \in Requests : AduLen(r) < RX_BUF_SIZE
  PROVE  Spec => []NeverDeaf
  <1>1. Init => OnePause /\ Listening
    BY DEF Init, OnePause, Sending, Listening, NeverDeaf
  <1>2. IInv /\ OnePause /\ [Next]_vars => OnePause'
    BY OnePauseStep
  <1>3. IInv /\ OnePause /\ Listening /\ [Next]_vars => Listening'
    <2> SUFFICES ASSUME IInv, OnePause, Listening, [Next]_vars PROVE Listening'
      OBVIOUS
    <2>1. CASE UNCHANGED vars
      BY <2>1 DEF vars, line, rx, tx, irq, task, Listening, NeverDeaf, IrqPending,
         Transmitting, Counted, Sending, AduLen
    <2>2. CASE Next
      BY <2>2, LineListening, TaskListening DEF Next
    <2> QED
      BY <2>1, <2>2
  <1>4. Listening => NeverDeaf
    BY DEF Listening
  <1> QED
    BY <1>1, <1>2, <1>3, <1>4, SlaveInvariant, PTL DEF Spec
-----------------------------------------------------------------------------
(* What is proved of the promise holds of the slave.  Promise is MbServer  *)
(* once more, this time with its theorems; the two copies of its           *)
(* definitions agree, like those of MbFrame above.                         *)
Promise == INSTANCE MbServer_proofs

(* The constants of the two copies meet the same assumptions.              *)
LEMMA PromiseAssumptions ==
  Promise!ServerAssumption /\ Promise!RegCountAssumption /\ Promise!TxBufAssumption
  BY SlaveAssumption, RegCountAssumption, TxBufAssumption
     DEF Promise!ServerAssumption, Promise!RegCountAssumption, Promise!TxBufAssumption,
         Promise!ADU, ADU, Promise!Byte, Byte

(* The two copies dispatch alike.                                          *)
LEMMA SamePromisedDispatch ==
  ASSUME NEW adu, NEW regs
  PROVE  /\ Promise!Accepts(adu) = Accepts(adu)
         /\ Promise!Dispatch(Promise!Header(adu), Promise!Data(adu), regs)
              = Dispatch(Header(adu), Data(adu), regs)
  <1>1. Promise!Accepts(adu) = Accepts(adu)
    BY DEF Promise!Accepts, Accepts, Promise!AduLen, AduLen, Promise!MinLen, MinLen,
       Promise!FC03, FC03, Promise!FC10, FC10, Promise!U16, U16
  <1>2. Promise!Header(adu) = Header(adu) /\ Promise!Data(adu) = Data(adu)
    BY DEF Promise!Header, Header, Promise!Data, Data, Promise!U16, U16
  <1>3. \A f, data : Promise!Dispatch(f, data, regs) = Dispatch(f, data, regs)
    BY DEF Promise!Dispatch, Dispatch, Promise!DispatchRead, DispatchRead,
       Promise!DispatchWriteOne, DispatchWriteOne, Promise!DispatchWriteMany,
       DispatchWriteMany, Promise!Outcome, Outcome, Promise!Exception, Exception,
       Promise!Reply, Reply, Promise!ReadReply, ReadReply, Promise!EchoReply, EchoReply,
       Promise!ReadRegs, ReadRegs, Promise!WriteRegs, WriteRegs, Promise!InRange, InRange,
       Promise!ValueInMemory, ValueInMemory, Promise!Hi, Hi, Promise!Lo, Lo, Promise!U16, U16,
       Promise!Reg, Reg, Promise!FC03, FC03, Promise!FC06, FC06, Promise!FC10, FC10
  <1> QED
    BY <1>1, <1>2, <1>3

(* So the two promises are one.                                            *)
LEMMA SamePromise ==
  /\ Server!ServerInit <=> Promise!ServerInit
  /\ [Server!ServerNext]_Server!serverVars <=> [Promise!ServerNext]_Promise!serverVars
  <1>1. Server!ServerInit <=> Promise!ServerInit
    BY DEF Server!ServerInit, Promise!ServerInit, Server!Reg, Promise!Reg
  <1>2. \A k : Server!Serve(k) <=> Promise!Serve(k)
    BY SameDispatch, SamePromisedDispatch
       DEF Server!Serve, Promise!Serve, Server!LastServed, Promise!LastServed,
           Server!Addressed, Promise!Addressed
  <1>3. \A r : Server!Send(r) <=> Promise!Send(r)
    BY DEF Server!Send, Promise!Send
  <1> QED
    BY <1>1, <1>2, <1>3
       DEF Server!ServerNext, Promise!ServerNext, Server!serverVars, Promise!serverVars

(* On the real line, with its interrupt and its task in any order: no      *)
(* request reaches outside hold_regs, every reply fits in s_tx_buf, no     *)
(* request is executed twice or before an earlier one, a refused one       *)
(* changes nothing, a read returns the registers as they are and so what   *)
(* was written by FC10, and every executed request stores exactly what     *)
(* MbServer_proofs says.                                                   *)
THEOREM SlaveKeepsPromise ==
  ASSUME TurnTaking
  PROVE  Spec => /\ []Promise!AccessInBounds
                 /\ []Promise!ReplyFits
                 /\ []Promise!InOrder
                 /\ []Promise!ReadBack
                 /\ Promise!RefusedChangesNothing
                 /\ Promise!ReadIsFaithful
                 /\ Promise!StoresExactly
  <1>1. Implements => Promise!ServerSpec
    BY SamePromise, PTL DEF Implements, Server!ServerSpec, Promise!ServerSpec
  <1>2. /\ Promise!ServerSpec => []Promise!AccessInBounds
        /\ Promise!ServerSpec => []Promise!ReplyFits
        /\ Promise!ServerSpec => []Promise!InOrder
        /\ Promise!ServerSpec => []Promise!ReadBack
    BY PromiseAssumptions, Promise!ServerInBounds, Promise!ServerReplyFits,
       Promise!ServerInOrder, Promise!ServerReadBack
  <1>3. /\ Promise!ServerSpec => Promise!RefusedChangesNothing
        /\ Promise!ServerSpec => Promise!ReadIsFaithful
        /\ Promise!ServerSpec => Promise!StoresExactly
    BY PromiseAssumptions, Promise!ServerRefusedChangesNothing,
       Promise!ServerReadIsFaithful, Promise!ServerStoresExactly
  <1> QED
    BY <1>1, <1>2, <1>3, SlaveImplementsServer, PTL
=============================================================================
