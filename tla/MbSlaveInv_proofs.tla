-------------------------- MODULE MbSlaveInv_proofs -------------------------
(***************************************************************************)
(* IInv (MbSlaveInv) is inductive: it holds initially and every action of  *)
(* MbSlave preserves it, one lemma per action.  An action's lemma shows    *)
(* first that what it leaves alone is unchanged, then the conjuncts of     *)
(* IInv in groups.  Two facts carry the argument: AcceptedIsLast (what the *)
(* parser accepts is the last ADU, whole) and TransmittingReplying (while  *)
(* a reply leaves, nothing else can happen).  The last part shows that     *)
(* AnyTraffic is inductive, which makes no assumption on who sends when.   *)
(***************************************************************************)
EXTENDS MbSlaveInv, MbFrame_proofs, SequenceTheorems

(* An ADU has at least its two CRC characters.                             *)
LEMMA AduLenType == ASSUME NEW adu \in ADU
                    PROVE  AduLen(adu) \in Nat /\ AduLen(adu) >= 2
  BY DEF ADU, AduLen

(* The empty data register is a token, too.                                *)
LEMMA NoneToken == None \in Tokens
  BY SlaveAssumption DEF None, Tokens

(* A non-empty sequence has a last element.                                *)
LEMMA LastElement == ASSUME NEW S, NEW s \in Seq(S), s # <<>>
                     PROVE  Len(s) \in Nat \ {0} /\ s[Len(s)] \in S
  <1>1. Len(s) \in Nat /\ Len(s) # 0
    BY EmptySeq
  <1> QED
    BY <1>1

(* What is on the bus, and how far the last ADU has come.                  *)
LEMMA BusType == ASSUME IInv
                 PROVE  /\ bus \in Seq(Requests) /\ Len(bus) \in Nat /\ Len(bus) <= MaxFrames
                        /\ pos \in Nat /\ bus # <<>> => Len(bus) > 0
  <1>1. bus \in Seq(Requests) /\ Len(bus) <= MaxFrames /\ pos \in 0..RX_BUF_SIZE
    BY DEF IInv, TypeOK
  <1> QED
    BY <1>1, EmptySeq, SlaveAssumption

(* The receive buffer and its counter.                                     *)
LEMMA BufferType == ASSUME IInv
                    PROVE  /\ rx_buf \in [0..(RX_BUF_SIZE - 1) -> Tokens]
                           /\ rxCnt \in 1..RX_BUF_SIZE /\ rdr \in Tokens
                           /\ RX_BUF_SIZE \in Nat /\ RX_BUF_SIZE > 2
  BY SlaveAssumption DEF IInv, TypeOK

(* A token is a pair of numbers.                                           *)
LEMMA TokenType == ASSUME NEW t \in Tokens
                   PROVE  t[1] \in Nat /\ t[2] \in Nat
  BY SlaveAssumption DEF Tokens

(* No place of the buffer holds a character of an ADU still to come.       *)
LEMMA NoLaterAdu == ASSUME IInv
                    PROVE  \A i \in 0..(RX_BUF_SIZE - 1) :
                             rx_buf[i][1] \in Nat /\ rx_buf[i][1] <= Last
  <1>1. NoFutureTokens
    BY DEF IInv
  <1>2. ASSUME NEW i \in 0..(RX_BUF_SIZE - 1)
        PROVE  rx_buf[i][1] \in Nat /\ rx_buf[i][1] <= Last
    <2>1. rx_buf[i] \in Tokens
      BY BufferType
    <2> QED
      BY <2>1, <1>1, TokenType DEF NoFutureTokens
  <1> QED
    BY <1>2

(* A sequence with one more reply is a sequence of replies.                *)
LEMMA AppendType == ASSUME NEW S, NEW s \in Seq(S), NEW e \in S
                    PROVE  Append(s, e) \in Seq(S)
  OBVIOUS

(* A request is an ADU that fits in the receive buffer.                    *)
LEMMA RequestType == ASSUME NEW r \in Requests
                     PROVE  r \in ADU /\ AduLen(r) \in 3..RX_BUF_SIZE
  <1>1. r \in ADU /\ Len(r.bytes) >= 1 /\ AduLen(r) <= RX_BUF_SIZE
    BY SlaveAssumption
  <1>2. Len(r.bytes) \in Nat
    BY <1>1 DEF ADU
  <1> QED
    BY <1>1, <1>2, SlaveAssumption DEF AduLen

(* The length of the last ADU.                                             *)
LEMMA LastLenType == ASSUME IInv, bus # <<>>
                     PROVE  LastLen \in 3..RX_BUF_SIZE
  BY BusType, LastElement, RequestType DEF LastLen, Last

(* The index of the last ADU served.                                       *)
LEMMA LastServedType == ASSUME IInv PROVE Server!LastServed \in Nat
  <1>1. replies \in Seq([req : Nat, reply : ADU])
    BY DEF IInv, TypeOK
  <1>2. replies # <<>> => replies[Len(replies)] \in [req : Nat, reply : ADU]
    BY <1>1, LastElement
  <1> QED
    BY <1>2 DEF Server!LastServed

(* While a request is dispatched and its transmission prepared, nothing    *)
(* else is going on.                                                       *)
LEMMA ServingHandled == ASSUME IInv, pc \in Serving
                        PROVE  /\ Intact /\ Handled /\ rdr = None /\ ~txEn
                               /\ de => pc = "tx_enable"
  BY DEF IInv, OnlyIntactServed, IntactStages, Serving, TxSend, Arriving, Arrived, Given,
     Handled, Replying, Finished, AtRest, Silent, Driver

(* UartEnable preserves the invariant.                                     *)
LEMMA UartEnableInv == ASSUME IInv, UartEnable PROVE IInv'
  <1> USE DEF UartEnable, Step, line, rx, tx, irq
  <1>1. TypeOK'
    BY DEF IInv, TypeOK, BootSteps, RxStart, Reading, TxSend
  <1>2. /\ Intact' = Intact /\ Sending' = Sending
        /\ Server!LastServed' = Server!LastServed
    BY DEF Intact, Sending, Last, AduLen, Server!LastServed
  <1>3. IntactStages'
    BY <1>2 DEF IInv, IntactStages, Arriving, Arrived, Given, Handled,
       Replying, Finished, AtRest, NoFlag, Silent, Counted, Transmitting, Reading, TxSend,
       RxStart, BootSteps, TypeOK, InterruptsOn, None
  <1>4. Booting' /\ UartOn' /\ InterruptsOn' /\ Fresh' /\ OnlyIntactServed'
        /\ UnsplitIntact' /\ Rested'
    BY <1>2 DEF IInv, UnsplitIntact, Rested, Booting, UartOn, InterruptsOn, Fresh, OnlyIntactServed,
       Serving, AtRest, BootSteps, RxStart, TxSend, Reading, Counted, IrqPending, TypeOK
  <1>5. NoFutureTokens' /\ FirstPlace' /\ DataRegister' /\ Lagging' /\ Reloaded' /\ Progress'
    BY <1>2 DEF IInv, NoFutureTokens, FirstPlace, DataRegister, Lagging, Reloaded,
       Progress, Last, LastLen, AduLen, Counted
  <1>6. FrameParsed' /\ AddrChecked' /\ Driver' /\ DriverOn' /\ ReplyPending'
    BY <1>2 DEF IInv, FrameParsed, AddrChecked, Driver, DriverOn, ReplyPending,
       TypeOK, Last, Server!Addressed
  <1>7. History' /\ WireHistory'
    BY <1>2 DEF IInv, History, Unserved, WireHistory, Outstanding, Transmitting,
       IntactStages, Arriving, Arrived, Given, Handled, Replying, Finished, AtRest, NoFlag,
       Silent, Reading, TxSend, RxStart, Last, Counted
  <1> QED
    BY <1>1, <1>3, <1>4, <1>5, <1>6, <1>7 DEF IInv

(* NvicEnable preserves the invariant.                                     *)
LEMMA NvicEnableInv == ASSUME IInv, NvicEnable PROVE IInv'
  <1> USE DEF NvicEnable, Step, line, rx, tx, irq
  <1>1. TypeOK'
    BY DEF IInv, TypeOK, BootSteps, RxStart, Reading, TxSend
  <1>2. /\ Intact' = Intact /\ Sending' = Sending
        /\ Server!LastServed' = Server!LastServed
    BY DEF Intact, Sending, Last, AduLen, Server!LastServed
  <1>3. IntactStages'
    BY <1>2 DEF IInv, IntactStages, Arriving, Arrived, Given, Handled,
       Replying, Finished, AtRest, NoFlag, Silent, Counted, Transmitting, Reading, TxSend,
       RxStart, BootSteps, TypeOK, InterruptsOn, None
  <1>4. Booting' /\ UartOn' /\ InterruptsOn' /\ Fresh' /\ OnlyIntactServed'
        /\ UnsplitIntact' /\ Rested'
    BY <1>2 DEF IInv, UnsplitIntact, Rested, Booting, UartOn, InterruptsOn, Fresh, OnlyIntactServed,
       Serving, AtRest, BootSteps, RxStart, TxSend, Reading, Counted, IrqPending, TypeOK
  <1>5. NoFutureTokens' /\ FirstPlace' /\ DataRegister' /\ Lagging' /\ Reloaded' /\ Progress'
    BY <1>2 DEF IInv, NoFutureTokens, FirstPlace, DataRegister, Lagging, Reloaded,
       Progress, Last, LastLen, AduLen, Counted
  <1>6. FrameParsed' /\ AddrChecked' /\ Driver' /\ DriverOn' /\ ReplyPending'
    BY <1>2 DEF IInv, FrameParsed, AddrChecked, Driver, DriverOn, ReplyPending,
       TypeOK, Last, Server!Addressed
  <1>7. History' /\ WireHistory'
    BY <1>2 DEF IInv, History, Unserved, WireHistory, Outstanding, Transmitting,
       IntactStages, Arriving, Arrived, Given, Handled, Replying, Finished, AtRest, NoFlag,
       Silent, Reading, TxSend, RxStart, Last, Counted
  <1> QED
    BY <1>1, <1>3, <1>4, <1>5, <1>6, <1>7 DEF IInv

(* RxDisable preserves the invariant.                                      *)
LEMMA RxDisableInv == ASSUME IInv, RxDisable PROVE IInv'
  <1> USE DEF RxDisable, Step, line, rx, tx, irq
  <1>1. TypeOK'
    BY DEF IInv, TypeOK, BootSteps, RxStart, Reading, TxSend
  <1>2. /\ Intact' = Intact /\ Sending' = Sending
        /\ Server!LastServed' = Server!LastServed
    BY DEF Intact, Sending, Last, AduLen, Server!LastServed
  <1>3. IntactStages'
    BY <1>2 DEF IInv, IntactStages, Arriving, Arrived, Given, Handled,
       Replying, Finished, AtRest, NoFlag, Silent, Counted, Transmitting, Reading, TxSend,
       RxStart, BootSteps, TypeOK, InterruptsOn, None
  <1>4. Booting' /\ UartOn' /\ InterruptsOn' /\ Fresh' /\ OnlyIntactServed'
        /\ UnsplitIntact' /\ Rested'
    BY <1>2 DEF IInv, UnsplitIntact, Rested, Booting, UartOn, InterruptsOn, Fresh, OnlyIntactServed,
       Serving, AtRest, BootSteps, RxStart, TxSend, Reading, Counted, IrqPending, TypeOK
  <1>5. NoFutureTokens' /\ FirstPlace' /\ DataRegister' /\ Lagging' /\ Reloaded' /\ Progress'
    BY <1>2 DEF IInv, NoFutureTokens, FirstPlace, DataRegister, Lagging, Reloaded,
       Progress, Last, LastLen, AduLen, Counted
  <1>6. FrameParsed' /\ AddrChecked' /\ Driver' /\ DriverOn' /\ ReplyPending'
    BY <1>2 DEF IInv, FrameParsed, AddrChecked, Driver, DriverOn, ReplyPending,
       TypeOK, Last, Server!Addressed
  <1>7. History' /\ WireHistory'
    BY <1>2 DEF IInv, History, Unserved, WireHistory, Outstanding, Transmitting,
       IntactStages, Arriving, Arrived, Given, Handled, Replying, Finished, AtRest, NoFlag,
       Silent, Reading, TxSend, RxStart, Last, Counted
  <1> QED
    BY <1>1, <1>3, <1>4, <1>5, <1>6, <1>7 DEF IInv

(* RxReload preserves the invariant.                                       *)
LEMMA RxReloadInv == ASSUME IInv, RxReload PROVE IInv'
  <1> USE DEF RxReload, Step, line, rx, tx, irq
  <1>1. TypeOK'
    BY DEF IInv, TypeOK, BootSteps, RxStart, Reading, TxSend
  <1>2. /\ Intact' = Intact /\ Sending' = Sending
        /\ Server!LastServed' = Server!LastServed
    BY DEF Intact, Sending, Last, AduLen, Server!LastServed
  <1>3. IntactStages'
    BY <1>2 DEF IInv, IntactStages, Arriving, Arrived, Given, Handled,
       Replying, Finished, AtRest, NoFlag, Silent, Counted, Transmitting, Reading, TxSend,
       RxStart, BootSteps, TypeOK, InterruptsOn, None
  <1>4. Booting' /\ UartOn' /\ InterruptsOn' /\ Fresh' /\ OnlyIntactServed'
        /\ UnsplitIntact' /\ Rested'
    BY <1>2 DEF IInv, UnsplitIntact, Rested, Booting, UartOn, InterruptsOn, Fresh, OnlyIntactServed,
       Serving, AtRest, BootSteps, RxStart, TxSend, Reading, Counted, IrqPending, TypeOK
  <1>5. NoFutureTokens' /\ FirstPlace' /\ DataRegister' /\ Lagging' /\ Reloaded' /\ Progress'
    BY <1>2 DEF IInv, NoFutureTokens, FirstPlace, DataRegister, Lagging, Reloaded,
       Progress, Last, LastLen, AduLen, Counted
  <1>6. FrameParsed' /\ AddrChecked' /\ Driver' /\ DriverOn' /\ ReplyPending'
    BY <1>2 DEF IInv, FrameParsed, AddrChecked, Driver, DriverOn, ReplyPending,
       TypeOK, Last, Server!Addressed
  <1>7. History' /\ WireHistory'
    BY <1>2 DEF IInv, History, Unserved, WireHistory, Outstanding, Transmitting,
       IntactStages, Arriving, Arrived, Given, Handled, Replying, Finished, AtRest, NoFlag,
       Silent, Reading, TxSend, RxStart, Last, Counted
  <1> QED
    BY <1>1, <1>3, <1>4, <1>5, <1>6, <1>7 DEF IInv

(* Take preserves the invariant.                                           *)
LEMMA TakeInv == ASSUME IInv, Take PROVE IInv'
  <1> USE DEF Take, Step, line, rx, tx, irq
  <1>1. TypeOK'
    BY DEF IInv, TypeOK, BootSteps, RxStart, Reading, TxSend
  <1>2. /\ Intact' = Intact /\ Sending' = Sending
        /\ Server!LastServed' = Server!LastServed
    BY DEF Intact, Sending, Last, AduLen, Server!LastServed
  <1>3. IntactStages'
    BY <1>2 DEF IInv, IntactStages, Arriving, Arrived, Given, Handled,
       Replying, Finished, AtRest, NoFlag, Silent, Counted, Transmitting, Reading, TxSend,
       RxStart, BootSteps, TypeOK, InterruptsOn, None
  <1>4. Booting' /\ UartOn' /\ InterruptsOn' /\ Fresh' /\ OnlyIntactServed'
        /\ UnsplitIntact' /\ Rested'
    BY <1>2 DEF IInv, UnsplitIntact, Rested, Booting, UartOn, InterruptsOn, Fresh, OnlyIntactServed,
       Serving, AtRest, BootSteps, RxStart, TxSend, Reading, Counted, IrqPending, TypeOK
  <1>5. NoFutureTokens' /\ FirstPlace' /\ DataRegister' /\ Lagging' /\ Reloaded' /\ Progress'
    BY <1>2 DEF IInv, NoFutureTokens, FirstPlace, DataRegister, Lagging, Reloaded,
       Progress, Last, LastLen, AduLen, Counted
  <1>6. FrameParsed' /\ AddrChecked' /\ Driver' /\ DriverOn' /\ ReplyPending'
    BY <1>2 DEF IInv, FrameParsed, AddrChecked, Driver, DriverOn, ReplyPending,
       TypeOK, Last, Server!Addressed
  <1>7. History' /\ WireHistory'
    BY <1>2 DEF IInv, History, Unserved, WireHistory, Outstanding, Transmitting,
       IntactStages, Arriving, Arrived, Given, Handled, Replying, Finished, AtRest, NoFlag,
       Silent, Reading, TxSend, RxStart, Last, Counted
  <1> QED
    BY <1>1, <1>3, <1>4, <1>5, <1>6, <1>7 DEF IInv

(* GetLen preserves the invariant.                                         *)
LEMMA GetLenInv == ASSUME IInv, GetLen PROVE IInv'
  <1> USE DEF GetLen, Step, line, rx, tx, irq
  <1>1. TypeOK'
    BY DEF IInv, TypeOK, BootSteps, RxStart, Reading, TxSend
  <1>2. /\ Intact' = Intact /\ Sending' = Sending
        /\ Server!LastServed' = Server!LastServed
    BY DEF Intact, Sending, Last, AduLen, Server!LastServed
  <1>3. IntactStages'
    BY <1>2 DEF IInv, IntactStages, Arriving, Arrived, Given, Handled,
       Replying, Finished, AtRest, NoFlag, Silent, Counted, Transmitting, Reading, TxSend,
       RxStart, BootSteps, TypeOK, InterruptsOn, None
  <1>4. Booting' /\ UartOn' /\ InterruptsOn' /\ Fresh' /\ OnlyIntactServed'
        /\ UnsplitIntact' /\ Rested'
    BY <1>2 DEF IInv, UnsplitIntact, Rested, Booting, UartOn, InterruptsOn, Fresh, OnlyIntactServed,
       Serving, AtRest, BootSteps, RxStart, TxSend, Reading, Counted, IrqPending, TypeOK
  <1>5. NoFutureTokens' /\ FirstPlace' /\ DataRegister' /\ Lagging' /\ Reloaded' /\ Progress'
    BY <1>2 DEF IInv, NoFutureTokens, FirstPlace, DataRegister, Lagging, Reloaded,
       Progress, Last, LastLen, AduLen, Counted
  <1>6. FrameParsed' /\ AddrChecked' /\ Driver' /\ DriverOn' /\ ReplyPending'
    BY <1>2 DEF IInv, FrameParsed, AddrChecked, Driver, DriverOn, ReplyPending,
       TypeOK, Last, Server!Addressed
  <1>7. History' /\ WireHistory'
    BY <1>2 DEF IInv, History, Unserved, WireHistory, Outstanding, Transmitting,
       IntactStages, Arriving, Arrived, Given, Handled, Replying, Finished, AtRest, NoFlag,
       Silent, Reading, TxSend, RxStart, Last, Counted
  <1> QED
    BY <1>1, <1>3, <1>4, <1>5, <1>6, <1>7 DEF IInv

(* CheckAddr preserves the invariant.                                      *)
LEMMA CheckAddrInv == ASSUME IInv, CheckAddr PROVE IInv'
  <1> USE DEF CheckAddr, Step, line, rx, tx, irq
  <1>a. Intact => ByteOf(rx_buf[0]) = bus[Last].bytes[1]
    BY SlaveAssumption DEF IInv, TypeOK, Intact, ByteOf, Last
  <1>1. TypeOK'
    BY DEF IInv, TypeOK, BootSteps, RxStart, Reading, TxSend
  <1>2. /\ Intact' = Intact /\ Sending' = Sending
        /\ Server!LastServed' = Server!LastServed
    BY DEF Intact, Sending, Last, AduLen, Server!LastServed
  <1>3. IntactStages'
    BY <1>a, <1>2 DEF IInv, IntactStages, Arriving, Arrived, Given, Handled,
       Replying, Finished, AtRest, NoFlag, Silent, Counted, Transmitting, Reading, TxSend,
       RxStart, BootSteps, TypeOK, InterruptsOn, None
  <1>4. Booting' /\ UartOn' /\ InterruptsOn' /\ Fresh' /\ OnlyIntactServed'
        /\ UnsplitIntact' /\ Rested'
    BY <1>a, <1>2 DEF IInv, UnsplitIntact, Rested, Booting, UartOn, InterruptsOn, Fresh, OnlyIntactServed,
       Serving, AtRest, BootSteps, RxStart, TxSend, Reading, Counted, IrqPending, TypeOK
  <1>5. NoFutureTokens' /\ FirstPlace' /\ DataRegister' /\ Lagging' /\ Reloaded' /\ Progress'
    BY <1>a, <1>2 DEF IInv, NoFutureTokens, FirstPlace, DataRegister, Lagging, Reloaded,
       Progress, Last, LastLen, AduLen, Counted
  <1>6. FrameParsed' /\ AddrChecked' /\ Driver' /\ DriverOn' /\ ReplyPending'
    BY <1>a, <1>2 DEF IInv, FrameParsed, AddrChecked, Driver, DriverOn, ReplyPending,
       TypeOK, Last, Server!Addressed
  <1>7. History' /\ WireHistory'
    BY <1>a, <1>2 DEF IInv, History, Unserved, WireHistory, Outstanding, Transmitting,
       IntactStages, Arriving, Arrived, Given, Handled, Replying, Finished, AtRest, NoFlag,
       Silent, Reading, TxSend, RxStart, Last, Counted
  <1> QED
    BY <1>1, <1>3, <1>4, <1>5, <1>6, <1>7 DEF IInv

(* TxConfig preserves the invariant.                                       *)
LEMMA TxConfigInv == ASSUME IInv, TxConfig PROVE IInv'
  <1> USE DEF TxConfig, Step, line, rx, tx, irq
  <1>0. Intact /\ Handled /\ rdr = None /\ ~txEn /\ ~de
    BY ServingHandled DEF Serving, TxSend
  <1>a. AduLen(s_tx_buf) \in Nat
    BY AduLenType DEF IInv, TypeOK
  <1>1. TypeOK'
    BY <1>a DEF IInv, TypeOK, BootSteps, RxStart, Reading, TxSend
  <1>2. /\ Intact' = Intact /\ Sending' = Sending
        /\ Server!LastServed' = Server!LastServed
    BY DEF Intact, Sending, Last, AduLen, Server!LastServed
  <1>3. IntactStages'
    BY <1>0, <1>2 DEF IInv, IntactStages, Arriving, Arrived, Given, Handled,
       Replying, Finished, AtRest, NoFlag, Silent, Counted, Transmitting, Reading, TxSend,
       RxStart, BootSteps, TypeOK, InterruptsOn, None
  <1>4. Booting' /\ UartOn' /\ InterruptsOn' /\ Fresh' /\ OnlyIntactServed'
        /\ UnsplitIntact' /\ Rested'
    BY <1>0, <1>2 DEF IInv, UnsplitIntact, Rested, Booting, UartOn, InterruptsOn, Fresh, OnlyIntactServed,
       Serving, AtRest, BootSteps, RxStart, TxSend, Reading, Counted, IrqPending, TypeOK
  <1>5. NoFutureTokens' /\ FirstPlace' /\ DataRegister' /\ Lagging' /\ Reloaded' /\ Progress'
    BY <1>0, <1>2 DEF IInv, NoFutureTokens, FirstPlace, DataRegister, Lagging, Reloaded,
       Progress, Last, LastLen, AduLen, Counted
  <1>6. FrameParsed' /\ AddrChecked' /\ Driver' /\ DriverOn' /\ ReplyPending'
    BY <1>0, <1>2 DEF IInv, FrameParsed, AddrChecked, Driver, DriverOn, ReplyPending,
       TypeOK, Last, Server!Addressed
  <1>7. History' /\ WireHistory'
    BY <1>0, <1>2 DEF IInv, History, Unserved, WireHistory, Outstanding, Transmitting,
       IntactStages, Arriving, Arrived, Given, Handled, Replying, Finished, AtRest, NoFlag,
       Silent, Reading, TxSend, RxStart, Last, Counted
  <1> QED
    BY <1>1, <1>3, <1>4, <1>5, <1>6, <1>7 DEF IInv

(* TxDe preserves the invariant.                                           *)
LEMMA TxDeInv == ASSUME IInv, TxDe PROVE IInv'
  <1> USE DEF TxDe, Step, line, rx, tx, irq
  <1>0. Intact /\ Handled /\ rdr = None /\ ~txEn /\ ~de
    BY ServingHandled DEF Serving, TxSend
  <1>1. TypeOK'
    BY DEF IInv, TypeOK, BootSteps, RxStart, Reading, TxSend
  <1>2. /\ Intact' = Intact /\ Sending' = Sending
        /\ Server!LastServed' = Server!LastServed
    BY DEF Intact, Sending, Last, AduLen, Server!LastServed
  <1>3. IntactStages'
    BY <1>0, <1>2 DEF IInv, IntactStages, Arriving, Arrived, Given, Handled,
       Replying, Finished, AtRest, NoFlag, Silent, Counted, Transmitting, Reading, TxSend,
       RxStart, BootSteps, TypeOK, InterruptsOn, None
  <1>4. Booting' /\ UartOn' /\ InterruptsOn' /\ Fresh' /\ OnlyIntactServed'
        /\ UnsplitIntact' /\ Rested'
    BY <1>0, <1>2 DEF IInv, UnsplitIntact, Rested, Booting, UartOn, InterruptsOn, Fresh, OnlyIntactServed,
       Serving, AtRest, BootSteps, RxStart, TxSend, Reading, Counted, IrqPending, TypeOK
  <1>5. NoFutureTokens' /\ FirstPlace' /\ DataRegister' /\ Lagging' /\ Reloaded' /\ Progress'
    BY <1>0, <1>2 DEF IInv, NoFutureTokens, FirstPlace, DataRegister, Lagging, Reloaded,
       Progress, Last, LastLen, AduLen, Counted
  <1>6. FrameParsed' /\ AddrChecked' /\ Driver' /\ DriverOn' /\ ReplyPending'
    BY <1>0, <1>2 DEF IInv, FrameParsed, AddrChecked, Driver, DriverOn, ReplyPending,
       TypeOK, Last, Server!Addressed
  <1>7. History' /\ WireHistory'
    BY <1>0, <1>2 DEF IInv, History, Unserved, WireHistory, Outstanding, Transmitting,
       IntactStages, Arriving, Arrived, Given, Handled, Replying, Finished, AtRest, NoFlag,
       Silent, Reading, TxSend, RxStart, Last, Counted
  <1> QED
    BY <1>1, <1>3, <1>4, <1>5, <1>6, <1>7 DEF IInv

(* TxEnable preserves the invariant.                                       *)
LEMMA TxEnableInv == ASSUME IInv, TxEnable PROVE IInv'
  <1> USE DEF TxEnable, Step, line, rx, tx, irq
  <1>0. Intact /\ Handled /\ rdr = None /\ ~txEn /\ txPos = 0
    BY ServingHandled DEF Serving, TxSend, IInv, ReplyPending
  <1>a. txLen \in Nat /\ txLen >= 2
    BY AduLenType DEF IInv, TypeOK, ReplyPending
  <1>1. TypeOK'
    BY DEF IInv, TypeOK, BootSteps, RxStart, Reading, TxSend
  <1>2. /\ Intact' = Intact /\ Sending' = Sending
        /\ Server!LastServed' = Server!LastServed
    BY DEF Intact, Sending, Last, AduLen, Server!LastServed
  <1>3. IntactStages'
    BY <1>0, <1>a, <1>2 DEF IInv, IntactStages, Arriving, Arrived, Given, Handled,
       Replying, Finished, AtRest, NoFlag, Silent, Counted, Transmitting, Reading, TxSend,
       RxStart, BootSteps, TypeOK, InterruptsOn, None
  <1>4. Booting' /\ UartOn' /\ InterruptsOn' /\ Fresh' /\ OnlyIntactServed'
        /\ UnsplitIntact' /\ Rested'
    BY <1>0, <1>a, <1>2 DEF IInv, UnsplitIntact, Rested, Booting, UartOn, InterruptsOn, Fresh, OnlyIntactServed,
       Serving, AtRest, BootSteps, RxStart, TxSend, Reading, Counted, IrqPending, TypeOK
  <1>5. NoFutureTokens' /\ FirstPlace' /\ DataRegister' /\ Lagging' /\ Reloaded' /\ Progress'
    BY <1>0, <1>a, <1>2 DEF IInv, NoFutureTokens, FirstPlace, DataRegister, Lagging, Reloaded,
       Progress, Last, LastLen, AduLen, Counted
  <1>6. FrameParsed' /\ AddrChecked' /\ Driver' /\ DriverOn' /\ ReplyPending'
    BY <1>0, <1>a, <1>2 DEF IInv, FrameParsed, AddrChecked, Driver, DriverOn, ReplyPending,
       TypeOK, Last, Server!Addressed
  <1>7. History' /\ WireHistory'
    BY <1>0, <1>a, <1>2 DEF IInv, History, Unserved, WireHistory, Outstanding, Transmitting,
       IntactStages, Arriving, Arrived, Given, Handled, Replying, Finished, AtRest, NoFlag,
       Silent, Reading, TxSend, RxStart, Last, Counted
  <1> QED
    BY <1>1, <1>3, <1>4, <1>5, <1>6, <1>7 DEF IInv

(* DmaInit preserves the invariant.                                        *)
LEMMA DmaInitInv == ASSUME IInv, DmaInit PROVE IInv'
  <1> USE DEF DmaInit, Step, line, tx, irq
  <1>0. bus = <<>> /\ rdr = None /\ rxEn' /\ rxCnt' = RX_BUF_SIZE /\ rx_buf' = rx_buf
    BY DEF IInv, InterruptsOn, Booting, BootSteps, EnableRx
  <1>1. TypeOK'
    BY <1>0, SlaveAssumption DEF IInv, TypeOK, BootSteps
  <1>2. ~Intact /\ ~Intact' /\ ~Sending' /\ Server!LastServed' = Server!LastServed
    BY <1>0 DEF Intact, Sending, Server!LastServed
  <1>3. IntactStages' /\ UnsplitIntact' /\ AddrChecked' /\ Progress' /\ Fresh' /\ FirstPlace'
    BY <1>0, <1>2 DEF IntactStages, UnsplitIntact, AddrChecked, Progress, Fresh, FirstPlace
  <1>4. Booting' /\ UartOn' /\ InterruptsOn' /\ OnlyIntactServed' /\ Rested'
    BY <1>0, <1>2 DEF IInv, Booting, UartOn, InterruptsOn, OnlyIntactServed, Rested, Counted,
       Serving, BootSteps, TxSend, TypeOK
  <1>5. NoFutureTokens' /\ DataRegister' /\ Lagging' /\ Reloaded'
    BY <1>0, <1>2 DEF IInv, NoFutureTokens, DataRegister, Lagging, Reloaded, Booting, Last
  <1>6. FrameParsed' /\ Driver' /\ DriverOn' /\ ReplyPending'
    BY DEF IInv, FrameParsed, Driver, DriverOn, ReplyPending
  <1>7. History' /\ WireHistory'
    BY <1>0, <1>2 DEF IInv, History, Unserved, WireHistory, Outstanding, Transmitting, TxSend,
       Reading, Last
  <1> QED
    BY <1>1, <1>3, <1>4, <1>5, <1>6, <1>7 DEF IInv

(* RxEnable preserves the invariant.                                       *)
LEMMA RxEnableInv == ASSUME IInv, RxEnable PROVE IInv'
  <1> USE DEF RxEnable, Step, line, tx, irq
  <1>0. /\ RX_BUF_SIZE \in Nat /\ RX_BUF_SIZE > 2
        /\ rx_buf \in [0..(RX_BUF_SIZE - 1) -> Tokens] /\ rdr \in Tokens
        /\ rxCnt \in 1..RX_BUF_SIZE /\ pos \in Nat /\ Len(bus) \in Nat
    BY SlaveAssumption DEF IInv, TypeOK
  <1>a. ~txEn /\ ~idleF
    BY DEF IInv, OnlyIntactServed, IntactStages, Arriving, Arrived, Given, Handled, Replying,
       Finished, AtRest, RxStart, Booting, InterruptsOn, IrqPending, BootSteps
  <1>b. bus # <<>> => pos > 0
    BY <1>0 DEF IInv, Fresh, AtRest
  <1>c. rdr # None => /\ bus # <<>> /\ gaps > 0 /\ ~rxEn /\ heard
                      /\ rdr[1] = Last /\ rdr[2] \in 2..pos
    BY <1>a DEF IInv, DataRegister
  <1>d. UNCHANGED <<rx_buf, rxCnt>> \/ (rdr # None /\ ~rxEn /\ Fetch(rdr))
    OBVIOUS
  <1>e. ~rxEn => rxCnt = RX_BUF_SIZE
    BY DEF IInv, Reloaded
  <1>f. CASE UNCHANGED <<rx_buf, rxCnt>>
    <2>0. rxEn' = TRUE /\ rdr' = None
      BY <1>c DEF None, IInv, TypeOK
    <2>1. TypeOK'
      BY <1>f, <2>0, NoneToken DEF IInv, TypeOK
    <2>2. /\ Intact' = Intact /\ Sending' = Sending
          /\ Server!LastServed' = Server!LastServed
      BY <1>f DEF Intact, Sending, Last, AduLen, Server!LastServed
    <2>3. IntactStages'
      BY <1>e, <1>f, <2>0, <2>2, <1>0 DEF IInv, IntactStages, Arriving, Arrived, Given,
         Handled, Replying, Finished, AtRest, NoFlag, Silent, Counted, RxStart
    <2>4. Booting' /\ UartOn' /\ InterruptsOn' /\ Fresh' /\ OnlyIntactServed'
          /\ UnsplitIntact' /\ Rested'
      BY <1>a, <1>b, <1>e, <1>f, <2>0, <2>2, <1>0 DEF IInv, Booting, UartOn, InterruptsOn,
         Fresh, OnlyIntactServed, UnsplitIntact, Rested, Serving, AtRest, BootSteps, RxStart,
         TxSend, Counted, IrqPending
    <2>5. NoFutureTokens' /\ FirstPlace' /\ DataRegister' /\ Lagging' /\ Reloaded' /\ Progress'
      BY <1>b, <1>e, <1>f, <2>0, <2>2, <1>0 DEF IInv, NoFutureTokens, FirstPlace,
         DataRegister, Lagging, Reloaded, Progress, Last, LastLen, AduLen, Counted
    <2>6. FrameParsed' /\ AddrChecked' /\ Driver' /\ DriverOn' /\ ReplyPending'
      BY DEF IInv, FrameParsed, AddrChecked, Driver, DriverOn, ReplyPending
    <2>7. History' /\ WireHistory'
      BY <1>a, <1>f, <2>0, <2>2 DEF IInv, History, Unserved, WireHistory, Outstanding,
         Transmitting, IntactStages, Arriving, Arrived, Given, Handled, Replying, Finished,
         AtRest, NoFlag, Silent, Reading, TxSend, RxStart, Last, Counted
    <2> QED
      BY <2>1, <2>3, <2>4, <2>5, <2>6, <2>7 DEF IInv
  <1>g. CASE rdr # None /\ ~rxEn /\ Fetch(rdr)
    <2>0. /\ rxEn' = TRUE /\ rdr' = None /\ rxCnt' = RX_BUF_SIZE - 1
          /\ rx_buf' = [rx_buf EXCEPT ![0] = rdr]
          /\ rx_buf'[0] = rdr
          /\ \A i \in 1..(RX_BUF_SIZE - 1) : rx_buf'[i] = rx_buf[i]
      BY <1>e, <1>g, <1>0 DEF Fetch
    <2>1. TypeOK'
      BY <1>0, <2>0, NoneToken DEF IInv, TypeOK
    <2>2. /\ ~Intact /\ ~Intact' /\ Sending' = Sending
          /\ Server!LastServed' = Server!LastServed
      BY <1>c, <1>g DEF Intact, Sending, AduLen, Last, Server!LastServed
    <2>3. IntactStages' /\ AddrChecked' /\ Progress'
      BY <2>2 DEF IInv, IntactStages, AddrChecked, Progress, Last, LastLen, AduLen
    <2>4. Booting' /\ UartOn' /\ InterruptsOn' /\ Fresh' /\ OnlyIntactServed'
          /\ UnsplitIntact' /\ Rested'
      BY <1>a, <1>b, <1>c, <1>g, <2>0, <2>2, <1>0 DEF IInv, UartOn, InterruptsOn, Booting,
         Fresh, OnlyIntactServed, UnsplitIntact, Rested, Serving, BootSteps, TxSend
    <2>5. NoFutureTokens' /\ FirstPlace' /\ DataRegister' /\ Reloaded'
      <3>1. NoFutureTokens'
        BY <1>c, <1>g, <2>0, <1>0 DEF IInv, NoFutureTokens, Last
      <3> QED
        BY <3>1, <1>c, <1>g, <2>0, <1>0 DEF FirstPlace, DataRegister, Reloaded, Last
    <2>6. Lagging'
      <3>1. Counted' = 1 /\ pos >= 2
        BY <1>c, <1>g, <2>0, <1>0 DEF Counted
      <3>2. LastLen \in 3..RX_BUF_SIZE
        BY <1>c, <1>g, LastLenType
      <3>3. rx_buf'[LastLen - 1] = rx_buf[LastLen - 1]
        BY <3>2, <2>0, <1>0
      <3>4. LastLen' = LastLen /\ Last' = Last
        BY DEF LastLen, Last, AduLen
      <3> QED
        BY <3>1, <3>3, <3>4, <1>c, <1>g, <1>0 DEF IInv, Lagging
    <2>7. FrameParsed' /\ Driver' /\ DriverOn' /\ ReplyPending'
      BY DEF IInv, FrameParsed, Driver, DriverOn, ReplyPending
    <2>8. History' /\ WireHistory'
      BY <1>a, <1>b, <2>2 DEF IInv, History, Unserved, WireHistory, Outstanding,
         Transmitting, Reading, TxSend, Last
    <2> QED
      BY <2>1, <2>3, <2>4, <2>5, <2>6, <2>7, <2>8 DEF IInv
  <1> QED
    BY <1>d, <1>f, <1>g

(* StartAdu preserves the invariant when turns are taken.                  *)
LEMMA StartAduInv == ASSUME IInv, TurnTaking, NEW r \in Requests, StartAdu(r) PROVE IInv'
  <1> USE DEF StartAdu, rx, tx, irq, task
  <1>0. /\ bus \in Seq(Requests) /\ Len(bus) \in Nat
        /\ bus' \in Seq(Requests) /\ Len(bus') = Len(bus) + 1 /\ bus'[Len(bus) + 1] = r
        /\ bus' # <<>>
    BY BusType, EmptySeq
  <1>a. /\ pc = "take" /\ sem = 0 /\ rxEn /\ ~idleF /\ ~tcF /\ ~heard /\ rdr = None
        /\ ~txEn /\ Counted = 0
    <2>1. pc = "take" /\ sem = 0 /\ rxEn /\ ~heard /\ ~idleF /\ ~tcF
      BY DEF Settled, IrqPending, IInv, InterruptsOn, BootSteps
    <2> QED
      BY <2>1 DEF IInv, OnlyIntactServed, Booting, IntactStages, Arriving, Arrived, Given,
         Handled, Replying, Finished, AtRest, DataRegister, Rested
  <1>1. TypeOK'
    BY <1>0, SlaveAssumption DEF IInv, TypeOK
  <1>2. Last' = Last + 1 /\ AduLen(r) \in Nat /\ LastLen' = AduLen(r)
    BY <1>0, AduLenType, SlaveAssumption DEF Last, LastLen, AduLen
  <1>3. ~Intact' /\ Server!LastServed' = Server!LastServed
    BY <1>0, <1>2, SlaveAssumption DEF IInv, TypeOK, NoFutureTokens, Intact, Tokens, Last,
       Server!LastServed
  <1>4. IntactStages' /\ AddrChecked' /\ Progress' /\ UnsplitIntact'
    BY <1>2, <1>3 DEF IntactStages, AddrChecked, Progress, UnsplitIntact
  <1>5. Booting' /\ UartOn' /\ InterruptsOn' /\ Fresh' /\ OnlyIntactServed' /\ Rested'
    <2>1. UartOn /\ InterruptsOn
      BY DEF IInv
    <2> QED
      BY <2>1, <1>a, <1>0, <1>3 DEF Booting, UartOn, InterruptsOn, Fresh, OnlyIntactServed,
         Rested, Serving, AtRest, BootSteps, TxSend, Counted, None
  <1>6. NoFutureTokens'
    <2>1. /\ rx_buf' = rx_buf /\ Last \in Nat /\ Last' = Last + 1
          /\ \A i \in 0..(RX_BUF_SIZE - 1) : rx_buf[i][1] \in Nat /\ rx_buf[i][1] <= Last
      <3>1. rx_buf' = rx_buf /\ Last \in Nat
        BY BusType DEF Last
      <3> QED
        BY <3>1, <1>2, NoLaterAdu
    <2> QED
      BY <2>1 DEF NoFutureTokens
  <1>7. FirstPlace' /\ DataRegister' /\ Lagging' /\ Reloaded'
    BY <1>a DEF FirstPlace, DataRegister, Lagging, Reloaded
  <1>8. FrameParsed' /\ Driver' /\ DriverOn' /\ ReplyPending'
    BY <1>a DEF IInv, FrameParsed, Driver, DriverOn, ReplyPending
  <1>9. History' /\ WireHistory'
    <2>1. Server!LastServed \in Nat
      BY LastServedType
    <2> QED
      BY <2>1, <1>0, <1>2, <1>3 DEF IInv, History, WireHistory, Outstanding, Transmitting, Last
  <1> QED
    BY <1>1, <1>4, <1>5, <1>6, <1>7, <1>8, <1>9 DEF IInv

(* While characters of an ADU are still to come, nothing is served.        *)
LEMMA SendingQuiet == ASSUME IInv, Sending
                      PROVE  /\ bus # <<>> /\ ~txEn /\ ~tcF /\ pc \notin Serving
                             /\ uartOn /\ irqOn
                             /\ Intact => Arriving
  BY DEF IInv, Sending, OnlyIntactServed, IntactStages, Arriving, Arrived, Given, Handled,
     Replying, Finished, AtRest, Silent, InterruptsOn, UartOn, BootSteps, Serving, TxSend

(* RxChar preserves the invariant.                                         *)
LEMMA RxCharInv == ASSUME IInv, RxChar PROVE IInv'
  <1> USE DEF RxChar, tx, irq, task
  <1>q. /\ bus # <<>> /\ ~txEn /\ ~tcF /\ ~idleF /\ pc \notin Serving
        /\ uartOn /\ irqOn
        /\ Intact => Arriving
    BY SendingQuiet DEF IrqPending
  <1>0. /\ RX_BUF_SIZE \in Nat /\ RX_BUF_SIZE > 2
        /\ rx_buf \in [0..(RX_BUF_SIZE - 1) -> Tokens]
        /\ rxCnt \in 1..RX_BUF_SIZE /\ pos \in Nat /\ Len(bus) \in Nat /\ Len(bus) <= MaxFrames
    BY BufferType, BusType
  <1>l. LastLen \in Nat /\ LastLen <= RX_BUF_SIZE /\ pos < LastLen /\ LastLen >= 3
    BY <1>q, LastLenType, <1>0 DEF Sending, LastLen, Last, RxChar
  <1> DEFINE token == <<Last, pos + 1>>
             place == RX_BUF_SIZE - rxCnt
  <1>k. token \in Tokens
    BY <1>0 DEF Tokens, Last
  <1>f. Fresh /\ (pos = 0 => rxEn /\ Counted = 0 /\ gaps = 0 /\ rdr = None /\ pc = "take" /\ sem = 0)
    BY <1>q DEF IInv, Fresh, AtRest
  <1>p. place \in 0..(RX_BUF_SIZE - 1) /\ Counted = place
    BY <1>0 DEF Counted
  <1>r. /\ heard' = TRUE /\ uartOn' = uartOn /\ rxEn' = rxEn /\ pos' = pos + 1
        /\ \/ /\ rxEn /\ rdr' = rdr
              /\ rx_buf' = [rx_buf EXCEPT ![place] = token]
              /\ rxCnt' = IF rxCnt = 1 THEN RX_BUF_SIZE ELSE rxCnt - 1
           \/ /\ ~rxEn /\ UNCHANGED <<rx_buf, rxCnt>>
              /\ rdr' = IF rdr = None THEN token ELSE rdr
    BY <1>q DEF Receive, Fetch, Last
  <1>c. /\ rxEn /\ place + 1 < RX_BUF_SIZE => Counted' = place + 1
        /\ rxEn /\ place + 1 = RX_BUF_SIZE => Counted' = 0
    BY <1>0, <1>p, <1>r DEF Counted
  <1>t. token[1] = Last /\ token[2] = pos + 1 /\ Last > 0
    BY <1>q, <1>0, EmptySeq DEF Last, IInv, TypeOK
  <1>m. Last' = Last /\ LastLen' = LastLen /\ Server!LastServed' = Server!LastServed
    BY DEF Last, LastLen, AduLen, Server!LastServed
  <1> HIDE DEF token, place
  <1>b. rx_buf' \in [0..(RX_BUF_SIZE - 1) -> Tokens] /\ rxCnt' \in 1..RX_BUF_SIZE /\ rdr' \in Tokens
    BY <1>0, <1>k, <1>p, <1>r, BufferType
  <1>1. TypeOK'
    BY <1>b, <1>r, <1>0, <1>l DEF IInv, TypeOK
  <1>e. \A i \in 0..(RX_BUF_SIZE - 1) :
           rx_buf'[i] = rx_buf[i] \/ (rxEn /\ i = place /\ rx_buf'[i] = token)
    BY <1>r, <1>p, <1>0
  <1>g. Intact' <=> (Intact \/ pos = 0)
    <2>1. CASE pos = 0
      <3>1. place = 0 /\ rx_buf'[0] = token
        BY <2>1, <1>f, <1>p, <1>r, <1>0
      <3> QED
        BY <3>1, <2>1, <1>f, <1>q, <1>m DEF Intact, token
    <2>2. CASE pos > 0 /\ Intact
      <3>1. place # 0 \/ ~rxEn
        BY <2>2, <1>q, <1>p, <1>l, <1>0 DEF Arriving
      <3>2. rx_buf'[0] = rx_buf[0]
        BY <3>1, <1>e, <1>0
      <3> QED
        BY <3>2, <2>2, <1>q, <1>m DEF Intact
    <2>3. CASE pos > 0 /\ ~Intact
      <3>1. token # <<Last, 1>>
        BY <2>3, <1>0, <1>t
      <3> QED
        BY <3>1, <2>3, <1>e, <1>0, <1>m, <1>q DEF Intact
    <2> QED
      BY <2>1, <2>2, <2>3, <1>0
  <1>a. Intact' => Arriving'
    <2> SUFFICES ASSUME Intact' PROVE Arriving'
      OBVIOUS
    <2>1. CASE pos = 0
      BY <2>1, <1>f, <1>q, <1>r, <1>c, <1>p, <1>0 DEF Arriving, AtRest
    <2>2. CASE pos > 0
      <3>1. Arriving /\ place = pos
        BY <2>2, <1>g, <1>q, <1>p, <1>l, <1>0 DEF Arriving
      <3> QED
        BY <3>1, <2>2, <1>r, <1>c, <1>p, <1>0 DEF Arriving, AtRest
    <2> QED
      BY <2>1, <2>2, <1>0
  <1>2. IntactStages' /\ Progress'
    BY <1>a, <1>l, <1>m, <1>r, <1>0 DEF IntactStages, Progress
  <1>3. Booting' /\ UartOn' /\ InterruptsOn' /\ Fresh' /\ OnlyIntactServed' /\ Rested'
    BY <1>q, <1>r, <1>0 DEF IInv, Booting, UartOn, InterruptsOn, Fresh, OnlyIntactServed, Rested
  <1>4. UnsplitIntact'
    <2>1. pos > 0 /\ gaps = 0 => Intact
      BY DEF IInv, UnsplitIntact
    <2> QED
      BY <2>1, <1>g, <1>0 DEF UnsplitIntact
  <1>5. NoFutureTokens'
    <2> SUFFICES ASSUME NEW i \in 0..(RX_BUF_SIZE - 1)
                 PROVE  /\ rx_buf'[i][1] <= Last
                        /\ rx_buf'[i][1] = Last => rx_buf'[i][2] <= pos + 1
      BY <1>m, <1>r DEF NoFutureTokens
    <2>1. rx_buf[i] \in Tokens
      BY <1>0
    <2>2. rx_buf[i][1] \in Nat /\ rx_buf[i][2] \in Nat
      BY <2>1 DEF Tokens
    <2>3. /\ rx_buf[i][1] <= Last
          /\ rx_buf[i][1] = Last => rx_buf[i][2] <= pos
      BY <1>q DEF IInv, NoFutureTokens
    <2>4. CASE rx_buf'[i] = rx_buf[i]
      BY <2>2, <2>3, <2>4, <1>0
    <2>5. CASE rx_buf'[i] = token
      BY <2>5, <1>t, <1>0 DEF Last
    <2> QED
      BY <2>4, <2>5, <1>e
  <1>6. FirstPlace'
    <2>1. rx_buf'[0] = rx_buf[0] \/ rx_buf'[0] = token
      BY <1>e, <1>0
    <2>2. pos > 0 => rx_buf[0][1] \in {0, Last}
      BY <1>q, <1>0 DEF IInv, FirstPlace
    <2>3. pos = 0 => rx_buf'[0] = token
      BY <1>f, <1>p, <1>r, <1>0
    <2> QED
      BY <2>1, <2>2, <2>3, <1>t, <1>m, <1>0 DEF FirstPlace
  <1>7. DataRegister'
    <2>1. CASE rxEn
      BY <2>1, <1>r DEF IInv, DataRegister
    <2>2. CASE ~rxEn
      <3>1. pos > 0 /\ gaps > 0
        BY <2>2, <1>f, <1>q, <1>0 DEF IInv, UnsplitIntact, Arriving, TypeOK
      <3>2. CASE rdr = None
        BY <2>2, <3>1, <3>2, <1>q, <1>r, <1>t, <1>m, <1>0 DEF DataRegister
      <3>3. CASE rdr # None
        <4>1. rdr[1] = Last /\ rdr[2] \in 2..pos
          BY <3>3, <1>q DEF IInv, DataRegister
        <4> QED
          BY <4>1, <2>2, <3>1, <3>3, <1>q, <1>r, <1>m, <1>0 DEF DataRegister
      <3> QED
        BY <3>2, <3>3
    <2> QED
      BY <2>1, <2>2
  <1>8. Lagging' /\ Reloaded'
    <2>1. gaps > 0 => /\ pos > 0 /\ (rxEn => place < pos)
                      /\ rx_buf[LastLen - 1] # <<Last, LastLen>>
      BY <1>q, <1>p DEF IInv, Lagging
    <2>2. gaps > 0 /\ rxEn => Counted' < pos'
      BY <2>1, <1>c, <1>p, <1>r, <1>0
    <2>3. gaps > 0 => rx_buf'[LastLen - 1] # <<Last, LastLen>>
      <3>1. LastLen - 1 \in 0..(RX_BUF_SIZE - 1)
        BY <1>l, <1>0
      <3>2. rxEn /\ gaps > 0 /\ place = LastLen - 1 => token[2] # LastLen
        BY <2>1, <1>t, <1>0, <1>l, <1>p
      <3> QED
        BY <3>1, <3>2, <2>1, <1>e DEF token
    <2>4. Lagging'
      BY <2>1, <2>2, <2>3, <1>q, <1>r, <1>m, <1>0 DEF Lagging
    <2>5. Reloaded'
      BY <1>r DEF IInv, Reloaded
    <2> QED
      BY <2>4, <2>5
  <1>9. FrameParsed' /\ AddrChecked' /\ Driver' /\ DriverOn' /\ ReplyPending'
    <2>1. pc # "dispatch"
      BY <1>q DEF Serving
    <2>2. Intact' => pc = "take"
      BY <1>a DEF Arriving, AtRest
    <2> QED
      BY <2>1, <2>2, <1>q DEF IInv, FrameParsed, AddrChecked, Driver, DriverOn, ReplyPending
  <1>10. History' /\ WireHistory'
    <2>1. Intact' => Unserved
      BY <1>g, <1>q DEF Unserved
    <2>2. Unserved' => Unserved
      BY <2>1, <1>r, <1>0 DEF Unserved
    <2> QED
      BY <2>2, <1>m DEF IInv, History, WireHistory, Outstanding, Transmitting
  <1> QED
    BY <1>1, <1>2, <1>3, <1>4, <1>5, <1>6, <1>7, <1>8, <1>9, <1>10 DEF IInv

(* RaiseIdle preserves the invariant.                                      *)
LEMMA RaiseIdleInv == ASSUME IInv, RaiseIdle PROVE IInv'
  <1> USE DEF RaiseIdle, rx, tx, task
  <1>0. /\ pos \in Nat /\ gaps \in Nat /\ gaps <= MaxGaps /\ MaxGaps \in Nat
        /\ Len(bus) \in Nat /\ Len(bus) <= MaxFrames
    BY SlaveAssumption DEF IInv, TypeOK
  <1>b. bus # <<>> /\ pos > 0 /\ irqOn /\ ~idleF /\ ~tcF
    BY <1>0 DEF IInv, Booting, Fresh, InterruptsOn, IrqPending
  <1>l. Last \in 1..MaxFrames
    BY <1>0, <1>b, EmptySeq DEF IInv, TypeOK, Last
  <1>1. TypeOK'
    <2>1. gaps' \in 0..MaxGaps
      BY <1>0
    <2>2. split' = split \/ split' = split \cup {Last}
      BY DEF Last
    <2>3. split' \subseteq 1..MaxFrames
      BY <2>2, <1>l DEF IInv, TypeOK
    <2> QED
      BY <2>1, <2>3 DEF IInv, TypeOK
  <1>2. /\ Sending' = Sending /\ Counted' = Counted /\ Last' = Last /\ LastLen' = LastLen
        /\ Server!LastServed' = Server!LastServed
    BY DEF Sending, Counted, Last, LastLen, AduLen, Server!LastServed
  <1>3. Intact' => Intact /\ gaps' = gaps /\ ~Sending
    BY <1>0, <1>2 DEF Intact
  <1>s. (pc \in Serving \/ txEn \/ tcF) => ~Sending /\ Intact
    BY <1>b, SendingQuiet DEF IInv, OnlyIntactServed
  <1>t. ~Sending => (Intact' <=> Intact)
    BY <1>2 DEF Intact
  <1>4. IntactStages' /\ (Intact => Arriving)
    <2>1. Intact => Arriving
      BY <1>b DEF IInv, IntactStages, Arriving, Arrived, Given, Handled, Replying, Finished, Silent
    <2> QED
      BY <2>1, <1>2, <1>3 DEF IntactStages, Arriving, Arrived, AtRest
  <1>5. Booting' /\ UartOn' /\ InterruptsOn' /\ Fresh' /\ OnlyIntactServed' /\ Rested'
        /\ UnsplitIntact' /\ Progress'
    BY <1>b, <1>s, <1>t, <1>2, <1>0 DEF IInv, Booting, UartOn, InterruptsOn, Fresh,
       OnlyIntactServed, Rested, UnsplitIntact, Progress
  <1>6. NoFutureTokens' /\ FirstPlace' /\ Reloaded'
    BY <1>2 DEF IInv, NoFutureTokens, FirstPlace, Reloaded
  <1>7. DataRegister'
    BY <1>0, <1>b, <1>s, <1>t, <1>2 DEF IInv, DataRegister
  <1>8. Lagging'
    <2>1. CASE ~Sending
      BY <2>1, <1>b, <1>2 DEF IInv, Lagging
    <2>2. CASE Sending
      <3>1. pos < LastLen /\ LastLen \in Nat /\ LastLen >= 3 /\ LastLen - 1 \in 0..(RX_BUF_SIZE - 1)
        BY <2>2, <1>b, LastLenType, BufferType DEF Sending, LastLen, Last
      <3>2. rx_buf[LastLen - 1] # <<Last, LastLen>>
        BY <3>1, <1>b, <1>0 DEF IInv, NoFutureTokens
      <3> QED
        BY <3>2, <1>b, <1>2, <1>0 DEF Lagging
    <2> QED
      BY <2>1, <2>2
  <1>9. FrameParsed' /\ AddrChecked' /\ Driver' /\ DriverOn' /\ ReplyPending'
    <2>1. pc # "dispatch"
      BY <1>4, <1>s DEF Serving, Arriving, AtRest
    <2>2. Intact => pc = "take"
      BY <1>4 DEF Arriving, AtRest
    <2> QED
      BY <2>1, <2>2, <1>3 DEF IInv, FrameParsed, AddrChecked, Driver, DriverOn, ReplyPending
  <1>10. History' /\ WireHistory'
    <2>1. Unserved' => Unserved
      BY <1>3, <1>4 DEF Unserved
    <2> QED
      BY <2>1, <1>2 DEF IInv, History, WireHistory, Outstanding, Transmitting
  <1> QED
    BY <1>1, <1>4, <1>5, <1>6, <1>7, <1>8, <1>9, <1>10 DEF IInv

(* While a reply is leaving, and until the handler has seen its TC.        *)
LEMMA TransmittingReplying ==
  ASSUME IInv, txEn \/ (tcF /\ bus # <<>>)
  PROVE  /\ Intact /\ Replying /\ bus # <<>> /\ pos > 0 /\ gaps = 0
         /\ pc = "take" /\ sem = 0 /\ ~rxEn /\ ~idleF /\ ~Sending
  <1>1. Intact /\ Replying
    BY DEF IInv, OnlyIntactServed, IntactStages, Arriving, Arrived, Given, Handled, Replying,
       Finished, AtRest, NoFlag
  <1>2. bus # <<>> /\ gaps = 0
    BY <1>1 DEF Intact
  <1>3. pos > 0
    BY <1>1, <1>2 DEF IInv, TypeOK, Fresh, AtRest, Replying
  <1> QED
    BY <1>1, <1>2, <1>3 DEF Replying

(* TxChar preserves the invariant.                                         *)
LEMMA TxCharInv == ASSUME IInv, TxChar PROVE IInv'
  <1> USE DEF TxChar
  <1>a. /\ Intact /\ Replying /\ bus # <<>> /\ pos > 0 /\ gaps = 0
        /\ pc = "take" /\ sem = 0 /\ ~rxEn /\ ~idleF /\ ~Sending
        /\ txEn /\ txPos < txLen /\ uartOn
    BY TransmittingReplying DEF Transmitting, IInv, UartOn
  <1>0. /\ txPos \in Nat /\ txLen \in Nat /\ MaxFrames \in Nat
        /\ wire \in Seq(ADU) /\ s_tx_buf \in ADU
        /\ replies \in Seq([req : Nat, reply : ADU])
    BY SlaveAssumption DEF IInv, TypeOK
  <1>r. /\ uartOn' = uartOn /\ rxEn' = rxEn /\ rxCnt' = rxCnt /\ rx_buf' = rx_buf
        /\ \/ heard' = heard /\ rdr' = rdr
           \/ heard' = TRUE /\ rdr' = IF rdr = None THEN <<0, txPos + 1>> ELSE rdr
    BY <1>a DEF Receive, rx
  <1>n. <<0, txPos + 1>> \in Tokens /\ <<0, txPos + 1>> # None
    BY <1>0 DEF Tokens, None
  <1>d. rdr' # None => heard' /\ rdr'[1] = 0
    BY <1>a, <1>r, <1>n DEF IInv, DataRegister, Replying
  <1>t. /\ txPos' = txPos + 1
        /\ \/ txPos' < txLen /\ tcF' = tcF /\ wire' = wire
           \/ txPos' = txLen /\ tcF' = TRUE /\ wire' = Append(wire, s_tx_buf)
    BY <1>a, <1>0
  <1>u. Transmitting' <=> txPos' < txLen
    BY <1>a DEF Transmitting
  <1>1. TypeOK'
    <2>1. rdr' \in Tokens /\ heard' \in BOOLEAN
      <3>1. heard \in BOOLEAN
        BY DEF IInv, TypeOK
      <3>2. heard' \in BOOLEAN
        BY <3>1, <1>r, Zenon
      <3> QED
        BY <3>2, <1>r, <1>n, BufferType
    <2>2. tcF' \in BOOLEAN
      BY <1>t DEF IInv, TypeOK
    <2>3. wire' \in Seq(ADU)
      <3>1. Append(wire, s_tx_buf) \in Seq(ADU)
        BY <1>0, AppendType
      <3> QED
        BY <3>1, <1>t, <1>0, Zenon
    <2> QED
      BY <2>1, <2>2, <2>3, <1>r, <1>0, <1>t DEF IInv, TypeOK, task
  <1>2. /\ Intact' /\ ~Sending' /\ Last' = Last /\ LastLen' = LastLen
        /\ Server!LastServed' = Server!LastServed
    BY <1>a, <1>r DEF Intact, Sending, Last, LastLen, AduLen, Server!LastServed, task
  <1>3. Replying'
    <2>1. tcF' <=> ~Transmitting'
      BY <1>t, <1>u, <1>a, <1>0 DEF Replying, Transmitting
    <2>2. heard' => rdr' # None
      BY <1>r, <1>n, <1>a DEF Replying
    <2>3. rdr'[1] = 0
      BY <1>r, <1>a DEF Replying
    <2> QED
      BY <2>1, <2>2, <2>3, <1>2, <1>a, <1>r DEF Replying, task
  <1>4. IntactStages' /\ Progress'
    BY <1>2, <1>3 DEF IInv, IntactStages, Progress
  <1>5. Booting' /\ UartOn' /\ InterruptsOn' /\ Fresh' /\ OnlyIntactServed' /\ Rested'
        /\ UnsplitIntact'
    BY <1>a, <1>r, <1>2 DEF IInv, Booting, UartOn, InterruptsOn, Fresh, OnlyIntactServed,
       Rested, UnsplitIntact, task
  <1>6. NoFutureTokens' /\ FirstPlace' /\ Reloaded' /\ Lagging'
    BY <1>a, <1>r, <1>2 DEF IInv, NoFutureTokens, FirstPlace, Reloaded, Lagging, task
  <1>7. DataRegister'
    BY <1>a, <1>r, <1>d, <1>2 DEF DataRegister
  <1>8. FrameParsed' /\ AddrChecked' /\ Driver' /\ DriverOn' /\ ReplyPending'
    BY <1>a, <1>t, <1>0 DEF IInv, FrameParsed, AddrChecked, Driver, DriverOn, ReplyPending, task
  <1>9. History'
    <2>1. ~Unserved'
      BY <1>a DEF Unserved, Arriving, Arrived, Given, AtRest, Reading, task
    <2> QED
      BY <2>1, <1>2 DEF IInv, History, task
  <1>10. WireHistory'
    <2>1. /\ Outstanding /\ Len(wire) = Len(replies) - 1
          /\ \A i \in 1..Len(wire) : wire[i] = replies[i].reply
          /\ s_tx_buf = replies[Len(replies)].reply
      BY <1>a DEF IInv, WireHistory, Outstanding, Transmitting
    <2>2. CASE txPos' < txLen
      BY <2>1, <2>2, <1>t, <1>u DEF WireHistory, Outstanding, task
    <2>3. CASE txPos' = txLen
      <3>1. wire' = Append(wire, s_tx_buf) /\ ~Outstanding'
        BY <2>3, <1>t, <1>u, <1>a, <1>0 DEF Outstanding, TxSend, task
      <3>2. /\ Len(wire') = Len(replies) /\ Len(wire) + 1 = Len(replies)
            /\ wire'[Len(replies)] = s_tx_buf
            /\ \A i \in 1..Len(wire) : wire'[i] = wire[i]
        BY <3>1, <2>1, <1>0
      <3>3. \A i \in 1..Len(wire') : wire'[i] = replies[i].reply
        <4> SUFFICES ASSUME NEW i \in 1..Len(wire') PROVE wire'[i] = replies[i].reply
          OBVIOUS
        <4>1. i \in 1..Len(wire) \/ i = Len(replies)
          BY <3>2, <1>0
        <4> QED
          BY <4>1, <3>2, <2>1
      <3> QED
        BY <3>1, <3>2, <3>3 DEF WireHistory, task
    <2> QED
      BY <2>2, <2>3, <1>t
  <1> QED
    BY <1>1, <1>4, <1>5, <1>6, <1>7, <1>8, <1>9, <1>10 DEF IInv

(* USART0_IRQHandler preserves the invariant.                              *)
LEMMA USART0_IRQHandlerInv == ASSUME IInv, USART0_IRQHandler PROVE IInv'
  <1> USE DEF USART0_IRQHandler, TransferComplete, IdleAlone, line, task
  <1>0. /\ RX_BUF_SIZE \in Nat /\ RX_BUF_SIZE > 2
        /\ rx_buf \in [0..(RX_BUF_SIZE - 1) -> Tokens] /\ rdr \in Tokens
        /\ rxCnt \in 1..RX_BUF_SIZE /\ pos \in Nat /\ Len(bus) \in Nat
    BY SlaveAssumption DEF IInv, TypeOK
  <1>s. pc \notin Serving
    BY ServingHandled DEF Handled, NoFlag, IrqPending
  <1>c. Counted \in 0..(RX_BUF_SIZE - 1)
    BY <1>0 DEF Counted
  <1>m. /\ Sending' = Sending /\ Last' = Last /\ LastLen' = LastLen
        /\ Server!LastServed' = Server!LastServed
    BY DEF Sending, Last, LastLen, AduLen, Server!LastServed
  <1>p. bus # <<>> => pos > 0
    BY <1>0 DEF IInv, Fresh, AtRest, IrqPending
  <1>A. CASE bus = <<>>
    <2>0. tcF /\ ~idleF /\ irqOn /\ rdr = None /\ pc = "rx_disable" /\ ~txEn /\ sem = 0
          /\ rxCnt = RX_BUF_SIZE /\ ~heard /\ pos = 0 /\ gaps = 0 /\ replies = <<>>
      BY <1>A DEF IInv, Booting, InterruptsOn, IrqPending
    <2>1. /\ rxEn' = TRUE /\ rdr' = None /\ rxCnt' = RX_BUF_SIZE /\ rx_buf' = rx_buf
          /\ txEn' = FALSE /\ de' = FALSE /\ idleF' = FALSE /\ tcF' = FALSE
          /\ frame_len' = frame_len /\ sem' = sem
      BY <2>0 DEF Waiting, EnableRx, HandOver
    <2>2. TypeOK'
      <3>1. rxCnt' \in 1..RX_BUF_SIZE
        BY <2>1, <1>0
      <3> QED
        BY <3>1, <2>1, NoneToken DEF IInv, TypeOK
    <2>3. ~Intact' /\ ~Sending'
      BY <1>A DEF Intact, Sending
    <2>4. IntactStages' /\ UnsplitIntact' /\ AddrChecked' /\ Progress' /\ Fresh' /\ FirstPlace'
      BY <1>A, <2>3 DEF IntactStages, UnsplitIntact, AddrChecked, Progress, Fresh, FirstPlace
    <2>5. Booting' /\ UartOn' /\ InterruptsOn' /\ OnlyIntactServed' /\ Rested'
      BY <1>A, <2>0, <2>1, <1>0 DEF IInv, Booting, UartOn, InterruptsOn, OnlyIntactServed,
         Rested, Counted, Serving, TxSend
    <2>6. NoFutureTokens' /\ DataRegister' /\ Lagging' /\ Reloaded'
      BY <2>0, <2>1, <1>m DEF IInv, NoFutureTokens, DataRegister, Lagging, Reloaded
    <2>7. FrameParsed' /\ Driver' /\ DriverOn' /\ ReplyPending'
      BY <2>0, <2>1 DEF IInv, FrameParsed, Driver, DriverOn, ReplyPending
    <2>8. History' /\ WireHistory'
      BY <1>A, <2>0, <2>1, <2>3, <1>m DEF IInv, History, Unserved, WireHistory, Outstanding,
         Transmitting, TxSend
    <2> QED
      BY <2>2, <2>4, <2>5, <2>6, <2>7, <2>8 DEF IInv
  <1>B. CASE bus # <<>> /\ tcF
    <2>0. /\ Intact /\ Replying /\ gaps = 0
          /\ pc = "take" /\ sem = 0 /\ ~rxEn /\ ~idleF /\ ~Sending /\ ~Transmitting
          /\ heard => rdr # None
      BY <1>B, TransmittingReplying DEF Replying
    <2>1. /\ rxEn' = TRUE /\ rdr' = None /\ frame_len' = frame_len /\ sem' = sem
          /\ txEn' = FALSE /\ de' = FALSE /\ idleF' = FALSE /\ tcF' = FALSE
          /\ \/ rdr = None /\ rxCnt' = RX_BUF_SIZE /\ rx_buf' = rx_buf
             \/ /\ rdr # None /\ rxCnt' = RX_BUF_SIZE - 1
                /\ rx_buf' = [rx_buf EXCEPT ![0] = rdr]
      BY <1>B, <2>0 DEF Waiting, EnableRx, HandOver
    <2>2. TypeOK'
      <3>1. rx_buf' \in [0..(RX_BUF_SIZE - 1) -> Tokens] /\ rxCnt' \in 1..RX_BUF_SIZE
        BY <2>1, <1>0
      <3> QED
        BY <3>1, <1>0, <2>1, NoneToken DEF IInv, TypeOK
    <2>3. rdr # None => rdr[1] = 0 /\ heard
      BY <2>0 DEF IInv, DataRegister, Replying
    <2>l. Last > 0
      BY <1>B, <1>0, EmptySeq DEF Last, IInv, TypeOK
    <2>4. \A i \in 0..(RX_BUF_SIZE - 1) :
             rx_buf'[i] = rx_buf[i] \/ (rdr # None /\ rx_buf'[i][1] = 0)
      BY <2>1, <2>3, <1>0
    <2>5. rdr = None => Finished'
      BY <2>0, <2>1, <1>m, <1>0 DEF Finished, AtRest, Silent, Counted
    <2>6. rdr # None => ~Intact'
      <3>1. rdr # None => rx_buf'[0][1] = 0
        BY <2>1, <2>3, <1>0
      <3>2. <<Last, 1>>[1] = Last
        OBVIOUS
      <3> QED
        BY <3>1, <3>2, <2>l, <1>m DEF Intact
    <2>7. IntactStages' /\ Progress'
      BY <2>5, <2>6, <1>m DEF IInv, IntactStages, Progress
    <2>8. Booting' /\ UartOn' /\ InterruptsOn' /\ Fresh' /\ OnlyIntactServed'
          /\ UnsplitIntact' /\ Rested'
      BY <1>B, <1>p, <1>s, <2>0, <2>1, <2>3, <1>m, <1>0 DEF IInv, Booting, UartOn, InterruptsOn,
         Fresh, OnlyIntactServed, UnsplitIntact, Rested, Counted
    <2>9. NoFutureTokens'
      <3> SUFFICES ASSUME NEW i \in 0..(RX_BUF_SIZE - 1)
                   PROVE  /\ rx_buf'[i][1] <= Last
                          /\ rx_buf'[i][1] = Last => rx_buf'[i][2] <= pos
        BY <1>m DEF NoFutureTokens
      <3>1. /\ rx_buf[i][1] <= Last
            /\ rx_buf[i][1] = Last => rx_buf[i][2] <= pos
        BY <1>B DEF IInv, NoFutureTokens
      <3>2. CASE rx_buf'[i] = rx_buf[i]
        BY <3>1, <3>2
      <3>3. CASE rx_buf'[i][1] = 0
        BY <3>3, <2>l, <1>0 DEF Last
      <3> QED
        BY <3>2, <3>3, <2>4
    <2>10. FirstPlace' /\ DataRegister' /\ Lagging' /\ Reloaded'
      <3>1. rx_buf'[0] = rx_buf[0] \/ rx_buf'[0][1] = 0
        BY <2>4, <1>0
      <3> QED
        BY <3>1, <2>0, <2>1, <1>m DEF IInv, FirstPlace, DataRegister, Lagging, Reloaded
    <2>11. FrameParsed' /\ AddrChecked' /\ Driver' /\ DriverOn' /\ ReplyPending'
      BY <2>0, <2>1 DEF FrameParsed, AddrChecked, Driver, DriverOn, ReplyPending
    <2>12. History'
      <3>1. ~Unserved'
        BY <1>p, <1>B, <2>0, <2>1, <2>3, <2>6, <1>0 DEF Unserved, Arriving, Arrived, Given, Reading
      <3> QED
        BY <3>1, <1>m DEF IInv, History
    <2>13. WireHistory'
      BY <2>0, <2>1 DEF IInv, WireHistory, Outstanding, Transmitting, TxSend
    <2> QED
      BY <2>2, <2>7, <2>8, <2>9, <2>10, <2>11, <2>12, <2>13 DEF IInv
  <1>C. CASE bus # <<>> /\ ~tcF
    <2>0. idleF /\ irqOn /\ ~txEn
      BY <1>C, TransmittingReplying DEF IrqPending
    <2>1. /\ rxEn' = FALSE /\ rdr' = None /\ idleF' = FALSE /\ tcF' = FALSE
          /\ UNCHANGED <<txEn, de, rxCnt, rx_buf>>
          /\ frame_len' = Counted /\ sem' \in {sem, 1}
      BY <1>C, <2>0 DEF Waiting, HandOver
    <2>2. TypeOK'
      <3>1. frame_len' \in 0..RX_BUF_SIZE
        BY <1>0, <1>c, <2>1
      <3>2. sem' \in {0, 1}
        BY <2>1 DEF IInv, TypeOK
      <3> QED
        BY <3>1, <3>2, <2>1, NoneToken DEF IInv, TypeOK
    <2>3. Intact' <=> Intact
      BY <2>1 DEF Intact, Last
    <2>4. Intact => Arrived
      BY <2>0 DEF IInv, IntactStages, Arriving, Given, Handled, Replying, Finished, NoFlag
    <2>5. IntactStages' /\ Progress'
      BY <2>1, <2>3, <2>4, <1>m DEF IInv, IntactStages, Progress, Arrived, Given, Finished,
         AtRest, NoFlag, Silent
    <2>6. Booting' /\ UartOn' /\ InterruptsOn' /\ Fresh' /\ OnlyIntactServed'
          /\ UnsplitIntact' /\ Rested'
      BY <1>C, <1>p, <1>s, <2>0, <2>1, <2>3, <1>m, <1>0 DEF IInv, Booting, UartOn, InterruptsOn,
         Fresh, OnlyIntactServed, UnsplitIntact, Rested
    <2>7. NoFutureTokens' /\ FirstPlace' /\ DataRegister' /\ Lagging' /\ Reloaded'
      BY <1>C, <2>1, <1>m DEF IInv, NoFutureTokens, FirstPlace, DataRegister, Lagging, Reloaded
    <2>8. FrameParsed' /\ AddrChecked' /\ Driver' /\ DriverOn' /\ ReplyPending'
      BY <1>s, <2>0, <2>1, <2>3 DEF IInv, FrameParsed, AddrChecked, Driver, DriverOn,
         ReplyPending, Serving, TxSend, Server!Addressed, Last
    <2>9. History'
      <3>1. Unserved' => Unserved
        BY <2>3, <2>4 DEF Unserved
      <3> QED
        BY <3>1, <1>m DEF IInv, History
    <2>10. WireHistory'
      BY <2>1 DEF IInv, WireHistory, Outstanding, Transmitting
    <2> QED
      BY <2>2, <2>5, <2>6, <2>7, <2>8, <2>9, <2>10 DEF IInv
  <1> QED
    BY <1>A, <1>B, <1>C

(* The heart of the argument: what the parser accepts out of rx_buf is the *)
(* last ADU put on the bus, byte for byte, and no pause has split it.      *)
LEMMA AcceptedIsLast ==
  ASSUME IInv, pc \in {"parse", "dispatch"}, Accepts(Buffered(len))
  PROVE  /\ Intact /\ bus # <<>> /\ pos > 0
         /\ Buffered(len) = bus[Last] /\ bus[Last] \in ADU /\ Accepts(bus[Last])
  <1>0. /\ RX_BUF_SIZE \in Nat /\ RX_BUF_SIZE > 2
        /\ rx_buf \in [0..(RX_BUF_SIZE - 1) -> Tokens]
        /\ pos \in Nat /\ gaps \in Nat /\ len \in Nat
    BY SlaveAssumption DEF IInv, TypeOK
  <1>1. bus # <<>> /\ pos > 0
    BY <1>0 DEF IInv, Booting, BootSteps, RxStart, Fresh, AtRest
  <1>2. Last \in Nat \ {0} /\ bus[Last] \in ADU /\ Len(bus[Last].bytes) >= 1
    BY <1>1, LastElement, SlaveAssumption DEF IInv, TypeOK, Last
  <1>3. PICK k \in 1..Len(bus) : Whole(k, len) /\ bus[k].crcOk
    BY DEF Accepts, Buffered
  <1>4. k \in Nat \ {0} /\ bus[k] \in ADU /\ Len(bus[k].bytes) \in Nat
        /\ Len(bus[k].bytes) >= 1 /\ len = Len(bus[k].bytes) + 2 /\ len >= 3
    <2>1. bus[k] \in Requests /\ k \in Nat \ {0}
      BY BusType, ElementOfSeq
    <2>2. bus[k] \in ADU /\ Len(bus[k].bytes) >= 1 /\ Len(bus[k].bytes) \in Nat
      BY <2>1, SlaveAssumption DEF ADU
    <2> QED
      BY <2>1, <2>2, <1>3 DEF Whole, AduLen
  <1>5. \A i \in 1..len : rx_buf[i - 1] = <<k, i>>
    BY <1>3 DEF Whole
  <1>6. rx_buf[0] = <<k, 1>>
    <2>1. 1 \in 1..len /\ 1 - 1 = 0
      BY <1>4
    <2> QED
      BY <2>1, <1>5
  <1>7. k = Last
    <2>1. rx_buf[0][1] \in {0, Last}
      BY <1>1 DEF IInv, FirstPlace
    <2> QED
      BY <2>1, <1>6, <1>4
  <1>8. gaps = 0
    <2>1. LastLen = len /\ len \in 1..len
      BY <1>7, <1>4 DEF LastLen, AduLen
    <2>2. rx_buf[LastLen - 1] = <<Last, LastLen>>
      BY <2>1, <1>5, <1>7
    <2> QED
      BY <2>2, <1>0 DEF IInv, Lagging
  <1>9. Buffered(len) = bus[Last]
    <2>1. \A i \in 1..(len - 2) : ByteOf(rx_buf[i - 1]) = bus[Last].bytes[i]
      <3> SUFFICES ASSUME NEW i \in 1..(len - 2)
                   PROVE  ByteOf(rx_buf[i - 1]) = bus[Last].bytes[i]
        OBVIOUS
      <3>1. i \in 1..len /\ i \in 1..Len(bus[Last].bytes)
        BY <1>4, <1>7
      <3>2. rx_buf[i - 1] = <<Last, i>>
        BY <3>1, <1>5, <1>7
      <3> QED
        BY <3>1, <3>2, <1>2 DEF ByteOf
    <2>2. bus[Last].bytes = [i \in 1..(len - 2) |-> bus[Last].bytes[i]]
      BY <1>2, <1>4, <1>7 DEF ADU
    <2>3. Buffered(len).bytes = bus[Last].bytes
      BY <2>1, <2>2 DEF Buffered
    <2>4. Buffered(len).crcOk = TRUE
      BY <1>3 DEF Buffered
    <2>5. bus[Last].crcOk = TRUE
      BY <1>3, <1>7, <1>2 DEF ADU
    <2>6. bus[Last] = [bytes |-> bus[Last].bytes, crcOk |-> bus[Last].crcOk]
      BY <1>2 DEF ADU
    <2>7. Buffered(len) = [bytes |-> Buffered(len).bytes, crcOk |-> Buffered(len).crcOk]
      BY DEF Buffered
    <2> QED
      BY <2>3, <2>4, <2>5, <2>6, <2>7
  <1> QED
    BY <1>1, <1>2, <1>6, <1>7, <1>8, <1>9 DEF Intact

(* ParseRequest preserves the invariant.                                   *)
LEMMA ParseRequestInv == ASSUME IInv, ParseRequest PROVE IInv'
  <1> USE DEF ParseRequest, Step, line, rx, tx, irq
  <1>0. pc = "parse" /\ bus # <<>> /\ bus' = bus /\ rx_buf' = rx_buf
    BY DEF IInv, Booting, BootSteps, RxStart
  <1>a. \/ /\ Accepts(Buffered(len)) /\ pc' = "dispatch"
           /\ frame' = Header(Buffered(len))
        \/ pc' = "rx_disable" /\ frame' = frame
    OBVIOUS
  <1>b. Accepts(Buffered(len)) => Intact /\ Header(Buffered(len)) \in Headers
    BY <1>0, AcceptedIsLast, HeaderType
  <1>1. TypeOK'
    BY <1>a, <1>b DEF IInv, TypeOK, RxStart, Reading
  <1>2. /\ Intact' = Intact /\ Sending' = Sending /\ Counted' = Counted
        /\ Last' = Last /\ LastLen' = LastLen /\ Server!LastServed' = Server!LastServed
    BY DEF Intact, Sending, Last, LastLen, AduLen, Counted, Server!LastServed
  <1>c. Intact => Handled
    BY <1>0 DEF IInv, IntactStages, Arriving, Arrived, Given, Replying, Finished, AtRest
  <1>3. IntactStages' /\ Progress'
    BY <1>a, <1>c, <1>2 DEF IInv, IntactStages, Progress, Handled, Reading, RxStart, NoFlag, Silent
  <1>4. Booting' /\ UartOn' /\ InterruptsOn' /\ Fresh' /\ OnlyIntactServed'
        /\ UnsplitIntact' /\ Rested'
    BY <1>0, <1>a, <1>b, <1>2 DEF IInv, Booting, UartOn, InterruptsOn, Fresh,
       OnlyIntactServed, UnsplitIntact, Rested, Serving, TxSend, AtRest, BootSteps
  <1>5. NoFutureTokens' /\ FirstPlace' /\ DataRegister' /\ Lagging' /\ Reloaded'
    BY <1>0, <1>a, <1>2 DEF IInv, NoFutureTokens, FirstPlace, DataRegister, Lagging, Reloaded
  <1>6. FrameParsed'
    <2>1. Buffered(len)' = Buffered(len)
      BY <1>0 DEF Buffered, ByteOf, Whole, AduLen
    <2> QED
      BY <2>1, <1>a DEF FrameParsed
  <1>7. AddrChecked' /\ Driver' /\ DriverOn' /\ ReplyPending'
    BY <1>0, <1>a, <1>2 DEF IInv, AddrChecked, Driver, DriverOn, ReplyPending, Server!Addressed
  <1>8. History' /\ WireHistory'
    <2>1. Unserved' => Unserved
      BY <1>0, <1>a, <1>2 DEF Unserved, Arriving, Arrived, Given, AtRest, Reading
    <2> QED
      BY <2>1, <1>0, <1>a, <1>2 DEF IInv, History, WireHistory, Outstanding, Transmitting, TxSend
  <1> QED
    BY <1>1, <1>3, <1>4, <1>5, <1>6, <1>7, <1>8 DEF IInv

(* DispatchRequest preserves the invariant.                                *)
LEMMA DispatchRequestInv == ASSUME IInv, DispatchRequest PROVE IInv'
  <1> DEFINE f == frame
             data == Data(Buffered(len))
             out == Dispatch(f, data, hold_regs)
  <1>0. /\ pc = "dispatch" /\ pc' = "tx_config"
        /\ hold_regs' = out.regs /\ s_tx_buf' = out.reply
        /\ replies' = Append(replies, [req |-> rx_buf[0][1], reply |-> out.reply])
        /\ UNCHANGED <<line, rx, tx, irq, len, frame>>
    BY DEF DispatchRequest, Step
  <1>a. /\ Intact /\ bus # <<>> /\ pos > 0
        /\ Buffered(len) = bus[Last] /\ bus[Last] \in ADU /\ Accepts(bus[Last])
        /\ f = Header(bus[Last])
    BY <1>0, AcceptedIsLast DEF IInv, FrameParsed
  <1>b. /\ Handled /\ rdr = None /\ ~txEn /\ ~de
    BY <1>0, ServingHandled DEF Serving
  <1>c. f \in Headers /\ data \in Seq(Byte) /\ (f.fc = FC10 => Len(data) = 2 * f.word)
    <2>1. bus[Last].bytes \in Seq(Byte) /\ Len(bus[Last].bytes) >= 6
      BY <1>a, AcceptedLength DEF ADU
    <2>2. data \in Seq(Byte)
      BY <2>1, <1>a DEF Data
    <2> QED
      BY <2>2, <1>a, HeaderType, DataType
  <1>d. out.regs \in [Reg -> Word] /\ out.reply \in ADU
    BY <1>c, DispatchOutcome DEF IInv, TypeOK
  <1>e. rx_buf[0][1] = Last /\ Last \in Nat \ {0}
    BY <1>a, LastElement DEF Intact, IInv, TypeOK, Last
  <1> HIDE DEF f, data, out
  <1> DEFINE entry == [req |-> Last, reply |-> out.reply]
  <1>f. /\ replies \in Seq([req : Nat, reply : ADU]) /\ Len(replies) \in Nat
        /\ entry \in [req : Nat, reply : ADU]
        /\ entry.req = Last /\ entry.reply = out.reply
        /\ replies' = Append(replies, entry)
    BY <1>0, <1>d, <1>e DEF IInv, TypeOK
  <1> HIDE DEF entry
  <1>g. /\ replies' \in Seq([req : Nat, reply : ADU]) /\ replies' # <<>>
        /\ Len(replies') = Len(replies) + 1
        /\ replies'[Len(replies) + 1] = entry
        /\ \A i \in 1..Len(replies) : replies'[i] = replies[i]
    BY <1>f
  <1> USE <1>0 DEF line, rx, tx, irq
  <1>1. TypeOK'
    BY <1>d, <1>g DEF IInv, TypeOK, TxSend
  <1>2. /\ Intact' = Intact /\ Sending' = Sending /\ Counted' = Counted
        /\ Last' = Last /\ LastLen' = LastLen
    BY DEF Intact, Sending, Last, LastLen, AduLen, Counted
  <1>l. Server!LastServed' = Last
    BY <1>f, <1>g DEF Server!LastServed
  <1>3. IntactStages' /\ Progress'
    BY <1>b, <1>2 DEF IInv, IntactStages, Progress, Handled, TxSend, NoFlag, Silent
  <1>4. Booting' /\ UartOn' /\ InterruptsOn' /\ Fresh' /\ OnlyIntactServed'
        /\ UnsplitIntact' /\ Rested'
    BY <1>a, <1>2 DEF IInv, Booting, UartOn, InterruptsOn, Fresh,
       OnlyIntactServed, UnsplitIntact, Rested, BootSteps
  <1>5. NoFutureTokens' /\ FirstPlace' /\ DataRegister' /\ Lagging' /\ Reloaded'
    BY <1>2 DEF IInv, NoFutureTokens, FirstPlace, DataRegister, Lagging, Reloaded
  <1>6. FrameParsed' /\ AddrChecked' /\ Driver' /\ DriverOn' /\ ReplyPending'
    BY <1>b DEF FrameParsed, AddrChecked, Driver, DriverOn, ReplyPending
  <1>7. History'
    <2>1. ~Unserved'
      BY <1>a DEF Unserved, Arriving, Arrived, Given, AtRest, Reading
    <2>2. \A i \in 1..Len(replies') : replies'[i].req \in 1..Last
      <3> SUFFICES ASSUME NEW i \in 1..Len(replies') PROVE replies'[i].req \in 1..Last
        OBVIOUS
      <3>1. i \in 1..Len(replies) \/ i = Len(replies) + 1
        BY <1>f, <1>g
      <3> QED
        BY <3>1, <1>e, <1>f, <1>g DEF IInv, History
    <2> QED
      BY <2>1, <2>2, <1>2, <1>l, <1>e DEF History
  <1>8. WireHistory'
    <2>1. Len(wire) = Len(replies) /\ (\A i \in 1..Len(wire) : wire[i] = replies[i].reply)
      BY <1>b, <1>f DEF IInv, WireHistory, Outstanding, Transmitting, TxSend
    <2>2. Outstanding'
      BY DEF Outstanding, TxSend
    <2> QED
      BY <2>1, <2>2, <1>f, <1>g DEF WireHistory
  <1> QED
    BY <1>1, <1>3, <1>4, <1>5, <1>6, <1>7, <1>8 DEF IInv

(* The invariant holds initially.                                          *)
LEMMA InitInv == Init => IInv
  <1> SUFFICES ASSUME Init PROVE IInv
    OBVIOUS
  <1> USE DEF Init
  <1>0. /\ RX_BUF_SIZE \in Nat /\ RX_BUF_SIZE > 2 /\ MaxFrames \in Nat /\ MaxGaps \in Nat
        /\ Len(bus) = 0 /\ Len(replies) = 0 /\ Len(wire) = 0
    BY SlaveAssumption
  <1>1. TypeOK
    <2>1. NoHeader \in Headers
      BY DEF NoHeader, Headers, Byte, Word
    <2>2. NoReply \in ADU
      BY DEF NoReply, Reply, ADU
    <2>3. hold_regs \in [Reg -> Word]
      BY DEF Word
    <2>4. rx_buf \in [0..(RX_BUF_SIZE - 1) -> Tokens] /\ rdr \in Tokens
      BY NoneToken
    <2>5. wire \in Seq(ADU) /\ replies \in Seq([req : Nat, reply : ADU])
      OBVIOUS
    <2> QED
      BY <1>0, <2>1, <2>2, <2>3, <2>4, <2>5 DEF TypeOK, BootSteps
  <1>2. ~Intact /\ ~Sending /\ Last = 0 /\ Server!LastServed = 0
    BY <1>0 DEF Intact, Sending, Last, Server!LastServed
  <1>3. /\ IntactStages /\ Booting /\ UartOn /\ InterruptsOn /\ Fresh /\ OnlyIntactServed
        /\ UnsplitIntact /\ Rested /\ Progress
    BY <1>2 DEF IntactStages, Booting, UartOn, InterruptsOn, Fresh, OnlyIntactServed,
       UnsplitIntact, Rested, Progress, BootSteps, Serving, TxSend
  <1>4. NoFutureTokens
    BY <1>2 DEF NoFutureTokens, None
  <1>5. FirstPlace /\ DataRegister /\ Lagging /\ Reloaded
    BY <1>0 DEF FirstPlace, DataRegister, Lagging, Reloaded
  <1>6. FrameParsed /\ AddrChecked /\ Driver /\ DriverOn /\ ReplyPending
    BY DEF FrameParsed, AddrChecked, Driver, DriverOn, ReplyPending
  <1>7. History /\ WireHistory
    BY <1>0, <1>2 DEF History, Unserved, WireHistory, Outstanding, Transmitting, TxSend
  <1> QED
    BY <1>1, <1>3, <1>4, <1>5, <1>6, <1>7 DEF IInv

(* A stuttering step preserves the invariant.                              *)
LEMMA StutterInv == ASSUME IInv, UNCHANGED vars PROVE IInv'
  <1> USE DEF vars, line, rx, tx, irq, task
  <1>1. TypeOK'
    BY DEF IInv, TypeOK
  <1>2. /\ Intact' = Intact /\ Sending' = Sending /\ Counted' = Counted
        /\ Last' = Last /\ LastLen' = LastLen /\ Server!LastServed' = Server!LastServed
        /\ Transmitting' = Transmitting
    BY DEF Intact, Sending, Last, LastLen, AduLen, Counted, Server!LastServed, Transmitting
  <1>3. IntactStages' /\ Progress'
    BY <1>2 DEF IInv, IntactStages, Progress, Arriving, Arrived, Given, Handled, Replying,
       Finished, AtRest, NoFlag, Silent
  <1>4. Booting' /\ UartOn' /\ InterruptsOn' /\ Fresh' /\ OnlyIntactServed'
        /\ UnsplitIntact' /\ Rested'
    BY <1>2 DEF IInv, Booting, UartOn, InterruptsOn, Fresh, OnlyIntactServed, UnsplitIntact,
       Rested, AtRest
  <1>5. NoFutureTokens' /\ FirstPlace' /\ DataRegister' /\ Lagging' /\ Reloaded'
    BY <1>2 DEF IInv, NoFutureTokens, FirstPlace, DataRegister, Lagging, Reloaded
  <1>6. FrameParsed'
    <2>1. Buffered(len)' = Buffered(len)
      BY DEF Buffered, ByteOf, Whole, AduLen
    <2> QED
      BY <2>1 DEF IInv, FrameParsed
  <1>7. AddrChecked' /\ Driver' /\ DriverOn' /\ ReplyPending'
    BY <1>2 DEF IInv, AddrChecked, Driver, DriverOn, ReplyPending, Server!Addressed
  <1>8. History' /\ WireHistory'
    BY <1>2 DEF IInv, History, Unserved, WireHistory, Outstanding, Arriving, Arrived, Given, AtRest,
       NoFlag, Silent
  <1> QED
    BY <1>1, <1>3, <1>4, <1>5, <1>6, <1>7, <1>8 DEF IInv

(* Every step preserves the invariant, one lemma per action.               *)
LEMMA NextInv == ASSUME TurnTaking, IInv, [Next]_vars PROVE IInv'
  <1>1. CASE UNCHANGED vars
    BY <1>1, StutterInv
  <1>2. ASSUME NEW r \in Requests, StartAdu(r) PROVE IInv'
    BY <1>2, StartAduInv
  <1>3. CASE RxChar \/ RaiseIdle \/ TxChar \/ USART0_IRQHandler
    BY <1>3, RxCharInv, RaiseIdleInv, TxCharInv, USART0_IRQHandlerInv
  <1>4. CASE mb_slave_init
    BY <1>4, UartEnableInv, DmaInitInv, NvicEnableInv DEF mb_slave_init
  <1>5. CASE mb_slv_port_rx_start
    BY <1>5, RxDisableInv, RxReloadInv, RxEnableInv DEF mb_slv_port_rx_start
  <1>6. CASE mb_slave_poll
    BY <1>6, TakeInv, GetLenInv, CheckAddrInv, ParseRequestInv, DispatchRequestInv
       DEF mb_slave_poll
  <1>7. CASE mb_slv_port_tx_send
    BY <1>7, TxConfigInv, TxDeInv, TxEnableInv DEF mb_slv_port_tx_send
  <1> QED
    BY <1>1, <1>2, <1>3, <1>4, <1>5, <1>6, <1>7 DEF Next, mb_slave_task
-----------------------------------------------------------------------------
(* AnyTraffic is inductive with no assumption on turns, one lemma per      *)
(* action or group of actions.                                             *)

(* A character fetched by the DMA lands inside the buffer, and the counter *)
(* stays within its range.                                                 *)
LEMMA FetchAny ==
  ASSUME AnyTraffic, bus' = bus, NEW t \in Tokens, t[1] <= Last, Fetch(t)
  PROVE  /\ rxCnt' \in 1..RX_BUF_SIZE
         /\ rx_buf' \in [0..(RX_BUF_SIZE - 1) -> Tokens]
         /\ \A i \in 0..(RX_BUF_SIZE - 1) : rx_buf'[i][1] <= Last'
  <1>0. /\ RX_BUF_SIZE \in Nat /\ RX_BUF_SIZE > 2 /\ rxCnt \in 1..RX_BUF_SIZE
        /\ rx_buf \in [0..(RX_BUF_SIZE - 1) -> Tokens]
        /\ \A i \in 0..(RX_BUF_SIZE - 1) : rx_buf[i][1] <= Last
    BY SlaveAssumption DEF AnyTraffic, TypeOK, KnownTokens
  <1>1. RX_BUF_SIZE - rxCnt \in 0..(RX_BUF_SIZE - 1)
    BY <1>0
  <1>2. rxCnt' \in 1..RX_BUF_SIZE
    BY <1>0 DEF Fetch
  <1>3. rx_buf' = [rx_buf EXCEPT ![RX_BUF_SIZE - rxCnt] = t]
    BY DEF Fetch
  <1>4. Last' = Last
    BY DEF Last
  <1> QED
    BY <1>0, <1>1, <1>2, <1>3, <1>4

(* Whatever is received, and from whom, the receiver stays well formed.    *)
LEMMA ReceiveAny ==
  ASSUME AnyTraffic, bus' = bus, NEW t \in Tokens, t[1] <= Last, Receive(t)
  PROVE  Receiver'
  <1>0. /\ heard \in BOOLEAN /\ uartOn \in BOOLEAN /\ rxEn \in BOOLEAN
        /\ rdr \in Tokens /\ rxCnt \in 1..RX_BUF_SIZE
        /\ rx_buf \in [0..(RX_BUF_SIZE - 1) -> Tokens] /\ Last' = Last
        /\ KnownTokens
    BY DEF AnyTraffic, TypeOK, Last
  <1>1. CASE ~uartOn
    BY <1>0, <1>1 DEF Receive, rx, Receiver, KnownTokens
  <1>2. CASE uartOn /\ rxEn
    <2>1. Fetch(t) /\ heard' = TRUE /\ UNCHANGED <<rdr, uartOn, rxEn>>
      BY <1>2 DEF Receive
    <2> QED
      BY <2>1, <1>0, FetchAny DEF Receiver, KnownTokens
  <1>3. CASE uartOn /\ ~rxEn
    <2>1. /\ heard' = TRUE /\ UNCHANGED <<uartOn, rxEn, rxCnt, rx_buf>>
          /\ rdr' \in {t, rdr}
      BY <1>3 DEF Receive
    <2> QED
      BY <2>1, <1>0 DEF Receiver, KnownTokens
  <1> QED
    BY <1>0, <1>1, <1>2, <1>3

(* So it does when the receive channel is enabled.                         *)
LEMMA EnableRxAny ==
  ASSUME AnyTraffic, bus' = bus, UNCHANGED <<heard, uartOn>>, rdr' = None,
         EnableRx(rdr) \/ EnableRx(None)
  PROVE  Receiver'
  <1>0. /\ heard \in BOOLEAN /\ uartOn \in BOOLEAN /\ rdr \in Tokens
        /\ rx_buf \in [0..(RX_BUF_SIZE - 1) -> Tokens] /\ Last' = Last /\ Last \in Nat
        /\ KnownTokens /\ RX_BUF_SIZE \in Nat /\ RX_BUF_SIZE > 2
    BY SlaveAssumption DEF AnyTraffic, TypeOK, Last
  <1>1. rxEn' = TRUE /\ rxCnt' \in {RX_BUF_SIZE, RX_BUF_SIZE - 1}
    BY DEF EnableRx
  <1>2. rx_buf' = rx_buf \/ rx_buf' = [rx_buf EXCEPT ![0] = rdr]
    BY DEF EnableRx
  <1>3. rx_buf' \in [0..(RX_BUF_SIZE - 1) -> Tokens]
    BY <1>0, <1>2
  <1>4. \A i \in 0..(RX_BUF_SIZE - 1) : rx_buf'[i][1] <= Last
    BY <1>0, <1>2 DEF KnownTokens
  <1> QED
    BY <1>0, <1>1, <1>3, <1>4, NoneToken DEF Receiver, KnownTokens, None

(* Another ADU on the bus.                                                 *)
LEMMA StartAduAny == ASSUME AnyTraffic, NEW r \in Requests, StartAdu(r) PROVE AnyTraffic'
  <1> USE DEF StartAdu, rx, tx, irq, task
  <1>0. bus \in Seq(Requests) /\ Len(bus) \in Nat /\ MaxFrames \in Nat /\ Len(bus) < MaxFrames
        /\ MaxGaps \in Nat /\ RX_BUF_SIZE \in Nat
    BY SlaveAssumption DEF AnyTraffic, TypeOK
  <1>1. bus' \in Seq(Requests) /\ Len(bus') = Len(bus) + 1
    BY <1>0, AppendType
  <1>2. TypeOK'
    BY <1>0, <1>1 DEF AnyTraffic, TypeOK
  <1>3. KnownTokens'
    <2>1. \A t \in Tokens : t[1] <= Last => t[1] <= Last'
      BY <1>0, <1>1, TokenType DEF Last
    <2>2. rdr \in Tokens /\ \A i \in 0..(RX_BUF_SIZE - 1) : rx_buf[i] \in Tokens
      BY DEF AnyTraffic, TypeOK
    <2> QED
      BY <2>1, <2>2 DEF AnyTraffic, KnownTokens
  <1>4. Sized' /\ ReplyInBuffer' /\ Stopped' /\ Completed' /\ DriverOn' /\ DriverKept'
    BY DEF AnyTraffic, Sized, ReplyInBuffer, Stopped, Completed, DriverOn, DriverKept, AduLen
  <1> QED
    BY <1>2, <1>3, <1>4 DEF AnyTraffic

(* A character of an ADU, whatever the slave is doing.                     *)
LEMMA RxCharAny == ASSUME AnyTraffic, RxChar PROVE AnyTraffic'
  <1> USE DEF RxChar, tx, irq, task
  <1>0. bus \in Seq(Requests) /\ Len(bus) \in Nat /\ Len(bus) <= MaxFrames /\ bus # <<>>
        /\ pos \in Nat /\ pos < AduLen(bus[Len(bus)]) /\ RX_BUF_SIZE \in Nat
    BY SlaveAssumption DEF AnyTraffic, TypeOK, Sending
  <1>1. bus[Len(bus)] \in Requests
    BY <1>0, LastElement
  <1>2. pos + 1 \in 0..RX_BUF_SIZE
    BY <1>0, <1>1, RequestType
  <1> DEFINE t == <<Len(bus), pos + 1>>
  <1>3. t \in Tokens /\ t[1] <= Last /\ Receive(t)
    BY <1>0, SlaveAssumption DEF Tokens, Last
  <1> HIDE DEF t
  <1>4. Receiver'
    BY <1>3, ReceiveAny
  <1>5. TypeOK'
    BY <1>2, <1>4 DEF AnyTraffic, TypeOK, Receiver
  <1>6. Sized' /\ ReplyInBuffer' /\ Stopped' /\ Completed' /\ DriverOn' /\ DriverKept'
    BY DEF AnyTraffic, Sized, ReplyInBuffer, Stopped, Completed, DriverOn, DriverKept, AduLen
  <1> QED
    BY <1>4, <1>5, <1>6 DEF AnyTraffic, Receiver

(* The line falls idle.                                                    *)
LEMMA RaiseIdleAny == ASSUME AnyTraffic, RaiseIdle PROVE AnyTraffic'
  <1> USE DEF RaiseIdle, rx, tx, task
  <1>0. gaps \in Nat /\ MaxGaps \in Nat /\ split \subseteq 1..MaxFrames /\ Len(bus) \in Nat
        /\ Len(bus) <= MaxFrames /\ MaxFrames \in Nat
    BY SlaveAssumption DEF AnyTraffic, TypeOK
  <1>1. gaps' \in 0..MaxGaps
    BY <1>0 DEF AnyTraffic, TypeOK
  <1>2. split' \subseteq 1..MaxFrames
    <2>1. Sending => Len(bus) \in 1..MaxFrames
      BY <1>0, EmptySeq DEF Sending, AnyTraffic, TypeOK
    <2> QED
      BY <2>1, <1>0
  <1>3. TypeOK'
    BY <1>1, <1>2 DEF AnyTraffic, TypeOK
  <1>4. KnownTokens'
    BY DEF AnyTraffic, KnownTokens, Last
  <1>5. Sized' /\ ReplyInBuffer' /\ Stopped' /\ Completed' /\ DriverOn' /\ DriverKept'
    BY DEF AnyTraffic, Sized, ReplyInBuffer, Stopped, Completed, DriverOn, DriverKept, AduLen
  <1> QED
    BY <1>3, <1>4, <1>5 DEF AnyTraffic

(* A character of a reply leaves, perhaps with another ADU on the line.    *)
LEMMA TxCharAny == ASSUME AnyTraffic, TxChar PROVE AnyTraffic'
  <1> USE DEF TxChar
  <1>0. /\ txEn /\ txPos \in Nat /\ txLen \in Nat /\ txPos < txLen /\ Len(bus) \in Nat
        /\ wire \in Seq(ADU) /\ s_tx_buf \in ADU /\ bus' = bus
    BY DEF AnyTraffic, TypeOK, Transmitting
  <1>1. Receiver'
    <2> DEFINE t == <<0, txPos + 1>>
    <2>1. t \in Tokens /\ t[1] <= Last
      BY <1>0, SlaveAssumption DEF Tokens, Last
    <2>2. Receive(t) \/ UNCHANGED <<heard, rx>>
      OBVIOUS
    <2> HIDE DEF t
    <2>3. CASE Receive(t)
      BY <2>1, <2>3, <1>0, ReceiveAny
    <2>4. CASE UNCHANGED <<heard, rx>>
      BY <2>4, <1>0 DEF rx, AnyTraffic, TypeOK, Receiver, KnownTokens, Last
    <2> QED
      BY <2>2, <2>3, <2>4
  <1>t. /\ txPos' = txPos + 1 /\ UNCHANGED <<txEn, txLen, de>>
        /\ \/ txPos' < txLen /\ tcF' = tcF /\ wire' = wire
           \/ txPos' = txLen /\ tcF' = TRUE /\ wire' = Append(wire, s_tx_buf)
    BY <1>0
  <1>2. wire' \in Seq(ADU)
    <2>1. Append(wire, s_tx_buf) \in Seq(ADU)
      BY <1>0, AppendType
    <2> QED
      BY <2>1, <1>0, <1>t, Zenon
  <1>3. tcF' \in BOOLEAN
    BY <1>t DEF AnyTraffic, TypeOK
  <1>4. TypeOK'
    BY <1>0, <1>1, <1>2, <1>3, <1>t DEF AnyTraffic, TypeOK, Receiver, task
  <1>5. Sized' /\ ReplyInBuffer' /\ DriverOn' /\ DriverKept'
    BY <1>0, <1>t DEF AnyTraffic, Sized, ReplyInBuffer, DriverOn, DriverKept, AduLen, task
  <1>6. Stopped' /\ Completed'
    BY <1>0, <1>t DEF AnyTraffic, Stopped, Completed, task
  <1> QED
    BY <1>1, <1>4, <1>5, <1>6 DEF AnyTraffic, Receiver, task

(* The handler.                                                            *)
LEMMA HandlerAny == ASSUME AnyTraffic, USART0_IRQHandler PROVE AnyTraffic'
  <1> USE DEF USART0_IRQHandler, line, task
  <1>0. /\ RX_BUF_SIZE \in Nat /\ rxCnt \in 1..RX_BUF_SIZE /\ bus' = bus /\ heard' = heard
        /\ uartOn' = uartOn /\ frame_len \in 0..RX_BUF_SIZE /\ sem \in {0, 1}
    BY SlaveAssumption DEF AnyTraffic, TypeOK
  <1>1. frame_len' \in 0..RX_BUF_SIZE /\ sem' \in {0, 1}
    BY <1>0 DEF HandOver, Counted
  <1>2. CASE tcF
    <2>1. /\ txEn' = FALSE /\ de' = FALSE /\ rdr' = None
          /\ EnableRx(rdr) \/ EnableRx(None)
      BY <1>2 DEF TransferComplete, Waiting
    <2>2. Receiver'
      BY <2>1, <1>0, EnableRxAny
    <2>3. TypeOK'
      BY <2>1, <2>2, <1>1 DEF AnyTraffic, TypeOK, Receiver
    <2>4. pc \notin {"tx_de", "tx_enable"}
      BY <1>2 DEF AnyTraffic, Stopped
    <2>5. Sized' /\ ReplyInBuffer' /\ Stopped' /\ Completed' /\ DriverOn' /\ DriverKept'
      BY <2>1, <2>4 DEF AnyTraffic, Sized, ReplyInBuffer, Stopped, Completed, DriverOn,
         DriverKept, AduLen
    <2> QED
      BY <2>2, <2>3, <2>5 DEF AnyTraffic, Receiver
  <1>3. CASE ~tcF
    <2>1. rxEn' = FALSE /\ rdr' \in {None, rdr} /\ UNCHANGED <<txEn, de, rxCnt, rx_buf>>
      BY <1>3 DEF IdleAlone, Waiting
    <2>2. rdr' \in Tokens /\ rdr'[1] <= Last
      <3>1. None[1] <= Last
        BY DEF None, Last, AnyTraffic, TypeOK
      <3> QED
        BY <2>1, <3>1, NoneToken DEF AnyTraffic, TypeOK, KnownTokens
    <2>3. TypeOK'
      BY <2>1, <2>2, <1>1 DEF AnyTraffic, TypeOK
    <2>4. KnownTokens'
      BY <2>1, <2>2 DEF AnyTraffic, KnownTokens, Last
    <2>5. Sized' /\ ReplyInBuffer' /\ Stopped' /\ Completed' /\ DriverOn' /\ DriverKept'
      BY <1>3, <2>1 DEF AnyTraffic, Sized, ReplyInBuffer, Stopped, Completed, DriverOn,
         DriverKept, AduLen
    <2> QED
      BY <2>3, <2>4, <2>5 DEF AnyTraffic
  <1> QED
    BY <1>2, <1>3

(* Start-up and the restart of the receiver from the task.                 *)
LEMMA RxStartAny ==
  ASSUME AnyTraffic, mb_slave_init \/ mb_slv_port_rx_start
  PROVE  AnyTraffic'
  <1> USE DEF Step, line, tx, irq
  <1>0. RX_BUF_SIZE \in Nat /\ RX_BUF_SIZE > 2 /\ rdr \in Tokens /\ rdr[1] <= Last
        /\ rxCnt \in 1..RX_BUF_SIZE
    BY SlaveAssumption DEF AnyTraffic, TypeOK, KnownTokens
  <1>1. CASE UartEnable \/ NvicEnable \/ RxDisable
    <2>1. TypeOK'
      <3>1. CASE UartEnable
        BY <3>1 DEF UartEnable, AnyTraffic, TypeOK, BootSteps
      <3>2. CASE NvicEnable
        BY <3>2 DEF NvicEnable, rx, AnyTraffic, TypeOK, RxStart
      <3>3. CASE RxDisable
        BY <3>3 DEF RxDisable, AnyTraffic, TypeOK, RxStart
      <3> QED
        BY <1>1, <3>1, <3>2, <3>3
    <2>2. KnownTokens'
      BY <1>1 DEF UartEnable, NvicEnable, RxDisable, rx, AnyTraffic, KnownTokens, Last
    <2>3. irqOn' \/ pc' \in BootSteps
      BY <1>1 DEF UartEnable, NvicEnable, RxDisable, AnyTraffic, BootSteps
    <2>4. Sized' /\ ReplyInBuffer' /\ Stopped' /\ Completed' /\ DriverOn' /\ DriverKept'
      BY <1>1 DEF UartEnable, NvicEnable, RxDisable, AnyTraffic, Sized, ReplyInBuffer, Stopped,
         Completed, DriverOn, DriverKept, AduLen
    <2> QED
      BY <2>1, <2>2, <2>3, <2>4 DEF AnyTraffic, TypeOK
  <1>2. CASE DmaInit \/ RxReload \/ RxEnable
    <2>1. Receiver'
      <3>1. CASE DmaInit
        BY <3>1, EnableRxAny DEF DmaInit
      <3>2. CASE RxReload
        BY <3>2, <1>0 DEF RxReload, AnyTraffic, TypeOK, Receiver, KnownTokens, Last
      <3>3. CASE RxEnable /\ ~rxEn /\ rdr # None
        <4>1. rxEn' = TRUE /\ rdr' = None /\ Fetch(rdr) /\ UNCHANGED <<heard, uartOn, bus>>
          BY <3>3 DEF RxEnable
        <4>2. None[1] <= Last'
          BY <4>1 DEF None, Last, AnyTraffic, TypeOK
        <4> QED
          BY <4>1, <4>2, <1>0, FetchAny, NoneToken DEF Receiver, KnownTokens, AnyTraffic, TypeOK
      <3>4. CASE RxEnable /\ (rxEn \/ rdr = None)
        BY <3>4 DEF RxEnable, AnyTraffic, TypeOK, Receiver, KnownTokens, Last
      <3> QED
        BY <1>2, <3>1, <3>2, <3>3, <3>4
    <2>2. TypeOK'
      BY <1>2, <2>1 DEF DmaInit, RxReload, RxEnable, AnyTraffic, TypeOK, Receiver, BootSteps,
         RxStart
    <2>3. irqOn' \/ pc' \in BootSteps
      BY <1>2 DEF DmaInit, RxReload, RxEnable, AnyTraffic, BootSteps
    <2>4. Sized' /\ ReplyInBuffer' /\ Stopped' /\ Completed' /\ DriverOn' /\ DriverKept'
      BY <1>2 DEF DmaInit, RxReload, RxEnable, AnyTraffic, Sized, ReplyInBuffer, Stopped,
         Completed, DriverOn, DriverKept, AduLen
    <2> QED
      BY <2>1, <2>2, <2>3, <2>4 DEF AnyTraffic, Receiver, TypeOK
  <1> QED
    BY <1>1, <1>2 DEF mb_slave_init, mb_slv_port_rx_start

(* What rx_buf is read as is an ADU, whatever characters it holds; it has  *)
(* two characters less than were counted.                                  *)
LEMMA BufferedAny ==
  ASSUME AnyTraffic
  PROVE  /\ Buffered(len) \in ADU
         /\ len >= 2 => AduLen(Buffered(len)) = len
  <1>0. /\ RX_BUF_SIZE \in Nat /\ len \in 0..RX_BUF_SIZE /\ Len(bus) \in Nat
        /\ bus \in Seq(Requests) /\ s_tx_buf \in ADU
        /\ rx_buf \in [0..(RX_BUF_SIZE - 1) -> Tokens]
    BY SlaveAssumption DEF AnyTraffic, TypeOK
  <1>1. ASSUME NEW i \in 1..(len - 2) PROVE ByteOf(rx_buf[i - 1]) \in Byte
    <2>1. rx_buf[i - 1] \in Tokens /\ rx_buf[i - 1][1] <= Last
      BY <1>0 DEF AnyTraffic, KnownTokens
    <2> DEFINE t == rx_buf[i - 1]
               src == IF t[1] = 0 THEN s_tx_buf.bytes ELSE bus[t[1]].bytes
    <2>2. src \in Seq(Byte)
      <3>1. CASE t[1] = 0
        BY <3>1, <1>0 DEF ADU
      <3>2. CASE t[1] # 0
        <4>1. t[1] \in 1..Len(bus)
          BY <3>2, <2>1, <1>0, TokenType DEF Last
        <4>2. bus[t[1]] \in ADU
          BY <4>1, <1>0, SlaveAssumption
        <4> QED
          BY <3>2, <4>2 DEF ADU
      <3> QED
        BY <3>1, <3>2
    <2>3. ByteOf(t) = IF t[2] \in 1..Len(src) THEN src[t[2]] ELSE 0
      BY DEF ByteOf
    <2> HIDE DEF src, t
    <2>4. ByteOf(t) \in Byte
      <3>1. t[2] \in 1..Len(src) => src[t[2]] \in Byte
        BY <2>2, ElementOfSeq
      <3>2. 0 \in Byte
        BY DEF Byte
      <3> QED
        BY <2>3, <3>1, <3>2
    <2> QED
      BY <2>4 DEF t
  <1> DEFINE m == IF len >= 2 THEN len - 2 ELSE 0
  <1>2. m \in Nat /\ 1..(len - 2) = 1..m
    BY <1>0
  <1>3. /\ Buffered(len).bytes = [i \in 1..m |-> ByteOf(rx_buf[i - 1])]
        /\ Buffered(len).crcOk \in BOOLEAN
        /\ Buffered(len) = [bytes |-> Buffered(len).bytes, crcOk |-> Buffered(len).crcOk]
    BY <1>2 DEF Buffered
  <1>4. \A i \in 1..m : ByteOf(rx_buf[i - 1]) \in Byte
    BY <1>1, <1>2
  <1>5. len >= 2 => m = len - 2
    OBVIOUS
  <1> HIDE DEF m
  <1>6. Buffered(len).bytes \in Seq(Byte) /\ Len(Buffered(len).bytes) = m
    <2> DEFINE b == [i \in 1..m |-> ByteOf(rx_buf[i - 1])]
    <2>1. b \in [1..m -> Byte]
      BY <1>4
    <2> HIDE DEF b
    <2>2. b \in Seq(Byte) /\ Len(b) = m
      BY <2>1, <1>2
    <2> QED
      BY <2>2, <1>3 DEF b
  <1> DEFINE adu == Buffered(len)
  <1> HIDE DEF adu
  <1>7. adu \in ADU
    BY <1>3, <1>6 DEF ADU, adu
  <1>8. len >= 2 => AduLen(adu) = len
    BY <1>0, <1>5, <1>6 DEF AduLen, adu
  <1> QED
    BY <1>7, <1>8 DEF adu

(* The task up to the parser.                                              *)
LEMMA ReadAny == ASSUME AnyTraffic, Take \/ GetLen \/ CheckAddr PROVE AnyTraffic'
  <1> USE DEF Take, GetLen, CheckAddr, Step, line, rx, tx, irq
  <1>1. TypeOK'
    <2>1. CASE Take
      BY <2>1 DEF AnyTraffic, TypeOK, Reading
    <2>2. CASE GetLen
      BY <2>2 DEF AnyTraffic, TypeOK, Reading
    <2>3. CASE CheckAddr
      BY <2>3 DEF AnyTraffic, TypeOK, Reading, RxStart
    <2> QED
      BY <2>1, <2>2, <2>3
  <1>2. KnownTokens'
    BY DEF AnyTraffic, KnownTokens, Last
  <1>3. irqOn'
    BY DEF AnyTraffic, BootSteps
  <1>4. Sized' /\ ReplyInBuffer' /\ Stopped' /\ Completed' /\ DriverOn' /\ DriverKept'
    BY DEF AnyTraffic, Sized, ReplyInBuffer, Stopped, Completed, DriverOn, DriverKept, AduLen
  <1> QED
    BY <1>1, <1>2, <1>3, <1>4 DEF AnyTraffic

(* The parser: a header it accepts fits the length it was given.           *)
LEMMA ParseAny == ASSUME AnyTraffic, ParseRequest PROVE AnyTraffic'
  <1> USE DEF ParseRequest, Step, line, rx, tx, irq
  <1>a. /\ pc = "parse" /\ UNCHANGED <<len, s_tx_buf>>
        /\ \/ /\ Accepts(Buffered(len)) /\ pc' = "dispatch"
              /\ frame' = Header(Buffered(len))
           \/ pc' = "rx_disable" /\ frame' = frame
    OBVIOUS
  <1>b. Accepts(Buffered(len)) => Header(Buffered(len)) \in Headers
    BY BufferedAny, HeaderType
  <1>1. TypeOK'
    BY <1>a, <1>b DEF AnyTraffic, TypeOK, Reading, RxStart
  <1>2. KnownTokens' /\ irqOn'
    BY <1>a DEF AnyTraffic, KnownTokens, Last, BootSteps
  <1>3. Sized'
    <2> SUFFICES ASSUME pc' = "dispatch"
                 PROVE  len >= MinLen /\ (frame'.fc = FC10 => len = 9 + 2 * frame'.word)
      BY <1>a DEF Sized
    <2> DEFINE adu == Buffered(len)
    <2>1. Accepts(adu) /\ frame' = Header(adu) /\ adu \in ADU
          /\ (len >= 2 => AduLen(adu) = len) /\ len \in Nat
      BY <1>a, BufferedAny, SlaveAssumption DEF AnyTraffic, TypeOK
    <2>2. len >= 2
      <3>1. Len(adu.bytes) >= 6
        BY <2>1, AcceptedLength
      <3>2. len < 2 => Len(adu.bytes) = 0
        <4>1. len < 2 => 1..(len - 2) = {}
          BY <2>1
        <4>2. len < 2 => adu.bytes = <<>>
          BY <4>1 DEF Buffered
        <4> QED
          BY <4>2
      <3> QED
        BY <3>1, <3>2, <2>1
    <2> HIDE DEF adu
    <2>3. AduLen(adu) = len /\ len >= MinLen
      BY <2>1, <2>2 DEF Accepts
    <2>4. ASSUME frame'.fc = FC10 PROVE len = 9 + 2 * frame'.word
      <3>1. adu.bytes[2] = FC10 /\ frame'.word = U16(adu.bytes[5], adu.bytes[6])
        BY <2>1, <2>4 DEF Header
      <3>2. adu.bytes[7] = U16(adu.bytes[5], adu.bytes[6]) * 2 /\ len = 7 + adu.bytes[7] + 2
        BY <2>1, <2>3, <3>1 DEF Accepts
      <3>3. U16(adu.bytes[5], adu.bytes[6]) \in Nat
        <4>1. adu.bytes[5] \in Byte /\ adu.bytes[6] \in Byte
          BY <2>1, AcceptedLength
        <4> QED
          BY <4>1, U16Type, WordsAreNumbers
      <3> QED
        BY <3>1, <3>2, <3>3
    <2> QED
      BY <2>3, <2>4
  <1>4. ReplyInBuffer' /\ Stopped' /\ Completed' /\ DriverOn' /\ DriverKept'
    BY <1>a DEF AnyTraffic, ReplyInBuffer, Stopped, Completed, DriverOn, DriverKept, AduLen
  <1> QED
    BY <1>1, <1>2, <1>3, <1>4 DEF AnyTraffic

(* The dispatch of whatever rx_buf holds by then: as many register bytes   *)
(* are read as the header announces, and the reply fits in s_tx_buf.       *)
LEMMA DispatchedAny ==
  ASSUME AnyTraffic, pc = "dispatch"
  PROVE  LET out == Dispatch(frame, Data(Buffered(len)), hold_regs)
         IN  /\ out.regs \in [Reg -> Word] /\ out.reply \in ADU
             /\ AduLen(out.reply) <= TX_BUF_SIZE
             /\ IsException(out.reply) => out.regs = hold_regs
             /\ ~IsException(out.reply) =>
                   frame.start + (IF frame.fc = FC06 THEN 1 ELSE frame.word) <= HOLD_REG_COUNT
  <1> DEFINE adu == Buffered(len)
             data == Data(adu)
             out == Dispatch(frame, data, hold_regs)
  <1>0. /\ frame \in Headers /\ hold_regs \in [Reg -> Word] /\ len \in Nat /\ len >= 8
        /\ frame.fc = FC10 => len = 9 + 2 * frame.word
    BY SlaveAssumption DEF AnyTraffic, TypeOK, Sized, MinLen
  <1>1. adu.bytes \in Seq(Byte) /\ Len(adu.bytes) = len - 2
    <2>1. adu \in ADU /\ AduLen(adu) = len
      BY <1>0, BufferedAny
    <2> HIDE DEF adu
    <2> QED
      BY <2>1, <1>0 DEF ADU, AduLen
  <1> HIDE DEF adu
  <1>2. data \in Seq(Byte)
    BY <1>1 DEF Data
  <1>3. frame.fc = FC10 => Len(data) = 2 * frame.word
    <2> SUFFICES ASSUME frame.fc = FC10 PROVE Len(data) = 2 * frame.word
      OBVIOUS
    <2>1. frame.word \in Nat
      BY <1>0, HeaderFields, WordsAreNumbers
    <2>2. data = SubSeq(adu.bytes, 8, Len(adu.bytes)) /\ Len(adu.bytes) = 7 + 2 * frame.word
      BY <1>0, <1>1, <2>1 DEF Data
    <2>3. Len(data) = IF 8 <= Len(adu.bytes) THEN Len(adu.bytes) - 8 + 1 ELSE 0
      BY <1>1, <2>2
    <2> QED
      BY <2>1, <2>2, <2>3
  <1> HIDE DEF data
  <1>4. /\ out.regs \in [Reg -> Word] /\ out.reply \in ADU /\ AduLen(out.reply) <= 256
        /\ IsException(out.reply) => out.regs = hold_regs
        /\ ~IsException(out.reply) =>
              frame.start + (IF frame.fc = FC06 THEN 1 ELSE frame.word) <= HOLD_REG_COUNT
    BY <1>0, <1>2, <1>3, DispatchOutcome
  <1> HIDE DEF out
  <1>5. AduLen(out.reply) <= TX_BUF_SIZE
    BY <1>4, AduLenType, TxBufAssumption
  <1> QED
    BY <1>4, <1>5 DEF out, data, adu

(* So the dispatch keeps the registers and the reply well formed.          *)
LEMMA DispatchAny == ASSUME AnyTraffic, DispatchRequest PROVE AnyTraffic'
  <1> DEFINE out == Dispatch(frame, Data(Buffered(len)), hold_regs)
  <1>0. /\ pc = "dispatch" /\ pc' = "tx_config"
        /\ hold_regs' = out.regs /\ s_tx_buf' = out.reply
        /\ replies' = Append(replies, [req |-> rx_buf[0][1], reply |-> out.reply])
        /\ UNCHANGED <<line, rx, tx, irq, len, frame>>
    BY DEF DispatchRequest, Step
  <1>1. /\ out.regs \in [Reg -> Word] /\ out.reply \in ADU
        /\ AduLen(out.reply) <= TX_BUF_SIZE
    BY <1>0, DispatchedAny
  <1> HIDE DEF out
  <1>2. replies' \in Seq([req : Nat, reply : ADU])
    <2> DEFINE e == [req |-> rx_buf[0][1], reply |-> out.reply]
    <2>1. rx_buf[0] \in Tokens
      BY SlaveAssumption DEF AnyTraffic, TypeOK
    <2>2. rx_buf[0][1] \in Nat
      BY <2>1, TokenType
    <2>3. e \in [req : Nat, reply : ADU]
      BY <1>1, <2>2
    <2>4. replies \in Seq([req : Nat, reply : ADU])
      BY DEF AnyTraffic, TypeOK
    <2> HIDE DEF e
    <2>5. Append(replies, e) \in Seq([req : Nat, reply : ADU])
      BY <2>3, <2>4, AppendType
    <2> QED
      BY <2>5, <1>0 DEF e
  <1>3. TypeOK'
    BY <1>0, <1>1, <1>2 DEF AnyTraffic, TypeOK, TxSend, line, rx, tx, irq
  <1>4. KnownTokens' /\ irqOn'
    BY <1>0 DEF AnyTraffic, KnownTokens, Last, BootSteps, line, rx, irq
  <1>5. Sized' /\ ReplyInBuffer' /\ Stopped' /\ Completed' /\ DriverOn' /\ DriverKept'
    BY <1>0, <1>1 DEF AnyTraffic, Sized, ReplyInBuffer, Stopped, Completed, DriverOn,
       DriverKept, AduLen, tx, irq
  <1> QED
    BY <1>3, <1>4, <1>5 DEF AnyTraffic

(* The transmission, also on top of one that still runs: no step is taken  *)
(* while TC is pending, so TC never falls between stop and start.          *)
LEMMA TxSendAny == ASSUME AnyTraffic, mb_slv_port_tx_send PROVE AnyTraffic'
  <1> USE DEF mb_slv_port_tx_send, TxConfig, TxDe, TxEnable, Step, line, rx, irq
  <1>0. AduLen(s_tx_buf) \in Nat /\ AduLen(s_tx_buf) >= 2
    BY AduLenType DEF AnyTraffic, TypeOK
  <1>1. TypeOK'
    <2>1. CASE TxConfig
      BY <2>1, <1>0 DEF AnyTraffic, TypeOK, TxSend
    <2>2. CASE TxDe
      BY <2>2 DEF AnyTraffic, TypeOK, TxSend
    <2>3. CASE TxEnable
      BY <2>3 DEF AnyTraffic, TypeOK
    <2> QED
      BY <2>1, <2>2, <2>3
  <1>2. KnownTokens' /\ irqOn' /\ ~tcF /\ pc' # "dispatch"
    BY DEF AnyTraffic, KnownTokens, Last, BootSteps, IrqPending
  <1>3. Sized' /\ ReplyInBuffer'
    BY <1>2 DEF AnyTraffic, Sized, ReplyInBuffer, AduLen
  <1>4. Stopped' /\ Completed' /\ DriverOn' /\ DriverKept'
    <2>0. txPos \in Nat /\ txLen \in Nat
      BY DEF AnyTraffic, TypeOK
    <2>1. CASE TxConfig
      BY <2>1, <1>0, <1>2 DEF AnyTraffic, Stopped, Completed, DriverOn, DriverKept
    <2>2. CASE TxDe
      BY <2>2, <1>2 DEF AnyTraffic, Stopped, Completed, DriverOn, DriverKept
    <2>3. CASE TxEnable
      BY <2>3, <2>0, <1>2 DEF AnyTraffic, Stopped, Completed, DriverOn, DriverKept
    <2> QED
      BY <2>1, <2>2, <2>3
  <1> QED
    BY <1>1, <1>2, <1>3, <1>4 DEF AnyTraffic

(* It holds at the start.                                                  *)
LEMMA InitAny == Init => AnyTraffic
  <1> SUFFICES ASSUME Init PROVE AnyTraffic
    OBVIOUS
  <1>1. TypeOK
    BY InitInv DEF IInv
  <1>2. KnownTokens
    BY <1>1 DEF Init, KnownTokens, None, Last
  <1>3. ReplyInBuffer
    BY TxBufAssumption DEF Init, ReplyInBuffer, NoReply, Reply, AduLen
  <1>4. Sized /\ Stopped /\ Completed /\ DriverOn /\ DriverKept /\ pc \in BootSteps
    BY DEF Init, Sized, Stopped, Completed, DriverOn, DriverKept, BootSteps
  <1> QED
    BY <1>1, <1>2, <1>3, <1>4 DEF AnyTraffic

(* Every step preserves it.                                                *)
LEMMA NextAny == ASSUME AnyTraffic, [Next]_vars PROVE AnyTraffic'
  <1>1. CASE UNCHANGED vars
    <2> USE <1>1 DEF vars, line, rx, tx, irq, task
    <2>1. TypeOK'
      BY DEF AnyTraffic, TypeOK
    <2>2. KnownTokens' /\ Sized' /\ ReplyInBuffer' /\ Stopped' /\ Completed' /\ DriverOn'
          /\ DriverKept'
      BY DEF AnyTraffic, KnownTokens, Last, Sized, ReplyInBuffer, Stopped, Completed, DriverOn,
         DriverKept, AduLen
    <2> QED
      BY <2>1, <2>2 DEF AnyTraffic
  <1>2. ASSUME NEW r \in Requests, StartAdu(r) PROVE AnyTraffic'
    BY <1>2, StartAduAny
  <1>3. CASE RxChar \/ RaiseIdle \/ TxChar \/ USART0_IRQHandler
    BY <1>3, RxCharAny, RaiseIdleAny, TxCharAny, HandlerAny
  <1>4. CASE mb_slave_init \/ mb_slv_port_rx_start
    BY <1>4, RxStartAny
  <1>5. CASE mb_slave_poll
    BY <1>5, ReadAny, ParseAny, DispatchAny DEF mb_slave_poll
  <1>6. CASE mb_slv_port_tx_send
    BY <1>6, TxSendAny
  <1> QED
    BY <1>1, <1>2, <1>3, <1>4, <1>5, <1>6 DEF Next, mb_slave_task
=============================================================================
