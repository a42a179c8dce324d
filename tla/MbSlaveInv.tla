----------------------------- MODULE MbSlaveInv -----------------------------
(***************************************************************************)
(* The inductive invariant behind the safety properties of MbSlave, for a  *)
(* bus on which turns are taken (TurnTaking = TRUE).  The argument: an ADU *)
(* that no pause has split is handed over to the task exactly once, and    *)
(* from that moment to the TC interrupt of its reply nothing else happens  *)
(* in the slave; an ADU that a pause has split is never found whole in     *)
(* rx_buf; so only an unsplit ADU is ever dispatched.                      *)
(***************************************************************************)
EXTENDS MbSlave

Last    == Len(bus)
LastLen == AduLen(bus[Last])

(* The first character of the last ADU is still in its place, and no pause *)
(* has split that ADU.                                                     *)
Intact == bus # <<>> /\ gaps = 0 /\ rx_buf[0] = <<Last, 1>>

Serving == {"dispatch"} \cup TxSend

NoFlag == ~idleF /\ ~tcF
Silent == ~Sending /\ ~heard /\ rdr = None

(* Waiting in xSemaphoreTake, the transmitter at rest.                     *)
AtRest == pc = "take" /\ sem = 0 /\ ~txEn /\ ~tcF

(* The stages an intact ADU goes through.                                  *)
Arriving  == AtRest /\ rxEn /\ rdr = None /\ ~idleF /\ heard /\ pos >= 1
                /\ Counted \in {pos, pos - RX_BUF_SIZE}
Arrived   == AtRest /\ rxEn /\ rdr = None /\ idleF /\ ~heard /\ ~Sending
Given     == pc = "take" /\ sem = 1 /\ ~txEn /\ ~rxEn /\ NoFlag /\ Silent
Handled   == /\ pc \in Reading \cup TxSend \cup RxStart
             /\ sem = 0 /\ ~txEn /\ ~rxEn /\ NoFlag /\ Silent
Replying  == /\ pc = "take" /\ sem = 0 /\ txEn /\ ~rxEn /\ ~idleF /\ ~Sending
             /\ heard => rdr # None
             /\ rdr[1] = 0
             /\ tcF <=> ~Transmitting
Finished  == AtRest /\ ~idleF /\ Silent /\ (rxEn => Counted = 0)

IntactStages ==
    Intact => Arriving \/ Arrived \/ Given \/ Handled \/ Replying \/ Finished

Progress == bus # <<>> => pos <= LastLen

(* Start-up, before anything was put on the bus.                           *)
Booting ==
    bus = <<>> =>
        /\ pc \in BootSteps \cup RxStart \cup {"take"}
        /\ sem = 0 /\ ~idleF /\ ~heard /\ rdr = None /\ rxCnt = RX_BUF_SIZE
        /\ ~txEn /\ gaps = 0 /\ pos = 0 /\ replies = <<>>

UartOn == pc # "uart_enable" => uartOn

InterruptsOn ==
    /\ pc \notin BootSteps => irqOn
    /\ bus # <<>> => irqOn /\ pc \notin BootSteps
    /\ tcF /\ irqOn /\ bus = <<>> => pc = "rx_disable"

(* An ADU whose first character has not come finds the slave settled.      *)
Fresh ==
    bus # <<>> /\ pos = 0 =>
        AtRest /\ ~idleF /\ gaps = 0 /\ ~heard /\ rdr = None /\ rxEn /\ Counted = 0

(* Replies, and everything that leads to one, belong to an intact ADU.     *)
OnlyIntactServed ==
    pc \in Serving \/ txEn \/ (tcF /\ bus # <<>>) => Intact

(* An ADU still arriving, with no pause so far, is intact.                 *)
UnsplitIntact == Sending /\ pos > 0 /\ gaps = 0 => Intact

(* A receiver that is armed with nothing heard has nothing counted.        *)
Rested == rxEn /\ ~heard /\ ~idleF => Counted = 0

(* Where the characters are.                                               *)
NoFutureTokens ==
    \A i \in 0..(RX_BUF_SIZE - 1) :
        /\ rx_buf[i][1] <= Last
        /\ bus # <<>> /\ rx_buf[i][1] = Last => rx_buf[i][2] <= pos

FirstPlace ==
    bus # <<>> /\ pos > 0 => rx_buf[0][1] \in {0, Last}

DataRegister ==
    rdr # None => /\ bus # <<>>
                  /\ ~rxEn /\ (heard \/ idleF)
                  /\ \/ rdr[1] = 0 /\ Intact /\ txEn
                     \/ rdr[1] = Last /\ rdr[2] \in 2..pos /\ gaps > 0

(* After a pause the counter lags behind the ADU, so its last character    *)
(* never reaches the place it has in a whole ADU.                          *)
Lagging ==
    gaps > 0 =>
        /\ bus # <<>> /\ pos > 0
        /\ rxEn /\ ~idleF => Counted < pos
        /\ rx_buf[LastLen - 1] # <<Last, LastLen>>

(* From its first statement on, mb_slv_port_rx_start has the channel to    *)
(* itself: no interrupt re-arms it in between.                             *)
Reloaded ==
    /\ pc \in {"rx_reload", "rx_enable"} => ~rxEn
    /\ pc = "rx_enable" => rxCnt = RX_BUF_SIZE

(* What the dispatcher works on is still what the parser accepted.         *)
FrameParsed ==
    pc = "dispatch" => Accepts(Buffered(len)) /\ frame = Header(Buffered(len))

AddrChecked ==
    pc \in {"parse", "dispatch"} /\ Intact => Server!Addressed(bus[Last])

Driver == de => pc = "tx_enable" \/ txEn
DriverOn == pc = "tx_enable" \/ txEn => de

ReplyPending ==
    /\ pc \in {"tx_de", "tx_enable"} => txPos = 0
    /\ pc \in {"tx_de", "tx_enable"} \/ txEn => txLen = AduLen(s_tx_buf)
    /\ txEn => txPos <= txLen

(* An ADU still on its way to the dispatcher has not been served before.   *)
Unserved ==
    \/ bus # <<>> /\ pos = 0
    \/ Intact /\ (Arriving \/ Arrived \/ Given \/ pc \in Reading)

History ==
    /\ \A i \in 1..Len(replies) : replies[i].req \in 1..Last
    /\ Server!LastServed <= Last
    /\ Unserved => Server!LastServed < Last

(* The replies on the wire are all that were dispatched but the one the    *)
(* transmitter still has to finish.                                        *)
Outstanding == pc \in TxSend \/ Transmitting

WireHistory ==
    /\ Len(wire) = Len(replies) - (IF Outstanding THEN 1 ELSE 0)
    /\ \A i \in 1..Len(wire) : wire[i] = replies[i].reply
    /\ Outstanding => s_tx_buf = replies[Len(replies)].reply

(* The whole: where the characters of the last ADU are, which stage it has *)
(* reached, what the task works on, and what has been answered.            *)
IInv ==
    /\ TypeOK
    /\ Progress
    /\ IntactStages /\ Booting /\ UartOn /\ InterruptsOn /\ Fresh /\ OnlyIntactServed
    /\ UnsplitIntact /\ Rested
    /\ NoFutureTokens /\ FirstPlace /\ DataRegister /\ Lagging /\ Reloaded
    /\ FrameParsed /\ AddrChecked /\ Driver /\ DriverOn /\ ReplyPending
    /\ History /\ WireHistory
-----------------------------------------------------------------------------
(* While the rest of an ADU arrives that one pause has split, the receive  *)
(* channel is off whenever the task has its first part in hand or is about *)
(* to.  Not part of IInv: two pauses in one ADU break it.                  *)
OnePause ==
    Sending /\ gaps > 0 =>
        /\ idleF => pc = "take" /\ sem = 0
        /\ sem = 1 => pc = "take" /\ ~rxEn
        /\ pc \in Reading => ~rxEn

(* A slave that waits, with no interrupt and no reply to come, waits with  *)
(* its receiver armed: what ListensAgain rests on.                         *)
NeverDeaf ==
    pc = "take" /\ sem = 0 /\ ~IrqPending /\ ~Transmitting => rxEn

(* And the IDLE that ends what it receives finds something counted: a      *)
(* character heard has been fetched, or waits in the data register for the *)
(* channel to be enabled.                                                  *)
Listening ==
    /\ NeverDeaf
    /\ heard /\ rxEn => pc = "take" /\ sem = 0 /\ Counted > 0
    /\ heard /\ ~rxEn => rdr # None
    /\ heard /\ sem = 1 => pc = "take" /\ ~rxEn
    /\ idleF => ~heard /\ (pc = "take" /\ sem = 0 /\ ~tcF => Counted > 0)
    /\ Sending /\ gaps > 0 /\ pc \in RxStart => ~rxEn
-----------------------------------------------------------------------------
(* What holds whatever is sent and when, also by a master that does not    *)
(* wait for its answer: the sizes of what is read and written, and the     *)
(* driver-enable pin.                                                      *)

(* Every character in the receiver belongs to an ADU on the bus or to a    *)
(* reply.                                                                  *)
KnownTokens ==
    /\ \A i \in 0..(RX_BUF_SIZE - 1) : rx_buf[i][1] <= Last
    /\ rdr[1] <= Last

(* The part of AnyTraffic that speaks of the receiver.                     *)
Receiver ==
    /\ heard \in BOOLEAN /\ uartOn \in BOOLEAN /\ rxEn \in BOOLEAN
    /\ rdr \in Tokens /\ rxCnt \in 1..RX_BUF_SIZE
    /\ rx_buf \in [0..(RX_BUF_SIZE - 1) -> Tokens]
    /\ KnownTokens

(* What the dispatcher reads of the receive buffer is as long as the       *)
(* header says, though characters may have changed there since.            *)
Sized ==
    pc = "dispatch" =>
        /\ len >= MinLen
        /\ frame.fc = FC10 => len = 9 + 2 * frame.word

ReplyInBuffer == AduLen(s_tx_buf) <= TX_BUF_SIZE

(* From the stop of the channel to its start nothing transmits and no TC   *)
(* is pending; a transfer that is complete has raised TC.                  *)
Stopped == pc \in {"tx_de", "tx_enable"} => ~txEn /\ ~tcF /\ txPos = 0 /\ txLen >= 2
Completed == txEn => txPos <= txLen /\ (txPos = txLen => tcF)
DriverKept == de => txEn \/ pc \in {"tx_de", "tx_enable"}

(* The whole.  No TurnTaking is assumed for it.                            *)
AnyTraffic ==
    /\ TypeOK
    /\ pc \notin BootSteps => irqOn
    /\ KnownTokens /\ Sized /\ ReplyInBuffer
    /\ Stopped /\ Completed /\ DriverOn /\ DriverKept
=============================================================================
