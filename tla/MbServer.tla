------------------------------ MODULE MbServer ------------------------------
(***************************************************************************)
(* What the slave promises its master, with no wire, interrupt or task in  *)
(* it: of the ADUs put on the bus, those addressed to this slave and       *)
(* accepted by its parser are executed at most once each, whole, in the    *)
(* order they were sent, and each execution produces one reply.  An ADU    *)
(* may go unserved: a serial line loses requests.  MbSlave is shown to     *)
(* implement this module.                                                  *)
(***************************************************************************)
EXTENDS MbFrame

CONSTANTS
    MB_SLV_ADDR,   \* this slave's address, mb_slv_config.h
    Requests,      \* the ADUs a master (or another slave) may put on the bus
    MaxFrames      \* bound: ADUs in one behaviour

ASSUME ServerAssumption ==
    /\ MB_SLV_ADDR \in Byte
    /\ Requests \subseteq ADU
    /\ \A r \in Requests : Len(r.bytes) >= 1
    /\ MaxFrames \in Nat

VARIABLES
    hold_regs,   \* the holding registers
    bus,         \* every ADU put on the bus so far
    replies      \* what was executed: [req |-> index in bus, reply |-> ADU]

serverVars == <<hold_regs, bus, replies>>

(* Registers are words, and what was sent and answered is recorded whole.  *)
ServerTypeOK ==
    /\ hold_regs \in [Reg -> Word]
    /\ bus \in Seq(Requests)
    /\ replies \in Seq([req : Nat, reply : ADU])

ServerInit ==
    /\ hold_regs = [r \in Reg |-> 0]
    /\ bus = <<>>
    /\ replies = <<>>

Send(r) ==
    /\ Len(bus) < MaxFrames
    /\ bus' = Append(bus, r)
    /\ UNCHANGED <<hold_regs, replies>>

LastServed == IF replies = <<>> THEN 0 ELSE replies[Len(replies)].req

Addressed(adu) == adu.bytes[1] = MB_SLV_ADDR

(* One successful round of mb_slave_poll on the k-th ADU.                  *)
Serve(k) ==
    LET out == Dispatch(Header(bus[k]), Data(bus[k]), hold_regs)
    IN  /\ k > LastServed
        /\ Addressed(bus[k]) /\ Accepts(bus[k])
        /\ hold_regs' = out.regs
        /\ replies' = Append(replies, [req |-> k, reply |-> out.reply])
        /\ UNCHANGED bus

ServerNext == (\E r \in Requests : Send(r)) \/ (\E k \in 1..Len(bus) : Serve(k))

ServerSpec == ServerInit /\ [][ServerNext]_serverVars
-----------------------------------------------------------------------------
(* Properties of what the slave promises *)

(* The registers a request that was not refused touches.                   *)
Span(adu) ==
    LET f == Header(adu)
    IN  IF f.fc = FC06 THEN {f.start}
        ELSE f.start..(f.start + f.word - 1)

(* No request that was answered positively reaches outside hold_regs, even *)
(* when start + count passes 65535: mb_data_read and mb_data_write check   *)
(* the sum before they touch the array.                                    *)
AccessInBounds ==
    \A i \in 1..Len(replies) :
        ~IsException(replies[i].reply) => Span(bus[replies[i].req]) \subseteq Reg

(* Every reply, CRC included, fits in s_tx_buf (mb_slv.c), whatever the    *)
(* request asked for and however many registers there are.                 *)
ReplyFits ==
    \A i \in 1..Len(replies) : AduLen(replies[i].reply) <= TX_BUF_SIZE

(* A request refused with an exception leaves every register as it was: a  *)
(* write is checked as a whole before its first register is stored.        *)
RefusedChangesNothing ==
    [][ \A i \in 1..Len(replies') :
          i > Len(replies) /\ IsException(replies'[i].reply)
            => hold_regs' = hold_regs ]_serverVars

(* The word a write request carries for register r, where the protocol     *)
(* puts it: FC06 in its fifth and sixth byte, FC10 from its eighth byte on.*)
Sent(adu, r) ==
    LET f  == Header(adu)
        at == IF f.fc = FC06 THEN 5 ELSE 8 + 2 * (r - f.start)
    IN  U16(adu.bytes[at], adu.bytes[at + 1])

(* The registers whose writing a reply acknowledges.                       *)
Acknowledges(adu, reply) ==
    IF Header(adu).fc \in {FC06, FC10} /\ ~IsException(reply) THEN Span(adu) ELSE {}

Written(i) == Acknowledges(bus[replies[i].req], replies[i].reply)

(* mb_slv_data.c calls mb_data_write "write the register value": each      *)
(* register an acknowledged request names holds the word sent for it, and  *)
(* the others what they held.                                              *)
AcknowledgedIsStored ==
    [][ \A i \in 1..Len(replies') :
          i > Len(replies) =>
            \A r \in Reg :
              hold_regs'[r] = IF r \in Written(i)' THEN Sent(bus'[replies'[i].req], r)
                                                  ELSE hold_regs[r]
      ]_serverVars

(* The value of a read reply's j-th register, as the master decodes it.    *)
Decoded(reply, j) == U16(reply.bytes[2 * j + 2], reply.bytes[2 * j + 3])

(* A positive read returns what the registers hold at that moment, each at *)
(* its own place in the reply, and announces as many bytes as it carries.  *)
ReadIsFaithful ==
    [][ \A i \in 1..Len(replies') :
          LET adu == bus[replies'[i].req]
              f   == Header(adu)
              rep == replies'[i].reply
          IN  (i > Len(replies) /\ f.fc = FC03 /\ ~IsException(rep))
                => /\ Len(rep.bytes) = 3 + rep.bytes[3]
                   /\ rep.bytes[3] = 2 * f.word
                   /\ \A j \in 1..f.word :
                         Decoded(rep, j) = hold_regs[f.start + j - 1]
      ]_serverVars

(* Whether v is what the first m replies leave a master to expect in r:    *)
(* the word the last write of r carried, if that was an FC10, and 0 if r   *)
(* was never written.  (Of FC06 nothing: see AcknowledgedIsStored.)        *)
Expected(r, v, m) ==
    /\ (\A i \in 1..m : r \notin Written(i)) => v = 0
    /\ \A i \in 1..m :
          /\ r \in Written(i) /\ Header(bus[replies[i].req]).fc = FC10
          /\ \A k \in (i + 1)..m : r \notin Written(k)
          => v = Sent(bus[replies[i].req], r)

(* What a master reads is what masters wrote, wherever in the exchange     *)
(* that was: no write of other registers, refusal or foreign ADU between   *)
(* the two disturbs it, and the write's and the read's offsets and byte    *)
(* orders agree (mb_slv_data.c:59, mb_slv_frame.c:67-70).                  *)
ReadBack ==
    \A j \in 1..Len(replies) :
      LET adu == bus[replies[j].req]
          f   == Header(adu)
          rep == replies[j].reply
      IN  f.fc = FC03 /\ ~IsException(rep) =>
            \A n \in 1..f.word : Expected(f.start + n - 1, Decoded(rep, n), j - 1)
=============================================================================
