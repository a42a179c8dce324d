------------------------------ MODULE MbFrame ------------------------------
(***************************************************************************)
(* The pure part of the Modbus RTU slave: parsing a request                *)
(* (mb_slv_frame.c), dispatching it on its function code (mb_slv_func.c),  *)
(* the holding registers it reads and writes (mb_slv_data.c) and the reply *)
(* it builds.                                                              *)
(*                                                                         *)
(* An ADU is a record [bytes, crcOk]: the bytes before the two CRC bytes,  *)
(* and whether those two match them.  TLA+ indexes sequences from 1, so    *)
(* the code's buf[i] is bytes[i + 1].                                      *)
(***************************************************************************)
EXTENDS Integers, Sequences

CONSTANTS
    HOLD_REG_COUNT,   \* number of holding registers, mb_slv_config.h
    TX_BUF_SIZE       \* size of s_tx_buf, mb_slv.c

ASSUME RegCountAssumption == HOLD_REG_COUNT \in Nat \ {0}
ASSUME TxBufAssumption == TX_BUF_SIZE \in Nat /\ TX_BUF_SIZE >= 256

Byte == 0..255
Word == 0..(2^16 - 1)
Reg  == 0..(HOLD_REG_COUNT - 1)

ADU == [bytes : Seq(Byte), crcOk : BOOLEAN]
AduLen(adu) == Len(adu.bytes) + 2

(* Big-endian words, as frame_get_u16_be and mb_data_write read them.      *)
U16(hi, lo) == hi * 256 + lo
Hi(w) == w \div 256
Lo(w) == w % 256

(***************************************************************************)
(* mb_slv_parse_request.  The slave ignores whatever Accepts refuses: too  *)
(* short, wrong CRC, or lengths and counts that contradict each other.     *)
(***************************************************************************)
MinLen == 8
FC03 == 3
FC06 == 6
FC10 == 16

Accepts(adu) ==
    LET b == adu.bytes
    IN  /\ AduLen(adu) >= MinLen
        /\ adu.crcOk
        /\ b[2] = FC03 => U16(b[5], b[6]) \in 1..125
        /\ b[2] = FC10 => /\ AduLen(adu) >= 9
                          /\ b[7] = U16(b[5], b[6]) * 2
                          /\ AduLen(adu) = 7 + b[7] + 2

(* The mb_slv_frame_t the parser fills in; "word" is the union reg_count / *)
(* reg_value.  The register data of FC10 is not copied: frame->data points *)
(* into the receive buffer, so it is an argument of Dispatch.  For another *)
(* function code the parser leaves start and count unset; the exception    *)
(* that answers it reads neither.                                          *)
Header(adu) ==
    LET b == adu.bytes
    IN  [slave_addr |-> b[1], fc |-> b[2],
         start |-> U16(b[3], b[4]), word |-> U16(b[5], b[6])]

Headers == [slave_addr : Byte, fc : Byte, start : Word, word : Word]

(* The bytes after the first seven: &buf[7].                               *)
Data(adu) == SubSeq(adu.bytes, 8, Len(adu.bytes))

(***************************************************************************)
(* mb_data_read and mb_data_write.  start + count is computed in int, so   *)
(* it does not wrap at 16 bits.                                            *)
(***************************************************************************)
InRange(start, count) == start + count <= HOLD_REG_COUNT

(* Mutant: a read sends the bytes of each register in memory order.        *)
ReadRegsUnswapped(regs, start, count) ==
    [i \in 1..(2 * count) |->
        LET w == regs[start + (i - 1) \div 2]
        IN  IF i % 2 = 1 THEN Lo(w) ELSE Hi(w)]

ReadRegs(regs, start, count) ==
    [i \in 1..(2 * count) |->
        LET w == regs[start + (i - 1) \div 2]
        IN  IF i % 2 = 1 THEN Hi(w) ELSE Lo(w)]

(* Mutant: values are taken low byte first, which suits FC06 only.         *)
WriteRegsLowFirst(regs, start, count, data) ==
    [r \in Reg |-> IF r >= start /\ r < start + count
                     THEN U16(data[2 * (r - start) + 2], data[2 * (r - start) + 1])
                     ELSE regs[r]]

WriteRegs(regs, start, count, data) ==
    [r \in Reg |-> IF r >= start /\ r < start + count
                     THEN U16(data[2 * (r - start) + 1], data[2 * (r - start) + 2])
                     ELSE regs[r]]

(* mb_slv_build_*: the reply's bytes before its CRC, which always matches. *)
Reply(bytes) == [bytes |-> bytes, crcOk |-> TRUE]

(* Mutant: 0x80 is added to the function code, not or-ed into it.          *)
ExceptionAdded(f, code) == Reply(<<f.slave_addr, f.fc + 128, code>>)

Exception(f, code) == Reply(<<f.slave_addr, (f.fc % 128) + 128, code>>)

(* Mutant: a read reply repeats the start address before its data.         *)
ReadReplyWithStart(f, payload) ==
    Reply(<<f.slave_addr, f.fc, (2 * f.word) % 256, Hi(f.start), Lo(f.start)>> \o payload)

ReadReply(f, payload) == Reply(<<f.slave_addr, f.fc, (2 * f.word) % 256>> \o payload)
EchoReply(f) ==
    Reply(<<f.slave_addr, f.fc, Hi(f.start), Lo(f.start), Hi(f.word), Lo(f.word)>>)

IsException(reply) == reply.bytes[2] >= 128

(* FC06 hands mb_data_write the address of the 16-bit frame->reg_value: on *)
(* the little-endian Cortex-M4 its low byte comes first in memory.         *)
ValueInMemory(f) == <<Lo(f.word), Hi(f.word)>>

(***************************************************************************)
(* mb_func_dispatch, as the outcome of one request: the registers after it *)
(* and the reply left in the transmit buffer.                              *)
(***************************************************************************)
Outcome(regs, reply) == [regs |-> regs, reply |-> reply]

DispatchRead(f, regs) ==
    IF ~(f.word \in 1..125) THEN Outcome(regs, Exception(f, 3))
    ELSE IF ~InRange(f.start, f.word) THEN Outcome(regs, Exception(f, 2))
    ELSE Outcome(regs, ReadReply(f, ReadRegs(regs, f.start, f.word)))

DispatchWriteOne(f, regs) ==
    IF ~InRange(f.start, 1) THEN Outcome(regs, Exception(f, 2))
    ELSE Outcome(WriteRegs(regs, f.start, 1, ValueInMemory(f)), EchoReply(f))

(* Mutant: the sum start + count wraps at 16 bits.                         *)
DispatchWriteManyWrapped(f, data, regs) ==
    IF ~(f.word \in 1..123) THEN Outcome(regs, Exception(f, 3))
    ELSE IF ~InRange((f.start + f.word) % 65536, 0) THEN Outcome(regs, Exception(f, 2))
    ELSE Outcome(WriteRegs(regs, f.start, f.word, data), EchoReply(f))

(* Mutant: registers are stored up to the first that does not exist.       *)
DispatchWriteManyPartly(f, data, regs) ==
    IF ~(f.word \in 1..123) THEN Outcome(regs, Exception(f, 3))
    ELSE Outcome(WriteRegs(regs, f.start, f.word, data),
                 IF InRange(f.start, f.word) THEN EchoReply(f) ELSE Exception(f, 2))

DispatchWriteMany(f, data, regs) ==
    IF ~(f.word \in 1..123) THEN Outcome(regs, Exception(f, 3))
    ELSE IF ~InRange(f.start, f.word) THEN Outcome(regs, Exception(f, 2))
    ELSE Outcome(WriteRegs(regs, f.start, f.word, data), EchoReply(f))

Dispatch(f, data, regs) ==
    CASE f.fc = FC03 -> DispatchRead(f, regs)
      [] f.fc = FC06 -> DispatchWriteOne(f, regs)
      [] f.fc = FC10 -> DispatchWriteMany(f, data, regs)
      [] OTHER -> Outcome(regs, Exception(f, 1))
=============================================================================
