---------------------------- MODULE MCMbServer ------------------------------
(* Instance of MbServer for TLC: requests at every boundary of the code.   *)
EXTENDS MbServer

Good(bytes) == [bytes |-> bytes, crcOk |-> TRUE]
Bad(bytes)  == [bytes |-> bytes, crcOk |-> FALSE]

Read(start, count)  == Good(<<8, 3, Hi(start), Lo(start), Hi(count), Lo(count)>>)
WriteOne(start, v)  == Good(<<8, 6, Hi(start), Lo(start), Hi(v), Lo(v)>>)
WriteMany(start, count, data) ==
    Good(<<8, 16, Hi(start), Lo(start), Hi(count), Lo(count), (2 * count) % 256>> \o data)

Zeros(n) == [i \in 1..n |-> 0]

(* Reads and writes inside, across and beyond the last register, sums that *)
(* pass 65535, counts at and past the limits, and what the parser drops.   *)
BoundaryRequests ==
    { Read(0, 2), Read(1, HOLD_REG_COUNT - 1), Read(1, 125), Read(0, 125), Read(0, 126),
      Read(65535, 1), Read(HOLD_REG_COUNT - 1, 2),
      WriteMany(0, 2, <<18, 52, 0, 255>>), WriteMany(HOLD_REG_COUNT - 1, 1, <<1, 2>>),
      WriteMany(HOLD_REG_COUNT - 1, 2, <<5, 6, 7, 8>>),
      WriteMany(65535, 2, <<5, 6, 7, 8>>), WriteMany(65535, 124, Zeros(248)),
      WriteMany(0, 124, [i \in 1..248 |-> 9]), WriteMany(0, 0, <<>>),
      WriteMany(1, 1, <<0, 7>>), WriteOne(1, 258), WriteOne(HOLD_REG_COUNT, 258),
      Good(<<8, 7, 0, 0, 0, 0>>), Good(<<8, 131, 0, 0, 0, 1>>),
      Good(<<9, 3, 0, 0, 0, 1>>), Bad(<<8, 6, 0, 1, 9, 9>>), Good(<<8, 3, 0, 0>>),
      Good(<<8, 16, 0, 0, 0, 2, 4, 1, 2>>) }

(* FC06 with a value whose two bytes differ.                               *)
SingleWrites == { WriteOne(0, 1), WriteOne(1, 4660), Read(0, 2) }
=============================================================================
