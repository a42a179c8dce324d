----------------------------- MODULE MCMbSlave ------------------------------
(* Instance of MbSlave for TLC.                                            *)
EXTENDS MbSlaveInv

Good(bytes) == [bytes |-> bytes, crcOk |-> TRUE]

Write11 == Good(<<8, 16, 0, 1, 0, 1, 2, 0, 7>>)      \* 11 characters
Read1   == Good(<<8, 3, 0, 1, 0, 1>>)                \* 8 characters
Foreign == Good(<<9, 3, 0, 0, 0, 1>>)
Garbled == [bytes |-> <<8, 6, 0, 0, 1, 1>>, crcOk |-> FALSE]
Short   == Good(<<8, 3>>)                            \* 4 characters
Full    == Good(<<9, 43, 0, 0, 0, 0, 0, 0, 0, 0>>)   \* fills rx_buf

(* Requests of every fate: executed, refused, another's, damaged, short.   *)
Traffic == {Write11, Read1, Foreign, Garbled, Short}
TwoKinds == {Write11, Foreign}
FullAdu == {Full, Read1}

(* Traffic between a master and another slave, which need not wait for     *)
(* this one to have started.                                               *)
Others == {Foreign}
=============================================================================
