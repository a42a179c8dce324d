------------------------------ MODULE MCBspUart ------------------------------
(***************************************************************************)
(* Two messages: one shorter, one longer than what the transmitter holds.  *)
(***************************************************************************)
EXTENDS BspUart, TLC

CONSTANTS a, b, short, long

MCSize == (short :> 1) @@ (long :> 3)
=============================================================================
