------------------------------- MODULE MCEthIf --------------------------------
(***************************************************************************)
(* Two descriptors a direction (the repository has five): both rings get   *)
(* full, wrap, and are seen empty by the DMA.                              *)
(***************************************************************************)
EXTENDS EthIf
=============================================================================
