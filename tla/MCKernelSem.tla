----------------------------- MODULE MCKernelSem -----------------------------
(***************************************************************************)
(* Two tasks of one priority that wait for a finite time, and one above    *)
(* them that waits for ever.                                               *)
(***************************************************************************)
EXTENDS KernelSemInv, TLC

CONSTANTS high, mid, low

MCPriority == (high :> 3) @@ (mid :> 1) @@ (low :> 1)
MCWait     == (high :> Forever) @@ (mid :> 2) @@ (low :> 1)
=============================================================================
