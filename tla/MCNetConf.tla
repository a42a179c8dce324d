------------------------------ MODULE MCNetConf ------------------------------
(***************************************************************************)
(* A clock that wraps after 8 quarters of a second, a coarse timer of one  *)
(* second, and timeouts cut down to at most five ticks: leases of one and  *)
(* of three minutes, one that with its half is cut down to five, and the   *)
(* lease without end.                                                      *)
(***************************************************************************)
EXTENDS NetConf, TLC

CONSTANTS x, y

MCPeriod == ("tcp" :> 1) @@ ("arp" :> 4) @@ ("fine" :> 2) @@ ("coarse" :> 4)
MCBackOff == <<1, 1, 2, 2, 3, 3, 3, 3>>
=============================================================================
