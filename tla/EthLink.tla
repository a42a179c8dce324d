------------------------------- MODULE EthLink --------------------------------
(***************************************************************************)
(* What the network interface promises lwIP: frames given to it go onto    *)
(* the wire unchanged and in order, and what it hands up are frames of the *)
(* wire, unchanged, intact, in order and once; it may lose frames on the   *)
(* way in, never on the way out.                                           *)
(***************************************************************************)
EXTENDS Sequences

CONSTANTS Frames, Damaged, None

VARIABLES asked,   (* the frame the stack has given and waits with         *)
          txq,     (* frames on their way out                              *)
          wire,    (* the frame sent last                                  *)
          rxq,     (* frames on their way in                               *)
          up       (* the frame handed up last                             *)

vars == <<asked, txq, wire, rxq, up>>

Init == asked = None /\ txq = <<>> /\ wire = None /\ rxq = <<>> /\ up = None

Ask == /\ asked = None /\ asked' \in Frames
       /\ UNCHANGED <<txq, wire, rxq, up>>

Accept == /\ asked # None /\ asked' = None
          /\ txq' = Append(txq, asked)
          /\ UNCHANGED <<wire, rxq, up>>

Send == /\ txq # <<>> /\ wire' = Head(txq) /\ txq' = Tail(txq)
        /\ UNCHANGED <<asked, rxq, up>>

Arrive == /\ \E f \in Frames \cup {Damaged} : rxq' = Append(rxq, f)
          /\ UNCHANGED <<asked, txq, wire, up>>

Hand == /\ rxq # <<>> /\ Head(rxq) # Damaged
        /\ up' = Head(rxq) /\ rxq' = Tail(rxq)
        /\ UNCHANGED <<asked, txq, wire>>

Discard == /\ rxq # <<>> /\ rxq' = Tail(rxq)
           /\ UNCHANGED <<asked, txq, wire, up>>

Next == Ask \/ Accept \/ Send \/ Arrive \/ Hand \/ Discard

Spec == Init /\ [][Next]_vars
=============================================================================
