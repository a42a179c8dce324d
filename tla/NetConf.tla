------------------------------- MODULE NetConf --------------------------------
(***************************************************************************)
(* The network's main loop (netconf.c): lwip_timeouts_check runs lwIP's    *)
(* timers when their periods have passed on a 32-bit clock, and            *)
(* lwip_dhcp_address_get follows the DHCP client until it has an address   *)
(* or has tried too often, and then falls back to the static address.      *)
(***************************************************************************)
EXTENDS Dhcp

CONSTANTS Timers,     (* "tcp", "arp", "fine", "coarse"                    *)
          Period,     (* the period of each                                *)
          Modulus,    (* 2^32: where the clock wraps                       *)
          MaxGap      (* the longest time between two calls of the loop    *)

ASSUME TimerAssumption ==
    /\ {"fine", "coarse"} \subseteq Timers
    /\ Period \in [Timers -> Nat \ {0}]
    /\ Modulus \in Nat /\ MaxGap \in Nat
    /\ \A t \in Timers : Period[t] + MaxGap <= Modulus

VARIABLES
    curtime,          (* g_localtime, as the loop last read it             *)
    last,             (* tcpcurtime, arpcurtime, finecurtime, ...          *)
    dhcp_addr_status, (* DHCP_ADDR_NONE, BEGIN, GOT, FAIL                  *)
    client,           (* g_mynetif and its struct dhcp                     *)
    passed,           (* history: time since each timer last ran           *)
    lease             (* history: the lease last acknowledged              *)

vars == <<curtime, last, dhcp_addr_status, client, passed, lease>>

DHCP_TRIES_MAX_TIMES == 4

Init ==
    /\ curtime = 0 /\ last = [t \in Timers |-> 0]
    /\ dhcp_addr_status = "NONE" /\ client = Cleared(AnyAddr)
    /\ passed = [t \in Timers |-> 0] /\ lease = 0

-----------------------------------------------------------------------------
(* lwip_timeouts_check.                                                    *)

Minus(a, b) == IF a >= b THEN a - b ELSE a - b + Modulus    \* uint32_t

DueNaive(t, now) == now >= last[t] + Period[t]  \* Mutant: compares instants

Due(t, now) == Minus(now, last[t]) >= Period[t]

(* lwip_dhcp_address_get, as the pair of its effects on the status and on  *)
(* the client.                                                             *)
Got(c) == dhcp_addr_status = "BEGIN" /\ c.addr # AnyAddr

GaveUpLater(c) ==   \* Mutant: 6 tries where the client starts over after 6
    /\ dhcp_addr_status = "BEGIN" /\ c.addr = AnyAddr
    /\ c.tries > DHCP_TRIES_MAX_TIMES + 2

GaveUp(c) ==
    /\ dhcp_addr_status = "BEGIN" /\ c.addr = AnyAddr
    /\ c.tries > DHCP_TRIES_MAX_TIMES

GetUnstopped(c) ==  \* Mutant: the client is not stopped
    CASE dhcp_addr_status = "NONE" -> <<"BEGIN", dhcp_start(c)>>
      [] Got(c)    -> <<"GOT", c>>
      [] GaveUp(c) -> <<"FAIL", [c EXCEPT !.addr = BoardAddr]>>
      [] OTHER     -> <<dhcp_addr_status, c>>

lwip_dhcp_address_get(c) ==
    CASE dhcp_addr_status = "NONE" -> <<"BEGIN", dhcp_start(c)>>
      [] Got(c)    -> <<"GOT", c>>
      [] GaveUp(c) -> <<"FAIL", [dhcp_release_and_stop(c) EXCEPT !.addr = BoardAddr]>>
      [] OTHER     -> <<dhcp_addr_status, c>>

(* The branch of the fine timer, then that of the coarse timer.            *)
Fine(now) ==
    IF Due("fine", now) THEN lwip_dhcp_address_get(dhcp_fine_tmr(client))
    ELSE <<dhcp_addr_status, client>>

lwip_timeouts_check(now) ==
    /\ last' = [t \in Timers |-> IF Due(t, now) THEN now ELSE last[t]]
    /\ dhcp_addr_status' = Fine(now)[1]
    /\ client' = IF Due("coarse", now) THEN dhcp_coarse_tmr(Fine(now)[2])
                 ELSE Fine(now)[2]

(* Time passes, and the loop comes round.                                  *)
Poll ==
    \E d \in 1..MaxGap :
        LET now == IF curtime + d < Modulus THEN curtime + d ELSE curtime + d - Modulus
        IN  /\ curtime' = now
            /\ lwip_timeouts_check(now)
            /\ passed' = [t \in Timers |-> IF Due(t, now) THEN 0 ELSE passed[t] + d]
            /\ lease' = lease

(* lwip_frame_recv gets a reply of the running transaction, late or twice  *)
(* as it may be.                                                           *)
Receive(type, a, l) ==
    /\ client.state # "OFF"
    /\ client' = dhcp_recv(client, type, a, l)
    /\ lease' = IF type = "ACK" /\ client.state \in Awaiting THEN l ELSE lease
    /\ UNCHANGED <<curtime, last, dhcp_addr_status, passed>>

Next ==
    \/ Poll
    \/ \E type \in {"OFFER", "ACK", "NAK"}, a \in Addresses, l \in Leases :
            Receive(type, a, l)

Spec == Init /\ [][Next]_vars

(* The loop never stops.                                                   *)
FairSpec == Spec /\ WF_vars(Poll)

-----------------------------------------------------------------------------
(* The types of the loop's and the client's state.                         *)
TypeOK ==
    /\ curtime \in 0..(Modulus - 1) /\ last \in [Timers -> 0..(Modulus - 1)]
    /\ dhcp_addr_status \in {"NONE", "BEGIN", "GOT", "FAIL"}
    /\ client \in Client
    /\ passed \in [Timers -> Nat] /\ lease \in 0..u32_max

(* The interface has the static address exactly when the loop has given    *)
(* up, with the client off for good, whatever replies still come in; any   *)
(* other address is the one last acknowledged and its lease runs.          *)
AddressJustified ==
    /\ dhcp_addr_status = "FAIL" <=> client.addr = BoardAddr
    /\ client.addr = BoardAddr => client.state = "OFF"
    /\ client.addr \in Addresses =>
          /\ dhcp_supplied_address(client) /\ client.addr = client.offered
          /\ client.t0_timeout = 0 \/ client.lease_used < client.t0_timeout

(* A timer runs exactly when its period has really passed since it last    *)
(* ran, across the clock's wrap and whenever the loop comes round.         *)
Punctual ==
    [][curtime' # curtime =>
         \A t \in Timers : (passed'[t] = 0) <=>
                (passed[t] + Minus(curtime', curtime) >= Period[t])]_vars

(* An address is given up only after the client has asked to keep it, if   *)
(* half of its lease, counted in minutes as SET_TIMEOUT_FROM_OFFERED does, *)
(* is less than the whole: from 91 days on both are 65535 minutes, and the *)
(* lease runs out (dhcp_coarse_tmr looks at it first) without a request.   *)
RenewedFirst ==
    [][client.addr \in Addresses /\ client'.addr = AnyAddr
         /\ lease # u32_max /\ SetTimeout(lease \div 2) < SetTimeout(lease)
       => client.state \in {"RENEWING", "REBINDING"}]_vars

(* An address leased without end does not expire: "this clients' lease     *)
(* time has expired" (dhcp.c) is said of leases that have run out.         *)
EndlessKept ==
    [][client.addr \in Addresses /\ client'.addr = AnyAddr /\ curtime' # curtime
       => lease # u32_max]_vars

Nak    == /\ curtime' = curtime
          /\ client.state \in Awaiting /\ client'.state = "SELECTING"
Expiry == curtime' # curtime /\ Expiring(client) /\ client'.t0_timeout = 0

(* Whether servers are silent, lose messages or offer and never            *)
(* acknowledge: unless one refuses again and again, or leases run out      *)
(* before the loop has looked, the loop has an address in the end, or      *)
(* falls back.  It counts up to 5 tries where the client itself starts     *)
(* over after 6.                                                           *)
Settles ==
    <>[][~Nak /\ ~Expiry]_vars => <>(dhcp_addr_status \in {"GOT", "FAIL"})

=============================================================================
