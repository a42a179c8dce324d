--------------------------------- MODULE Dhcp ---------------------------------
(***************************************************************************)
(* lwIP's DHCP client (dhcp.c) on the one interface of the board, as       *)
(* functions of a record that holds what struct dhcp and the interface's   *)
(* address keep between calls.  NO_SYS is 1: every call runs to its end in *)
(* the main loop, so that each handler is one step.  The link is set up    *)
(* once, before the client exists: dhcp_reboot is never reached.  ACD is   *)
(* off, so that an acknowledged address is bound at once.                  *)
(***************************************************************************)
EXTENDS Integers

CONSTANTS Addresses,    (* the addresses servers give                      *)
          AnyAddr,      (* IP4_ADDR_ANY4: no address                       *)
          BoardAddr,    (* BOARD_IP_ADDR, the static address               *)
          Leases,       (* the lease times servers give, in seconds        *)
          u32_max,      (* 0xffffffff, also the lease that never ends      *)
          timeout_max,  (* 0xffff, the largest dhcp_timeout_t              *)
          tries_max,    (* 255, where tries stops counting                 *)
          BackOff       (* DHCP_REQUEST_BACKOFF_SEQUENCE, in fine ticks    *)

ASSUME AddrAssumption ==
    AnyAddr \notin Addresses /\ BoardAddr \notin Addresses /\ AnyAddr # BoardAddr
ASSUME LeaseAssumption == u32_max \in Nat \ {0} /\ Leases \subseteq 0..u32_max
ASSUME CounterAssumption ==
    /\ timeout_max \in Nat \ {0} /\ tries_max \in Nat \ {0}
    /\ BackOff \in [1..tries_max -> Nat \ {0}]

COARSE_SECS == 60           \* DHCP_COARSE_TIMER_SECS
NEXT_TIMEOUT_THRESHOLD == 1 \* DHCP_NEXT_TIMEOUT_THRESHOLD

States == {"OFF", "SELECTING", "REQUESTING", "BOUND", "RENEWING", "REBINDING",
           "BACKING_OFF"}

Client == [addr : Addresses \cup {AnyAddr, BoardAddr},     \* of the interface
           state : States, tries : 0..tries_max, request_timeout : Nat,
           offered : Addresses \cup {AnyAddr},             \* offered_ip_addr
           t0_timeout : Nat, t2_timeout : Nat, lease_used : Nat,
           t1_renew_time : Nat, t2_rebind_time : Nat]

(* A cleared struct dhcp; without a client the timers do as little as with *)
(* one that is off.                                                        *)
Cleared(addr) ==
    [addr |-> addr, state |-> "OFF", tries |-> 0, request_timeout |-> 0,
     offered |-> AnyAddr, t0_timeout |-> 0, t2_timeout |-> 0, lease_used |-> 0,
     t1_renew_time |-> 0, t2_rebind_time |-> 0]

-----------------------------------------------------------------------------
(* The client's own steps.                                                 *)

dhcp_set_state(c, s) ==
    IF c.state = s THEN c
    ELSE [c EXCEPT !.state = s, !.tries = 0, !.request_timeout = 0]

(* A message goes out, or is lost for want of memory.  The timeout of a    *)
(* renewal or a rebinding has no effect (dhcp_timeout).                    *)
Tried(n) == IF n < tries_max THEN n + 1 ELSE n

Sent(c) == [c EXCEPT !.tries = Tried(c.tries),
                     !.request_timeout = BackOff[Tried(c.tries)]]

dhcp_discover(c) == Sent(dhcp_set_state([c EXCEPT !.offered = AnyAddr], "SELECTING"))
dhcp_select(c)   == Sent(dhcp_set_state(c, "REQUESTING"))

Extend(c, s) == LET d == dhcp_set_state(c, s) IN [d EXCEPT !.tries = Tried(d.tries)]
dhcp_renew(c)  == Extend(c, "RENEWING")
dhcp_rebind(c) == Extend(c, "REBINDING")

dhcp_supplied_address(c) == c.state \in {"BOUND", "RENEWING", "REBINDING"}

(* The memory for the client and its PCB is there.                         *)
dhcp_start(c) == dhcp_discover(Cleared(c.addr))

dhcp_release_and_stop(c) ==
    IF c.state = "OFF" THEN c
    ELSE [dhcp_set_state(c, "OFF") EXCEPT
            !.offered = AnyAddr, !.t1_renew_time = 0, !.t2_rebind_time = 0,
            !.lease_used = 0, !.t0_timeout = 0,
            !.addr = IF dhcp_supplied_address(c) THEN AnyAddr ELSE @]

SetTimeout(secs) ==     \* SET_TIMEOUT_FROM_OFFERED, in 32 bits
    LET t == ((secs + COARSE_SECS \div 2) % (u32_max + 1)) \div COARSE_SECS
    IN  CASE t = 0 -> 1 [] t > timeout_max -> timeout_max [] OTHER -> t

BindUnarmed(c, a, lease) ==     \* Mutant: the countdowns are not loaded
    [dhcp_set_state(c, "BOUND") EXCEPT
        !.lease_used = 0, !.offered = a, !.addr = a,
        !.t0_timeout = IF lease = u32_max THEN @ ELSE SetTimeout(lease),
        !.t2_timeout = SetTimeout(((lease * 7) % (u32_max + 1)) \div 8)]

(* dhcp_handle_ack without T1 and T2 options, then dhcp_bind.  A lease     *)
(* without end leaves t0_timeout as it was.                                *)
dhcp_bind(c, a, lease) ==
    LET t2 == SetTimeout(((lease * 7) % (u32_max + 1)) \div 8)
    IN  [dhcp_set_state(c, "BOUND") EXCEPT
            !.lease_used = 0, !.offered = a, !.addr = a,
            !.t0_timeout = IF lease = u32_max THEN @ ELSE SetTimeout(lease),
            !.t1_renew_time = SetTimeout(lease \div 2),
            !.t2_timeout = t2, !.t2_rebind_time = t2]

-----------------------------------------------------------------------------
(* dhcp_recv: a reply of the running transaction; one of an earlier        *)
(* transaction is dropped for its xid.                                     *)

dhcp_handle_offer(c, a) ==
    dhcp_select([c EXCEPT !.request_timeout = 0, !.offered = a])

dhcp_handle_nak(c) ==
    dhcp_discover([dhcp_set_state(c, "BACKING_OFF") EXCEPT !.addr = AnyAddr])

Awaiting == {"REQUESTING", "RENEWING", "REBINDING"}

dhcp_recv(c, type, a, lease) ==
    CASE type = "ACK"   /\ c.state \in Awaiting    -> dhcp_bind(c, a, lease)
      [] type = "NAK"   /\ c.state \in Awaiting    -> dhcp_handle_nak(c)
      [] type = "OFFER" /\ c.state = "SELECTING"   -> dhcp_handle_offer(c, a)
      [] OTHER                                     -> c

-----------------------------------------------------------------------------
(* The timers.                                                             *)

dhcp_timeout(c) ==
    CASE c.state = "SELECTING"                     -> dhcp_discover(c)
      [] c.state = "REQUESTING" /\ c.tries <= 5    -> dhcp_select(c)
      [] c.state = "REQUESTING" /\ c.tries > 5     -> dhcp_start(dhcp_release_and_stop(c))
      [] OTHER                                     -> c

dhcp_fine_tmr(c) ==
    CASE c.request_timeout > 1 -> [c EXCEPT !.request_timeout = @ - 1]
      [] c.request_timeout = 1 -> dhcp_timeout([c EXCEPT !.request_timeout = 0])
      [] OTHER                 -> c

Half(limit, used) == (limit - used) \div 2

dhcp_t1_timeout(c) ==
    IF c.state \notin {"REQUESTING", "BOUND", "RENEWING"} THEN c
    ELSE [dhcp_renew(c) EXCEPT !.t1_renew_time =
            IF Half(c.t2_timeout, c.lease_used) >= NEXT_TIMEOUT_THRESHOLD
            THEN Half(c.t2_timeout, c.lease_used) ELSE @]

dhcp_t2_timeout(c) ==
    IF c.state \notin Awaiting \cup {"BOUND"} THEN c
    ELSE [dhcp_rebind(c) EXCEPT !.t2_rebind_time =
            IF Half(c.t0_timeout, c.lease_used) >= NEXT_TIMEOUT_THRESHOLD
            THEN Half(c.t0_timeout, c.lease_used) ELSE @]

Expiring(c) == c.state # "OFF" /\ c.t0_timeout > 0 /\ c.lease_used + 1 = c.t0_timeout

LessOneWrapping(n) == n - 1     \* Mutant: counts down whether or not it is armed

LessOne(n) == IF n > 0 THEN n - 1 ELSE 0

Extended(c) ==      \* neither t0 nor t2 has run out: t2, then t1 counts down
    LET d == [c EXCEPT !.t2_rebind_time = LessOne(@)]
    IN  CASE c.t2_rebind_time = 1 -> dhcp_t2_timeout(d)
          [] c.t2_rebind_time # 1 /\ c.t1_renew_time = 1 ->
                dhcp_t1_timeout([d EXCEPT !.t1_renew_time = 0])
          [] OTHER -> [d EXCEPT !.t1_renew_time = LessOne(@)]

dhcp_coarse_tmr(c) ==
    CASE c.state = "OFF" -> c
      [] Expiring(c)     -> dhcp_start(dhcp_release_and_stop(c))
      [] OTHER -> Extended([c EXCEPT !.lease_used =
                                IF c.t0_timeout > 0 THEN @ + 1 ELSE @])
=============================================================================
