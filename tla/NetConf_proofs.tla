---------------------------- MODULE NetConf_proofs ----------------------------
(***************************************************************************)
(* Proofs about the network's main loop and the DHCP client, for every set *)
(* of addresses and leases, every clock and every set of timers.           *)
(*                                                                         *)
(* The client's handlers are functions, so that the argument is in two     *)
(* parts: what each keeps of the invariant Good, and that the loop only    *)
(* ever applies them.                                                      *)
(***************************************************************************)
EXTENDS NetConf, TLAPS

(* An address is supplied only by a lease that runs; a lease whose half is *)
(* less than the whole is renewed in time if it is not yet.                *)
Supplied(c) ==
    c.addr \in Addresses =>
        /\ dhcp_supplied_address(c) /\ c.addr = c.offered
        /\ c.t0_timeout = 0 \/ c.lease_used < c.t0_timeout

Halved(l) == l # u32_max /\ SetTimeout(l \div 2) < SetTimeout(l)

InTime(c, l) ==
    c.state = "BOUND" /\ Halved(l) =>
        c.t1_renew_time > 0 /\ c.lease_used + c.t1_renew_time < c.t0_timeout

Sound(c) ==
    /\ c \in Client
    /\ c.addr = BoardAddr => c.state = "OFF"
    /\ Supplied(c)

Good(c, l) == Sound(c) /\ InTime(c, l)

(* What no handler but lwip_dhcp_address_get does.                         *)
Handled(c, d) ==
    /\ d.addr = BoardAddr <=> c.addr = BoardAddr
    /\ c.state = "OFF" => d.state = "OFF"

(* What setting the state and sending a message leave alone.               *)
Kept(c, d) ==
    /\ d \in Client
    /\ d.addr = c.addr /\ d.offered = c.offered
    /\ d.t0_timeout = c.t0_timeout /\ d.t2_timeout = c.t2_timeout
    /\ d.lease_used = c.lease_used
    /\ d.t1_renew_time = c.t1_renew_time /\ d.t2_rebind_time = c.t2_rebind_time

-----------------------------------------------------------------------------
(* The client's own steps.                                                 *)

(* SET_TIMEOUT_FROM_OFFERED gives at least one tick.                       *)
LEMMA TimeoutPositive ==
    ASSUME NEW secs \in Nat
    PROVE  SetTimeout(secs) \in Nat \ {0}
<1> DEFINE t == ((secs + COARSE_SECS \div 2) % (u32_max + 1)) \div COARSE_SECS
<1>1. (secs + COARSE_SECS \div 2) \in Nat /\ u32_max + 1 \in Nat \ {0}
  BY LeaseAssumption DEF COARSE_SECS
<1>2. (secs + COARSE_SECS \div 2) % (u32_max + 1) \in Nat
  BY <1>1
<1>3. t \in Nat
  BY <1>2 DEF COARSE_SECS
<1>4. SetTimeout(secs) = CASE t = 0 -> 1 [] t > timeout_max -> timeout_max [] OTHER -> t
  BY DEF SetTimeout
<1> QED BY <1>3, <1>4, CounterAssumption

(* Where tries stops counting.                                             *)
LEMMA TriesMax == tries_max \in Nat \ {0}
  BY CounterAssumption

(* The fields of a client.                                                 *)
LEMMA Fields ==
    ASSUME NEW c \in Client
    PROVE  /\ c.addr \in Addresses \cup {AnyAddr, BoardAddr} /\ c.state \in States
           /\ c.tries \in 0..tries_max /\ c.request_timeout \in Nat
           /\ c.offered \in Addresses \cup {AnyAddr} /\ c.t0_timeout \in Nat
           /\ c.t2_timeout \in Nat /\ c.lease_used \in Nat
           /\ c.t1_renew_time \in Nat /\ c.t2_rebind_time \in Nat
  BY DEF Client

(* The state changes, the tries and the request timeout with it.           *)
LEMMA SetState ==
    ASSUME NEW c \in Client, NEW s \in States
    PROVE  Kept(c, dhcp_set_state(c, s)) /\ dhcp_set_state(c, s).state = s
<1>1. 0 \in 0..tries_max
  BY TriesMax
<1>2. CASE c.state = s
  BY <1>2 DEF dhcp_set_state, Kept
<1>3. CASE c.state # s
  <2> DEFINE d == [c EXCEPT !.state = s, !.tries = 0, !.request_timeout = 0]
  <2>1. dhcp_set_state(c, s) = d
    BY <1>3 DEF dhcp_set_state
  <2>2. d \in Client
    BY <1>1 DEF Client
  <2>3. d.state = s /\ Kept(c, d)
    BY <2>2 DEF Client, Kept
  <2> QED BY <2>1, <2>3
<1> QED BY <1>2, <1>3

(* Tries are counted up to tries_max.                                      *)
LEMMA Counted ==
    ASSUME NEW n \in 0..tries_max
    PROVE  Tried(n) \in 1..tries_max /\ BackOff[Tried(n)] \in Nat
  BY CounterAssumption DEF Tried

(* Sending changes the tries and the request timeout alone.                *)
LEMMA Sending ==
    ASSUME NEW c \in Client
    PROVE  Kept(c, Sent(c)) /\ Sent(c).state = c.state
<1>1. Tried(c.tries) \in 1..tries_max /\ BackOff[Tried(c.tries)] \in Nat
  BY Fields, Counted
<1>2. Tried(c.tries) \in 0..tries_max
  BY <1>1, TriesMax
<1> QED BY <1>1, <1>2 DEF Sent, Kept, Client

(* Discovering starts over and forgets the offer.                          *)
LEMMA Discovering ==
    ASSUME NEW c \in Client
    PROVE  /\ dhcp_discover(c) \in Client /\ dhcp_discover(c).addr = c.addr
           /\ dhcp_discover(c).state = "SELECTING"
<1> DEFINE d == [c EXCEPT !.offered = AnyAddr]
           e == dhcp_set_state(d, "SELECTING")
<1>1. d \in Client /\ d.addr = c.addr
  BY DEF Client
<1>2. Kept(d, e) /\ e.state = "SELECTING"
  BY <1>1, SetState DEF States
<1>3. e \in Client /\ e.addr = d.addr
  BY <1>2 DEF Kept
<1>4. Kept(e, Sent(e)) /\ Sent(e).state = e.state
  BY <1>3, Sending
<1>5. dhcp_discover(c) = Sent(e)
  BY DEF dhcp_discover
<1> HIDE DEF d, e
<1> QED BY <1>1, <1>2, <1>3, <1>4, <1>5 DEF Kept

(* Selecting keeps the offer it requests.                                  *)
LEMMA Selecting ==
    ASSUME NEW c \in Client
    PROVE  Kept(c, dhcp_select(c)) /\ dhcp_select(c).state = "REQUESTING"
<1> DEFINE e == dhcp_set_state(c, "REQUESTING")
<1>1. Kept(c, e) /\ e.state = "REQUESTING"
  BY SetState DEF States
<1>2. Kept(e, Sent(e)) /\ Sent(e).state = e.state
  BY <1>1, Sending DEF Kept
<1>3. dhcp_select(c) = Sent(e)
  BY DEF dhcp_select
<1> HIDE DEF e
<1> QED BY <1>1, <1>2, <1>3 DEF Kept

(* Renewing and rebinding keep the lease.                                  *)
LEMMA Extending ==
    ASSUME NEW c \in Client, NEW s \in States
    PROVE  Kept(c, Extend(c, s)) /\ Extend(c, s).state = s
<1> DEFINE d == dhcp_set_state(c, s)
<1>1. Kept(c, d) /\ d.state = s
  BY SetState
<1>2. Tried(d.tries) \in 0..tries_max
  BY <1>1, Fields, Counted, TriesMax DEF Kept
<1>3. Extend(c, s) = [d EXCEPT !.tries = Tried(d.tries)]
  BY DEF Extend
<1> HIDE DEF d
<1> QED BY <1>1, <1>2, <1>3 DEF Kept, Client

(* A client starts with the address the interface has.                     *)
LEMMA Starting ==
    ASSUME NEW c \in Client
    PROVE  /\ dhcp_start(c) \in Client /\ dhcp_start(c).addr = c.addr
           /\ dhcp_start(c).state = "SELECTING"
<1>1. Cleared(c.addr) \in Client /\ Cleared(c.addr).addr = c.addr
  BY CounterAssumption DEF Cleared, Client, States
<1> QED BY <1>1, Discovering DEF dhcp_start

(* Stopping takes a supplied address away, and no other.                   *)
LEMMA Stopping ==
    ASSUME NEW c \in Client
    PROVE  /\ dhcp_release_and_stop(c) \in Client
           /\ dhcp_release_and_stop(c).state = "OFF"
           /\ dhcp_release_and_stop(c).addr =
                IF dhcp_supplied_address(c) THEN AnyAddr ELSE c.addr
<1>1. CASE c.state = "OFF"
  BY <1>1 DEF dhcp_release_and_stop, dhcp_supplied_address
<1>2. CASE c.state # "OFF"
  <2> DEFINE d == dhcp_set_state(c, "OFF")
             a == IF dhcp_supplied_address(c) THEN AnyAddr ELSE c.addr
  <2>1. d \in Client /\ d.state = "OFF" /\ d.addr = c.addr
    BY SetState DEF States, Kept
  <2>2. a \in Addresses \cup {AnyAddr, BoardAddr}
    BY Fields
  <2>3. dhcp_release_and_stop(c) =
          [d EXCEPT !.offered = AnyAddr, !.t1_renew_time = 0, !.t2_rebind_time = 0,
                    !.lease_used = 0, !.t0_timeout = 0, !.addr = a]
    BY <1>2, <2>1 DEF dhcp_release_and_stop
  <2> HIDE DEF d, a
  <2>4. dhcp_release_and_stop(c) \in Client
    <3> DEFINE e == [d EXCEPT !.offered = AnyAddr, !.addr = a]
               f == [e EXCEPT !.t1_renew_time = 0, !.t2_rebind_time = 0]
    <3>1. e \in Client
      BY <2>1, <2>2 DEF Client
    <3>2. f \in Client
      <4> HIDE DEF e
      <4> QED BY <3>1 DEF Client
    <3>3. [f EXCEPT !.lease_used = 0, !.t0_timeout = 0] \in Client
      <4> HIDE DEF f
      <4> QED BY <3>2 DEF Client
    <3>4. dhcp_release_and_stop(c) = [f EXCEPT !.lease_used = 0, !.t0_timeout = 0]
      BY <2>1, <2>3 DEF Client
    <3> QED BY <3>3, <3>4
  <2>5. dhcp_release_and_stop(c).state = "OFF" /\ dhcp_release_and_stop(c).addr = a
    BY <2>1, <2>3 DEF Client
  <2> QED BY <2>4, <2>5 DEF a
<1> QED BY <1>1, <1>2
(* An acknowledged lease runs from its first tick, and is renewed in time. *)
LEMMA Binding ==
    ASSUME NEW c \in Client, NEW a \in Addresses, NEW l \in 0..u32_max
    PROVE  /\ Good(dhcp_bind(c, a, l), l)
           /\ dhcp_bind(c, a, l).addr = a /\ dhcp_bind(c, a, l).state = "BOUND"
<1> DEFINE d  == dhcp_set_state(c, "BOUND")
           t0 == IF l = u32_max THEN d.t0_timeout ELSE SetTimeout(l)
           t1 == SetTimeout(l \div 2)
           t2 == SetTimeout(((l * 7) % (u32_max + 1)) \div 8)
           b  == dhcp_bind(c, a, l)
<1>1. d \in Client
  BY SetState DEF States, Kept
<1>2. l \in Nat /\ l \div 2 \in Nat
  BY LeaseAssumption
<1>3. ((l * 7) % (u32_max + 1)) \div 8 \in Nat
  <2>1. l * 7 \in Nat /\ u32_max + 1 \in Nat \ {0}
    BY <1>2, LeaseAssumption
  <2>2. (l * 7) % (u32_max + 1) \in Nat
    BY <2>1
  <2> QED BY <2>2
<1>4. t1 \in Nat \ {0} /\ t2 \in Nat
  BY <1>2, <1>3, TimeoutPositive
<1>5. t0 \in Nat /\ (l # u32_max => t0 = SetTimeout(l))
  BY <1>1, <1>2, Fields, TimeoutPositive
<1>6. b = [d EXCEPT !.lease_used = 0, !.offered = a, !.addr = a, !.t0_timeout = t0,
                    !.t1_renew_time = t1, !.t2_timeout = t2, !.t2_rebind_time = t2]
  BY DEF dhcp_bind
<1>7. d.state = "BOUND"
  BY SetState DEF States
<1> HIDE DEF d, t0, t1, t2, b
<1>8. b \in Client
  BY <1>1, <1>4, <1>5, <1>6 DEF Client
<1>9. /\ b.addr = a /\ b.offered = a /\ b.state = "BOUND"
      /\ b.lease_used = 0 /\ b.t0_timeout = t0 /\ b.t1_renew_time = t1
  BY <1>1, <1>6, <1>7 DEF Client
<1>10. Supplied(b)
  BY <1>5, <1>9 DEF Supplied, dhcp_supplied_address
<1>11. InTime(b, l)
  <2> SUFFICES ASSUME Halved(l)
               PROVE  t1 > 0 /\ 0 + t1 < t0
    BY <1>9 DEF InTime
  <2>1. t1 < t0
    BY <1>5 DEF Halved, t1
  <2> QED BY <2>1, <1>4, <1>5
<1>12. a # BoardAddr
  BY AddrAssumption
<1> QED BY <1>8, <1>9, <1>10, <1>11, <1>12 DEF Good, Sound, b
-----------------------------------------------------------------------------
(* What is kept when only the state moves on, not to OFF or BOUND.         *)
LEMMA Moved ==
    ASSUME NEW c, NEW d, NEW l, Sound(c), Kept(c, d), c.state # "OFF",
           d.state \notin {"OFF", "BOUND"},
           dhcp_supplied_address(c) => dhcp_supplied_address(d)
    PROVE  Good(d, l) /\ Handled(c, d)
  BY DEF Good, Sound, Kept, Supplied, InTime, Handled

(* The address is lost, or there was none.                                 *)
LEMMA Lost ==
    ASSUME NEW c, NEW d, NEW l, Sound(c), d \in Client, c.state # "OFF",
           d.state = "SELECTING",
           d.addr = AnyAddr \/ (d.addr = c.addr /\ ~dhcp_supplied_address(c))
    PROVE  Good(d, l) /\ Handled(c, d)
<1>1. d.addr \notin Addresses /\ d.addr # BoardAddr /\ c.addr # BoardAddr
  BY AddrAssumption DEF Sound, Supplied
<1> QED BY <1>1 DEF Good, Sound, Supplied, InTime, Handled

(* Neither the state nor the lease changes.                                *)
LEMMA Stayed ==
    ASSUME NEW c, NEW d, NEW l, Good(c, l), Kept(c, d), d.state = c.state
    PROVE  Good(d, l) /\ Handled(c, d)
<1>1. Sound(d) /\ Handled(c, d)
  BY DEF Good, Sound, Kept, Supplied, Handled, dhcp_supplied_address
<1>2. InTime(d, l)
  BY DEF Good, Kept, InTime
<1> QED BY <1>1, <1>2 DEF Good

(* The client starts over.                                                 *)
LEMMA Restarting ==
    ASSUME NEW c, NEW l, Sound(c), c.state # "OFF"
    PROVE  /\ Good(dhcp_start(dhcp_release_and_stop(c)), l)
           /\ Handled(c, dhcp_start(dhcp_release_and_stop(c)))
<1> DEFINE e == dhcp_release_and_stop(c)
<1>1. c \in Client
  BY DEF Sound
<1>2. e \in Client /\ e.addr = IF dhcp_supplied_address(c) THEN AnyAddr ELSE c.addr
  BY <1>1, Stopping
<1> HIDE DEF e
<1>3. /\ dhcp_start(e) \in Client /\ dhcp_start(e).addr = e.addr
      /\ dhcp_start(e).state = "SELECTING"
  BY <1>2, Starting
<1>4. Good(dhcp_start(e), l) /\ Handled(c, dhcp_start(e))
  BY <1>2, <1>3, Lost
<1> QED BY <1>4 DEF e

(* A reply takes an address away only from a client that asked to keep it. *)
LEMMA Replied ==
    ASSUME NEW c, NEW l, Good(c, l), c.state # "OFF",
           NEW type \in {"OFFER", "ACK", "NAK"}, NEW a \in Addresses,
           NEW k \in 0..u32_max
    PROVE  LET d == dhcp_recv(c, type, a, k)
           IN  /\ Good(d, IF type = "ACK" /\ c.state \in Awaiting THEN k ELSE l)
               /\ Handled(c, d)
               /\ c.addr \in Addresses /\ d.addr = AnyAddr =>
                     c.state \in {"RENEWING", "REBINDING"}
<1> DEFINE d == dhcp_recv(c, type, a, k)
<1>1. c \in Client /\ Sound(c) /\ c.addr # BoardAddr
  BY DEF Good, Sound
<1>2. c.addr \in Addresses => c.state \in {"BOUND", "RENEWING", "REBINDING"} /\ c.addr # AnyAddr
  BY AddrAssumption DEF Good, Sound, Supplied, dhcp_supplied_address
<1>3. CASE type = "ACK" /\ c.state \in Awaiting
  <2>1. d = dhcp_bind(c, a, k)
    BY <1>3 DEF dhcp_recv
  <2>2. Good(d, k) /\ d.addr = a
    BY <2>1, <1>1, Binding
  <2>3. a # BoardAddr /\ a # AnyAddr
    BY AddrAssumption
  <2> HIDE DEF d
  <2>4. Handled(c, d)
    BY <2>2, <2>3, <1>1 DEF Handled
  <2> QED BY <2>2, <2>3, <2>4, <1>3 DEF d
<1>4. CASE type = "NAK" /\ c.state \in Awaiting
  <2> DEFINE b == dhcp_set_state(c, "BACKING_OFF")
             e == [b EXCEPT !.addr = AnyAddr]
  <2>1. d = dhcp_discover(e)
    BY <1>4 DEF dhcp_recv, dhcp_handle_nak
  <2>2. b \in Client
    BY <1>1, SetState DEF States, Kept
  <2>3. e \in Client /\ e.addr = AnyAddr
    <3> HIDE DEF b
    <3> QED BY <2>2 DEF Client
  <2> HIDE DEF e, d
  <2>4. d \in Client /\ d.addr = AnyAddr /\ d.state = "SELECTING"
    BY <2>1, <2>3, Discovering
  <2>5. Good(d, l) /\ Handled(c, d)
    BY <2>4, <1>1, Lost
  <2>6. c.addr \in Addresses => c.state \in {"RENEWING", "REBINDING"}
    BY <1>2, <1>4 DEF Awaiting
  <2> QED BY <2>5, <2>6, <1>4 DEF d
<1>5. CASE type = "OFFER" /\ c.state = "SELECTING"
  <2> DEFINE e == [c EXCEPT !.request_timeout = 0, !.offered = a]
  <2>1. d = dhcp_select(e)
    BY <1>5 DEF dhcp_recv, dhcp_handle_offer
  <2>2. e \in Client /\ e.addr = c.addr /\ e.state = "SELECTING"
    BY <1>1, <1>5 DEF Client
  <2> HIDE DEF e, d
  <2>3. Kept(e, d) /\ d.state = "REQUESTING"
    BY <2>1, <2>2, Selecting
  <2>4. e.addr \notin Addresses /\ e.addr # BoardAddr
    BY <2>2, <1>1, <1>2, <1>5
  <2>5. Sound(e)
    BY <2>2, <2>4 DEF Sound, Supplied
  <2>6. Good(d, l) /\ Handled(e, d)
    BY <2>2, <2>3, <2>5, Moved DEF dhcp_supplied_address
  <2>7. Handled(c, d)
    BY <2>2, <2>6, <1>5 DEF Handled
  <2> QED BY <2>6, <2>7, <2>4, <2>2, <1>5 DEF d
<1>6. CASE /\ ~(type = "ACK" /\ c.state \in Awaiting)
           /\ ~(type = "NAK" /\ c.state \in Awaiting)
           /\ ~(type = "OFFER" /\ c.state = "SELECTING")
  <2>1. d = c
    BY <1>6 DEF dhcp_recv
  <2> QED BY <2>1, <1>2, <1>6 DEF Handled
<1> QED BY <1>3, <1>4, <1>5, <1>6

(* A request times out: a supplied address is left alone.                  *)
LEMMA TimedOut ==
    ASSUME NEW c, NEW l, Good(c, l)
    PROVE  LET d == dhcp_timeout(c)
           IN  /\ Good(d, l) /\ Handled(c, d)
               /\ dhcp_supplied_address(c) => d = c
<1> DEFINE d == dhcp_timeout(c)
<1>1. c \in Client /\ Sound(c)
  BY DEF Good, Sound
<1>2. CASE c.state = "SELECTING"
  <2>1. d = dhcp_discover(c)
    BY <1>2 DEF dhcp_timeout
  <2> HIDE DEF d
  <2>2. d \in Client /\ d.addr = c.addr /\ d.state = "SELECTING"
    BY <2>1, <1>1, Discovering
  <2>3. ~dhcp_supplied_address(c)
    BY <1>2 DEF dhcp_supplied_address
  <2>4. Good(d, l) /\ Handled(c, d)
    BY <2>2, <2>3, <1>1, <1>2, Lost
  <2> QED BY <2>3, <2>4 DEF d
<1>3. CASE c.state = "REQUESTING" /\ c.tries <= 5
  <2>1. d = dhcp_select(c)
    BY <1>3, <1>1, Fields, TriesMax DEF dhcp_timeout
  <2> HIDE DEF d
  <2>2. Kept(c, d) /\ d.state = "REQUESTING"
    BY <2>1, <1>1, Selecting
  <2>3. ~dhcp_supplied_address(c)
    BY <1>3 DEF dhcp_supplied_address
  <2>4. Good(d, l) /\ Handled(c, d)
    BY <2>2, <2>3, <1>1, <1>3, Moved
  <2> QED BY <2>3, <2>4 DEF d
<1>4. CASE c.state = "REQUESTING" /\ c.tries > 5
  <2>1. d = dhcp_start(dhcp_release_and_stop(c))
    BY <1>4, <1>1, Fields, TriesMax DEF dhcp_timeout
  <2> HIDE DEF d
  <2>2. ~dhcp_supplied_address(c)
    BY <1>4 DEF dhcp_supplied_address
  <2>3. Good(d, l) /\ Handled(c, d)
    BY <2>1, <1>1, <1>4, Restarting
  <2> QED BY <2>2, <2>3 DEF d
<1>5. CASE c.state \notin {"SELECTING", "REQUESTING"}
  <2>1. d = c
    BY <1>5 DEF dhcp_timeout
  <2> QED BY <2>1 DEF Handled
<1>6. c.tries <= 5 \/ c.tries > 5
  BY <1>1, Fields, TriesMax
<1> QED BY <1>2, <1>3, <1>4, <1>5, <1>6

(* The fine timer.                                                         *)
LEMMA FineTimer ==
    ASSUME NEW c, NEW l, Good(c, l)
    PROVE  LET d == dhcp_fine_tmr(c)
           IN  /\ Good(d, l) /\ Handled(c, d)
               /\ c.addr \in Addresses => d.addr = c.addr /\ d.state = c.state
<1> DEFINE d == dhcp_fine_tmr(c)
<1>1. c \in Client
  BY DEF Good, Sound
<1>2. CASE c.request_timeout > 1
  <2>1. d = [c EXCEPT !.request_timeout = c.request_timeout - 1]
    BY <1>2 DEF dhcp_fine_tmr
  <2>2. c.request_timeout - 1 \in Nat
    BY <1>1, <1>2, Fields
  <2> HIDE DEF d
  <2>3. Kept(c, d) /\ d.state = c.state
    BY <2>1, <2>2, <1>1 DEF Kept, Client
  <2>4. Good(d, l) /\ Handled(c, d)
    BY <2>3, Stayed
  <2> QED BY <2>3, <2>4 DEF d, Kept
<1>3. CASE c.request_timeout = 1
  <2> DEFINE e == [c EXCEPT !.request_timeout = 0]
  <2>1. d = dhcp_timeout(e)
    BY <1>3 DEF dhcp_fine_tmr
  <2>2. Kept(c, e) /\ e.state = c.state
    BY <1>1 DEF Kept, Client
  <2> HIDE DEF e
  <2>3. Good(e, l) /\ Handled(c, e)
    BY <2>2, Stayed
  <2>4. /\ Good(d, l) /\ Handled(e, d)
        /\ dhcp_supplied_address(e) => d = e
    BY <2>1, <2>3, TimedOut
  <2> HIDE DEF d
  <2>5. Handled(c, d)
    BY <2>3, <2>4 DEF Handled
  <2>6. c.addr \in Addresses => d.addr = c.addr /\ d.state = c.state
    BY <2>2, <2>3, <2>4 DEF Good, Sound, Supplied, Kept
  <2> QED BY <2>4, <2>5, <2>6 DEF d
<1>4. CASE c.request_timeout = 0
  <2>1. d = c
    BY <1>4 DEF dhcp_fine_tmr
  <2> QED BY <2>1 DEF Handled
<1>5. c.request_timeout > 1 \/ c.request_timeout = 1 \/ c.request_timeout = 0
  BY <1>1, Fields
<1> QED BY <1>2, <1>3, <1>4, <1>5
-----------------------------------------------------------------------------
(* The coarse timer.                                                       *)

(* t2 runs out: the client rebinds, if it has something to rebind.         *)
LEMMA Rebinding ==
    ASSUME NEW c, NEW l, Sound(c), c.state # "OFF"
    PROVE  LET d == dhcp_t2_timeout(c)
           IN  /\ Good(d, l) \/ (d = c /\ c.state \notin Awaiting \cup {"BOUND"})
               /\ d.addr = c.addr
<1> DEFINE d == dhcp_t2_timeout(c)
           r == dhcp_rebind(c)
           h == Half(c.t0_timeout, c.lease_used)
           t == IF h >= NEXT_TIMEOUT_THRESHOLD THEN h ELSE r.t2_rebind_time
<1>1. CASE c.state \notin Awaiting \cup {"BOUND"}
  BY <1>1 DEF dhcp_t2_timeout
<1>2. CASE c.state \in Awaiting \cup {"BOUND"}
  <2>1. c \in Client
    BY DEF Sound
  <2>2. Kept(c, r) /\ r.state = "REBINDING"
    BY <2>1, Extending DEF States, dhcp_rebind
  <2>3. d = [r EXCEPT !.t2_rebind_time = t]
    BY <1>2 DEF dhcp_t2_timeout
  <2> HIDE DEF r
  <2>4. r \in Client /\ r.t2_rebind_time \in Nat
    BY <2>2, Fields DEF Kept
  <2>5. c.t0_timeout \in Nat /\ c.lease_used \in Nat
    BY <2>1, Fields
  <2>6. h \in Int
    BY <2>5 DEF Half
  <2>7. t \in Nat
    <3> HIDE DEF h
    <3> QED BY <2>4, <2>6 DEF NEXT_TIMEOUT_THRESHOLD
  <2> HIDE DEF t, d
  <2>8. d \in Client
    BY <2>3, <2>4, <2>7 DEF Client
  <2>9. /\ d.addr = r.addr /\ d.offered = r.offered /\ d.state = r.state
        /\ d.t0_timeout = r.t0_timeout /\ d.lease_used = r.lease_used
    BY <2>3, <2>4 DEF Client
  <2>10. c.addr # BoardAddr /\ d.addr = c.addr
    BY <2>2, <2>9 DEF Sound, Kept
  <2>11. Supplied(d)
    BY <2>2, <2>9 DEF Sound, Kept, Supplied, dhcp_supplied_address
  <2> QED BY <2>2, <2>8, <2>9, <2>10, <2>11 DEF Good, Sound, InTime, d
<1> QED BY <1>1, <1>2

(* t1 runs out: the client renews, if it has something to renew.           *)
LEMMA Renewing ==
    ASSUME NEW c, NEW l, Sound(c), c.state # "OFF"
    PROVE  LET d == dhcp_t1_timeout(c)
           IN  /\ Good(d, l) \/ (d = c /\ c.state \notin {"REQUESTING", "BOUND", "RENEWING"})
               /\ d.addr = c.addr
<1> DEFINE d == dhcp_t1_timeout(c)
           r == dhcp_renew(c)
           h == Half(c.t2_timeout, c.lease_used)
           t == IF h >= NEXT_TIMEOUT_THRESHOLD THEN h ELSE r.t1_renew_time
<1>1. CASE c.state \notin {"REQUESTING", "BOUND", "RENEWING"}
  BY <1>1 DEF dhcp_t1_timeout
<1>2. CASE c.state \in {"REQUESTING", "BOUND", "RENEWING"}
  <2>1. c \in Client
    BY DEF Sound
  <2>2. Kept(c, r) /\ r.state = "RENEWING"
    BY <2>1, Extending DEF States, dhcp_renew
  <2>3. d = [r EXCEPT !.t1_renew_time = t]
    BY <1>2 DEF dhcp_t1_timeout
  <2> HIDE DEF r
  <2>4. r \in Client /\ r.t1_renew_time \in Nat
    BY <2>2, Fields DEF Kept
  <2>5. c.t2_timeout \in Nat /\ c.lease_used \in Nat
    BY <2>1, Fields
  <2>6. h \in Int
    BY <2>5 DEF Half
  <2>7. t \in Nat
    <3> HIDE DEF h
    <3> QED BY <2>4, <2>6 DEF NEXT_TIMEOUT_THRESHOLD
  <2> HIDE DEF t, d
  <2>8. d \in Client
    BY <2>3, <2>4, <2>7 DEF Client
  <2>9. /\ d.addr = r.addr /\ d.offered = r.offered /\ d.state = r.state
        /\ d.t0_timeout = r.t0_timeout /\ d.lease_used = r.lease_used
    BY <2>3, <2>4 DEF Client
  <2>10. c.addr # BoardAddr /\ d.addr = c.addr
    BY <2>2, <2>9 DEF Sound, Kept
  <2>11. Supplied(d)
    BY <2>2, <2>9 DEF Sound, Kept, Supplied, dhcp_supplied_address
  <2> QED BY <2>2, <2>8, <2>9, <2>10, <2>11 DEF Good, Sound, InTime, d
<1> QED BY <1>1, <1>2
(* A tick that does not end the lease.                                     *)
LEMMA Ticking ==
    ASSUME NEW c, NEW l, Sound(c), c.state # "OFF",
           c.state = "BOUND" /\ Halved(l) =>
               c.t1_renew_time > 0 /\ c.lease_used + c.t1_renew_time <= c.t0_timeout
    PROVE  Good(Extended(c), l) /\ Extended(c).addr = c.addr
<1> DEFINE d == [c EXCEPT !.t2_rebind_time = LessOne(c.t2_rebind_time)]
<1>1. c \in Client
  BY DEF Sound
<1>2. \A n \in Nat : LessOne(n) \in Nat
  BY DEF LessOne
<1>3. LessOne(c.t2_rebind_time) \in Nat /\ LessOne(c.t1_renew_time) \in Nat
  BY <1>1, <1>2, Fields
<1>4. /\ d \in Client /\ d.addr = c.addr /\ d.offered = c.offered
      /\ d.state = c.state /\ d.t0_timeout = c.t0_timeout
      /\ d.lease_used = c.lease_used /\ d.t1_renew_time = c.t1_renew_time
  BY <1>1, <1>3 DEF Client
<1> HIDE DEF d
<1>5. Sound(d)
  BY <1>4 DEF Sound, Supplied, dhcp_supplied_address
<1>6. CASE c.t2_rebind_time = 1
  <2>1. Extended(c) = dhcp_t2_timeout(d)
    BY <1>6 DEF Extended, d
  <2>2. /\ \/ Good(dhcp_t2_timeout(d), l)
           \/ dhcp_t2_timeout(d) = d /\ d.state \notin Awaiting \cup {"BOUND"}
        /\ dhcp_t2_timeout(d).addr = d.addr
    BY <1>4, <1>5, Rebinding
  <2> QED BY <2>1, <2>2, <1>4, <1>5 DEF Good, InTime
<1>7. CASE c.t2_rebind_time # 1 /\ c.t1_renew_time = 1
  <2> DEFINE f == [d EXCEPT !.t1_renew_time = 0]
  <2>1. Extended(c) = dhcp_t1_timeout(f)
    BY <1>7 DEF Extended, d
  <2>2. /\ f \in Client /\ f.addr = d.addr /\ f.offered = d.offered
        /\ f.state = d.state /\ f.t0_timeout = d.t0_timeout
        /\ f.lease_used = d.lease_used
    BY <1>4 DEF Client
  <2> HIDE DEF f
  <2>3. Sound(f)
    BY <2>2, <1>5 DEF Sound, Supplied, dhcp_supplied_address
  <2>4. /\ \/ Good(dhcp_t1_timeout(f), l)
           \/ /\ dhcp_t1_timeout(f) = f
              /\ f.state \notin {"REQUESTING", "BOUND", "RENEWING"}
        /\ dhcp_t1_timeout(f).addr = f.addr
    BY <2>2, <2>3, <1>4, Renewing
  <2> QED BY <2>1, <2>2, <2>3, <2>4, <1>4 DEF Good, InTime
<1>8. CASE c.t2_rebind_time # 1 /\ c.t1_renew_time # 1
  <2> DEFINE g == [d EXCEPT !.t1_renew_time = LessOne(d.t1_renew_time)]
  <2>1. Extended(c) = g
    BY <1>8 DEF Extended, d
  <2>2. /\ g \in Client /\ g.addr = d.addr /\ g.offered = d.offered
        /\ g.state = d.state /\ g.t0_timeout = d.t0_timeout
        /\ g.lease_used = d.lease_used /\ g.t1_renew_time = LessOne(c.t1_renew_time)
    BY <1>3, <1>4 DEF Client
  <2> HIDE DEF g
  <2>3. Sound(g)
    BY <2>2, <1>5 DEF Sound, Supplied, dhcp_supplied_address
  <2>4. InTime(g, l)
    <3> SUFFICES ASSUME c.state = "BOUND", Halved(l)
                 PROVE  /\ LessOne(c.t1_renew_time) > 0
                        /\ c.lease_used + LessOne(c.t1_renew_time) < c.t0_timeout
      BY <2>2, <1>4 DEF InTime
    <3>1. c.t1_renew_time > 0 /\ c.lease_used + c.t1_renew_time <= c.t0_timeout
      OBVIOUS
    <3>2. c.t1_renew_time \in Nat /\ c.lease_used \in Nat /\ c.t0_timeout \in Nat
      BY <1>1, Fields
    <3>3. LessOne(c.t1_renew_time) = c.t1_renew_time - 1
      BY <3>1, <3>2 DEF LessOne
    <3> QED BY <3>1, <3>2, <3>3, <1>8
  <2> QED BY <2>1, <2>2, <2>3, <2>4, <1>4 DEF Good
<1> QED BY <1>6, <1>7, <1>8

(* The coarse timer: a lease that can be renewed is not ended while BOUND. *)
LEMMA CoarseTimer ==
    ASSUME NEW c, NEW l, Good(c, l)
    PROVE  LET d == dhcp_coarse_tmr(c)
           IN  /\ Good(d, l) /\ Handled(c, d)
               /\ c.addr \in Addresses /\ d.addr = AnyAddr /\ Halved(l) =>
                     c.state \in {"RENEWING", "REBINDING"}
<1> DEFINE d == dhcp_coarse_tmr(c)
           u == IF c.t0_timeout > 0 THEN c.lease_used + 1 ELSE c.lease_used
           e == [c EXCEPT !.lease_used = u]
<1>1. c \in Client /\ Sound(c)
  BY DEF Good, Sound
<1>2. c.t0_timeout \in Nat /\ c.lease_used \in Nat /\ c.t1_renew_time \in Nat
  BY <1>1, Fields
<1>3. CASE c.state = "OFF"
  <2>1. d = c
    BY <1>3 DEF dhcp_coarse_tmr, Expiring
  <2>2. c.addr \notin Addresses
    BY <1>1, <1>3 DEF Sound, Supplied, dhcp_supplied_address
  <2> QED BY <2>1, <2>2 DEF Handled
<1>4. CASE c.state # "OFF" /\ Expiring(c)
  <2>1. d = dhcp_start(dhcp_release_and_stop(c))
    BY <1>4 DEF dhcp_coarse_tmr
  <2> HIDE DEF d
  <2>2. Good(d, l) /\ Handled(c, d)
    BY <2>1, <1>1, <1>4, Restarting
  <2>3. ASSUME c.addr \in Addresses, Halved(l)
        PROVE  c.state \in {"RENEWING", "REBINDING"}
    <3>1. c.state # "BOUND"
      BY <2>3, <1>2, <1>4 DEF Good, InTime, Expiring
    <3> QED BY <3>1, <2>3, <1>1 DEF Sound, Supplied, dhcp_supplied_address
  <2> QED BY <2>2, <2>3 DEF d
<1>5. CASE c.state # "OFF" /\ ~Expiring(c)
  <2>1. d = Extended(e)
    BY <1>5 DEF dhcp_coarse_tmr
  <2>2. u \in Nat
    BY <1>2
  <2>3. /\ e \in Client /\ e.addr = c.addr /\ e.offered = c.offered
        /\ e.state = c.state /\ e.t0_timeout = c.t0_timeout
        /\ e.t1_renew_time = c.t1_renew_time /\ e.lease_used = u
    <3> HIDE DEF u
    <3> QED BY <2>2, <1>1 DEF Client
  <2> HIDE DEF e, d
  <2>4. c.t0_timeout = 0 \/ c.lease_used < c.t0_timeout =>
        c.t0_timeout = 0 \/ u < c.t0_timeout
    BY <1>2, <1>5 DEF Expiring
  <2>5. Supplied(e)
    BY <2>3, <2>4, <1>1 DEF Sound, Supplied, dhcp_supplied_address
  <2>6. Sound(e)
    BY <2>3, <2>5, <1>1 DEF Sound
  <2>7. c.state = "BOUND" /\ Halved(l) =>
            c.t1_renew_time > 0 /\ u + c.t1_renew_time <= c.t0_timeout
    BY <1>2 DEF Good, InTime
  <2>8. Good(d, l) /\ d.addr = c.addr
    BY <2>1, <2>3, <2>6, <2>7, <1>5, Ticking
  <2>9. c.addr \in Addresses => c.addr # AnyAddr
    BY AddrAssumption
  <2> QED BY <2>8, <2>9, <1>5 DEF Handled, d
<1> QED BY <1>3, <1>4, <1>5
-----------------------------------------------------------------------------
(* The loop.                                                               *)

Status(s, c) ==
    /\ s \in {"NONE", "BEGIN", "GOT", "FAIL"}
    /\ s = "FAIL" <=> c.addr = BoardAddr
    /\ s = "NONE" => c.state = "OFF"

Clock ==
    /\ curtime \in 0..(Modulus - 1) /\ last \in [Timers -> 0..(Modulus - 1)]
    /\ passed \in [Timers -> Nat]
    /\ \A t \in Timers : passed[t] < Period[t] /\ Minus(curtime, last[t]) = passed[t]

NetInv ==
    /\ Clock
    /\ lease \in 0..u32_max
    /\ Good(client, lease)
    /\ Status(dhcp_addr_status, client)

(* lwip_dhcp_address_get takes no address away.                            *)
LEMMA Getting ==
    ASSUME NEW c, NEW l, Good(c, l), Status(dhcp_addr_status, c)
    PROVE  LET r == lwip_dhcp_address_get(c)
           IN  /\ Good(r[2], l) /\ Status(r[1], r[2])
               /\ c.addr \in Addresses => r[2].addr = c.addr /\ r[2].state = c.state
<1> DEFINE r == lwip_dhcp_address_get(c)
<1>1. c \in Client /\ Sound(c)
  BY DEF Good, Sound
<1>2. CASE dhcp_addr_status = "NONE"
  <2>1. r = <<"BEGIN", dhcp_start(c)>>
    BY <1>2 DEF lwip_dhcp_address_get, Got, GaveUp
  <2>2. c.addr \notin Addresses /\ c.addr # BoardAddr
    BY <1>1, <1>2 DEF Status, Sound, Supplied, dhcp_supplied_address
  <2>3. /\ dhcp_start(c) \in Client /\ dhcp_start(c).addr = c.addr
        /\ dhcp_start(c).state = "SELECTING"
    BY <1>1, Starting
  <2>4. Good(dhcp_start(c), l)
    BY <2>2, <2>3 DEF Good, Sound, Supplied, InTime
  <2>5. Status("BEGIN", dhcp_start(c))
    BY <2>2, <2>3 DEF Status
  <2> QED BY <2>1, <2>2, <2>4, <2>5
<1>3. CASE Got(c)
  <2>1. r = <<"GOT", c>>
    BY <1>3 DEF lwip_dhcp_address_get, Got, GaveUp
  <2>2. Status("GOT", c)
    BY <1>3 DEF Status, Got
  <2> QED BY <2>1, <2>2
<1>4. CASE GaveUp(c)
  <2> DEFINE d == dhcp_release_and_stop(c)
             e == [d EXCEPT !.addr = BoardAddr]
  <2>1. r = <<"FAIL", e>>
    BY <1>4 DEF lwip_dhcp_address_get, GaveUp, Got
  <2>2. d \in Client /\ d.state = "OFF"
    BY <1>1, Stopping
  <2>3. e \in Client /\ e.state = "OFF" /\ e.addr = BoardAddr
    <3> HIDE DEF d
    <3> QED BY <2>2 DEF Client
  <2> HIDE DEF e
  <2>4. Good(e, l)
    BY <2>3, AddrAssumption DEF Good, Sound, Supplied, InTime
  <2>5. Status("FAIL", e)
    BY <2>3 DEF Status
  <2>6. c.addr \notin Addresses
    BY <1>4, AddrAssumption DEF GaveUp
  <2> QED BY <2>1, <2>4, <2>5, <2>6
<1>5. CASE dhcp_addr_status # "NONE" /\ ~Got(c) /\ ~GaveUp(c)
  <2>1. r = <<dhcp_addr_status, c>>
    BY <1>5 DEF lwip_dhcp_address_get
  <2> QED BY <2>1
<1> QED BY <1>2, <1>3, <1>4, <1>5

(* The fine timer's branch.                                                *)
LEMMA FineBranch ==
    ASSUME NetInv, NEW now
    PROVE  /\ Good(Fine(now)[2], lease) /\ Status(Fine(now)[1], Fine(now)[2])
           /\ client.addr \in Addresses =>
                Fine(now)[2].addr = client.addr /\ Fine(now)[2].state = client.state
<1> DEFINE d == dhcp_fine_tmr(client)
           r == lwip_dhcp_address_get(d)
<1>1. CASE Due("fine", now)
  <2>1. /\ Good(d, lease) /\ Handled(client, d)
        /\ client.addr \in Addresses => d.addr = client.addr /\ d.state = client.state
    BY FineTimer DEF NetInv
  <2> HIDE DEF d
  <2>2. Status(dhcp_addr_status, d)
    BY <2>1 DEF NetInv, Status, Handled
  <2>3. /\ Good(r[2], lease) /\ Status(r[1], r[2])
        /\ d.addr \in Addresses => r[2].addr = d.addr /\ r[2].state = d.state
    BY <2>1, <2>2, Getting
  <2>4. Fine(now) = r
    BY <1>1 DEF Fine, d
  <2> QED BY <2>1, <2>3, <2>4
<1>2. CASE ~Due("fine", now)
  <2>1. Fine(now) = <<dhcp_addr_status, client>>
    BY <1>2 DEF Fine
  <2> QED BY <2>1 DEF NetInv
<1> QED BY <1>1, <1>2

(* The client after the timers.                                            *)
LEMMA Checked ==
    ASSUME NetInv, NEW now, lwip_timeouts_check(now)
    PROVE  /\ Good(client', lease) /\ Status(dhcp_addr_status', client')
           /\ client.addr \in Addresses /\ client'.addr = AnyAddr /\ Halved(lease) =>
                client.state \in {"RENEWING", "REBINDING"}
<1> DEFINE c == Fine(now)[2]
           d == dhcp_coarse_tmr(c)
<1>1. /\ Good(c, lease) /\ Status(dhcp_addr_status', c)
      /\ client.addr \in Addresses => c.addr = client.addr /\ c.state = client.state
  BY FineBranch DEF lwip_timeouts_check
<1>2. CASE Due("coarse", now)
  <2>1. client' = d
    BY <1>2 DEF lwip_timeouts_check
  <2> HIDE DEF c
  <2>2. /\ Good(d, lease) /\ Handled(c, d)
        /\ c.addr \in Addresses /\ d.addr = AnyAddr /\ Halved(lease) =>
                c.state \in {"RENEWING", "REBINDING"}
    BY <1>1, CoarseTimer
  <2> HIDE DEF d
  <2>3. Status(dhcp_addr_status', d)
    BY <1>1, <2>2 DEF Status, Handled
  <2> QED BY <1>1, <2>1, <2>2, <2>3
<1>3. CASE ~Due("coarse", now)
  <2>1. client' = c
    BY <1>3 DEF lwip_timeouts_check
  <2>2. client.addr \in Addresses => c.addr # AnyAddr
    BY <1>1, AddrAssumption
  <2> QED BY <1>1, <2>1, <2>2
<1> QED BY <1>2, <1>3

(* The clock has moved on by d: what has passed since a timer last ran is  *)
(* told from the two readings, because no period and pause is as long as   *)
(* the clock's round.                                                      *)
LEMMA Elapsed ==
    ASSUME Clock, NEW d \in 1..MaxGap, NEW t \in Timers, NEW now,
           now = IF curtime + d < Modulus THEN curtime + d ELSE curtime + d - Modulus
    PROVE  /\ now \in 0..(Modulus - 1) /\ Minus(now, curtime) = d
           /\ Minus(now, last[t]) = passed[t] + d
           /\ Minus(now, now) = 0
<1>1. Modulus \in Nat /\ MaxGap \in Nat /\ Period[t] \in Nat \ {0}
      /\ Period[t] + MaxGap <= Modulus
  BY TimerAssumption
<1>2. /\ curtime \in Nat /\ curtime < Modulus /\ last[t] \in Nat
      /\ last[t] < Modulus /\ passed[t] \in Nat
  BY <1>1 DEF Clock
<1>3. d \in Nat /\ d >= 1 /\ d <= MaxGap /\ d < Modulus
  BY <1>1
<1>4. now \in 0..(Modulus - 1) /\ Minus(now, curtime) = d
  BY <1>1, <1>2, <1>3 DEF Minus
<1>5. passed[t] < Period[t] /\ Minus(curtime, last[t]) = passed[t]
  BY DEF Clock
<1>6. passed[t] + d < Modulus
  BY <1>1, <1>2, <1>3, <1>5
<1>7. Minus(now, last[t]) = passed[t] + d
  <2>1. CASE curtime >= last[t]
    BY <2>1, <1>1, <1>2, <1>3, <1>5, <1>6 DEF Minus
  <2>2. CASE curtime < last[t]
    BY <2>2, <1>1, <1>2, <1>3, <1>5, <1>6 DEF Minus
  <2> QED BY <2>1, <2>2, <1>2
<1>8. Minus(now, now) = 0
  BY <1>1, <1>4 DEF Minus
<1> QED BY <1>4, <1>7, <1>8

(* Every timer is kept to its period.                                      *)
LEMMA ClockStep ==
    ASSUME Clock, Poll
    PROVE  /\ Clock'
           /\ \A t \in Timers : (passed'[t] = 0) <=>
                   (passed[t] + Minus(curtime', curtime) >= Period[t])
<1>1. PICK d \in 1..MaxGap :
        LET now == IF curtime + d < Modulus THEN curtime + d ELSE curtime + d - Modulus
        IN  /\ curtime' = now
            /\ lwip_timeouts_check(now)
            /\ passed' = [t \in Timers |-> IF Due(t, now) THEN 0 ELSE passed[t] + d]
            /\ lease' = lease
  BY DEF Poll
<1>2. /\ curtime' = IF curtime + d < Modulus THEN curtime + d ELSE curtime + d - Modulus
      /\ last' = [t \in Timers |-> IF Due(t, curtime') THEN curtime' ELSE last[t]]
      /\ passed' = [t \in Timers |-> IF Due(t, curtime') THEN 0 ELSE passed[t] + d]
  BY <1>1 DEF lwip_timeouts_check
<1>3. TimerAssumption /\ d \in Nat \ {0}
  BY TimerAssumption
<1>4. ASSUME NEW t \in Timers
      PROVE  /\ curtime' \in 0..(Modulus - 1) /\ Minus(curtime', curtime) = d
             /\ Minus(curtime', last[t]) = passed[t] + d /\ Minus(curtime', curtime') = 0
             /\ passed[t] \in Nat /\ Period[t] \in Nat \ {0}
             /\ last[t] \in 0..(Modulus - 1)
             /\ Due(t, curtime') <=> passed[t] + d >= Period[t]
  <2>1. /\ curtime' \in 0..(Modulus - 1) /\ Minus(curtime', curtime) = d
        /\ Minus(curtime', last[t]) = passed[t] + d /\ Minus(curtime', curtime') = 0
    BY <1>2, Elapsed
  <2>2. /\ passed[t] \in Nat /\ Period[t] \in Nat \ {0} /\ last[t] \in 0..(Modulus - 1)
    BY <1>3 DEF Clock, TimerAssumption
  <2> QED BY <2>1, <2>2 DEF Due
<1>5. curtime' \in 0..(Modulus - 1)
  BY <1>3, <1>4 DEF TimerAssumption
<1>6. last' \in [Timers -> 0..(Modulus - 1)] /\ passed' \in [Timers -> Nat]
  BY <1>2, <1>3, <1>4, <1>5
<1>7. ASSUME NEW t \in Timers
      PROVE  /\ passed'[t] < Period[t] /\ Minus(curtime', last'[t]) = passed'[t]
             /\ (passed'[t] = 0) <=> (passed[t] + Minus(curtime', curtime) >= Period[t])
  <2>1. CASE passed[t] + d >= Period[t]
    <3>1. passed'[t] = 0 /\ last'[t] = curtime'
      BY <2>1, <1>2, <1>4
    <3> QED BY <2>1, <3>1, <1>4
  <2>2. CASE ~(passed[t] + d >= Period[t])
    <3>1. passed'[t] = passed[t] + d /\ last'[t] = last[t]
      BY <2>2, <1>2, <1>4
    <3> QED BY <2>2, <3>1, <1>3, <1>4
  <2> QED BY <2>1, <2>2
<1>8. Clock'
  BY <1>5, <1>6, <1>7 DEF Clock, Minus
<1> QED BY <1>7, <1>8
-----------------------------------------------------------------------------
(* The invariant, and what follows from it.                                *)

(* Initially there is no address and no client.                            *)
LEMMA NetInit == Init => NetInv
<1> SUFFICES ASSUME Init PROVE NetInv
  OBVIOUS
<1>1. Cleared(AnyAddr) \in Client /\ Cleared(AnyAddr).addr = AnyAddr
      /\ Cleared(AnyAddr).state = "OFF"
  BY TriesMax DEF Cleared, Client, States
<1>2. AnyAddr \notin Addresses /\ AnyAddr # BoardAddr
  BY AddrAssumption
<1>3. Good(client, lease) /\ Status(dhcp_addr_status, client)
  BY <1>1, <1>2 DEF Init, Good, Sound, Supplied, InTime, Status
<1>4. Modulus >= 1 /\ Modulus \in Nat /\ (\A t \in Timers : Period[t] \in Nat \ {0})
  BY TimerAssumption
<1>5. Clock
  BY <1>4 DEF Init, Clock, Minus
<1>6. lease \in 0..u32_max
  BY LeaseAssumption DEF Init
<1> QED BY <1>3, <1>5, <1>6 DEF NetInv

(* A round of the loop.                                                    *)
LEMMA NetPoll == NetInv /\ Poll => NetInv'
<1> SUFFICES ASSUME NetInv, Poll PROVE NetInv'
  OBVIOUS
<1>1. lwip_timeouts_check(curtime') /\ lease' = lease
  BY DEF Poll
<1>2. Good(client', lease) /\ Status(dhcp_addr_status', client')
  BY <1>1, Checked
<1>3. Clock'
  BY ClockStep DEF NetInv
<1>4. (Good(client, lease))' /\ (Status(dhcp_addr_status, client))'
  BY <1>1, <1>2 DEF Good, Sound, Supplied, InTime, Status
<1> QED BY <1>1, <1>3, <1>4 DEF NetInv

(* A reply: it takes an address away only when asked to keep it.           *)
LEMMA NetReceive ==
    ASSUME NetInv, NEW type \in {"OFFER", "ACK", "NAK"}, NEW a \in Addresses,
           NEW k \in Leases, Receive(type, a, k)
    PROVE  /\ NetInv'
           /\ client.addr \in Addresses /\ client'.addr = AnyAddr =>
                client.state \in {"RENEWING", "REBINDING"}
<1>1. k \in 0..u32_max
  BY LeaseAssumption
<1> DEFINE d == dhcp_recv(client, type, a, k)
<1>2. Good(client, lease) /\ client.state # "OFF"
  BY DEF NetInv, Receive
<1>3. /\ Good(d, IF type = "ACK" /\ client.state \in Awaiting THEN k ELSE lease)
      /\ Handled(client, d)
      /\ client.addr \in Addresses /\ d.addr = AnyAddr =>
            client.state \in {"RENEWING", "REBINDING"}
  BY <1>1, <1>2, Replied
<1>4. /\ client' = d
      /\ lease' = IF type = "ACK" /\ client.state \in Awaiting THEN k ELSE lease
      /\ dhcp_addr_status' = dhcp_addr_status
      /\ curtime' = curtime /\ last' = last /\ passed' = passed
  BY DEF Receive
<1> HIDE DEF d
<1>5. Good(client', lease') /\ Handled(client, client')
  BY <1>3, <1>4
<1>6. Status(dhcp_addr_status', client')
  BY <1>2, <1>4, <1>5 DEF NetInv, Status, Handled
<1>7. Clock'
  BY <1>4 DEF NetInv, Clock, Minus
<1>8. lease' \in 0..u32_max
  BY <1>1, <1>4 DEF NetInv
<1>9. (Good(client, lease))' /\ (Status(dhcp_addr_status, client))'
  BY <1>5, <1>6 DEF Good, Sound, Supplied, InTime, Status
<1> QED BY <1>3, <1>4, <1>7, <1>8, <1>9 DEF NetInv

(* The inductive invariant of the loop and its client.                     *)
THEOREM NetInvariant == Spec => []NetInv
<1>1. Init => NetInv
  BY NetInit
<1>2. NetInv /\ [Next]_vars => NetInv'
  <2> SUFFICES ASSUME NetInv, [Next]_vars PROVE NetInv'
    OBVIOUS
  <2>1. CASE Poll
    BY <2>1, NetPoll
  <2>2. CASE \E type \in {"OFFER", "ACK", "NAK"}, a \in Addresses, l \in Leases :
                Receive(type, a, l)
    BY <2>2, NetReceive
  <2>3. CASE UNCHANGED vars
    BY <2>3 DEF vars, NetInv, Clock, Good, Sound, Supplied, InTime, Status, Minus
  <2> QED BY <2>1, <2>2, <2>3 DEF Next
<1> QED BY <1>1, <1>2, PTL DEF Spec

(* The types of the clock, of the timers and of the client.                *)
THEOREM NetTypeCorrect == Spec => []TypeOK
<1>1. NetInv => TypeOK
  BY DEF NetInv, Clock, Good, Sound, Status, TypeOK
<1> QED BY <1>1, NetInvariant, PTL

(* The interface's address is the static one exactly when the loop has     *)
(* given up, and any other is one whose lease runs.                        *)
THEOREM NetAddressJustified == Spec => []AddressJustified
<1>1. NetInv => AddressJustified
  BY DEF NetInv, Good, Sound, Supplied, Status, AddressJustified
<1> QED BY <1>1, NetInvariant, PTL

(* Timers run when their period has passed, whatever the clock's modulus,  *)
(* as long as no period and pause of the loop together exceed it.          *)
THEOREM NetPunctual == Spec => Punctual
<1>1. NetInv /\ [Next]_vars =>
        [curtime' # curtime =>
           \A t \in Timers : (passed'[t] = 0) <=>
                (passed[t] + Minus(curtime', curtime) >= Period[t])]_vars
  <2> SUFFICES ASSUME NetInv, [Next]_vars, curtime' # curtime
               PROVE  \A t \in Timers : (passed'[t] = 0) <=>
                          (passed[t] + Minus(curtime', curtime) >= Period[t])
    OBVIOUS
  <2>1. Poll
    BY DEF Next, Receive, vars
  <2> QED BY <2>1, ClockStep DEF NetInv
<1> QED BY <1>1, NetInvariant, PTL DEF Spec, Punctual

(* Whatever the lease, if its half is less than the whole after rounding,  *)
(* the address is not given up before the client has asked to keep it.     *)
THEOREM NetRenewedFirst == Spec => RenewedFirst
<1>1. NetInv /\ [Next]_vars =>
        [client.addr \in Addresses /\ client'.addr = AnyAddr
           /\ lease # u32_max /\ SetTimeout(lease \div 2) < SetTimeout(lease)
         => client.state \in {"RENEWING", "REBINDING"}]_vars
  <2> SUFFICES ASSUME NetInv, Next,
                      client.addr \in Addresses, client'.addr = AnyAddr,
                      lease # u32_max, SetTimeout(lease \div 2) < SetTimeout(lease)
               PROVE  client.state \in {"RENEWING", "REBINDING"}
    OBVIOUS
  <2>1. Halved(lease)
    BY DEF Halved
  <2>2. CASE Poll
    <3>1. lwip_timeouts_check(curtime')
      BY <2>2 DEF Poll
    <3> QED BY <2>1, <3>1, Checked
  <2>3. CASE \E type \in {"OFFER", "ACK", "NAK"}, a \in Addresses, l \in Leases :
                Receive(type, a, l)
    BY <2>3, NetReceive
  <2> QED BY <2>2, <2>3 DEF Next
<1> QED BY <1>1, NetInvariant, PTL DEF Spec, RenewedFirst
=============================================================================
