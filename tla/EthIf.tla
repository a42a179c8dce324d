-------------------------------- MODULE EthIf ---------------------------------
(***************************************************************************)
(* The network interface: low_level_output and ethernetif_input            *)
(* (ethernetif.c) on the descriptor chains of the MAC's DMA                *)
(* (gd32f30x_enet.c).  The DMA works on its own: a descriptor is its own   *)
(* while DAV is set.  It looks at a descriptor in one step and suspends    *)
(* itself, raising TBU, in a later one.                                    *)
(***************************************************************************)
EXTENDS Integers, Sequences

CONSTANTS Frames,    (* frames                                             *)
          Damaged,   (* what a bad frame leaves in a descriptor            *)
          None,      (* no frame                                           *)
          TXBUF_NUM, (* ENET_TXBUF_NUM                                     *)
          RXBUF_NUM  (* ENET_RXBUF_NUM                                     *)

ASSUME FrameAssumption == Damaged \notin Frames /\ None \notin Frames /\ None # Damaged
ASSUME BufAssumption == TXBUF_NUM \in Nat \ {0, 1} /\ RXBUF_NUM \in Nat \ {0}

TxDesc == 0..(TXBUF_NUM - 1)
RxDesc == 0..(RXBUF_NUM - 1)

VARIABLES
    pc,       (* where the main loop is                                    *)
    out,      (* the frame low_level_output was called with                *)
    tx_dav,   (* DAV of each transmit descriptor                           *)
    tx_buff,
    tx_cur,   (* dma_current_txdesc                                        *)
    tx_pos,   (* the descriptor the DMA is at                              *)
    tx_dma,   (* the DMA: "running", "looked" at one not its, "suspended"  *)
    tbu,      (* ENET_DMA_STAT_TBU                                         *)
    wire,     (* history: the frame sent last                              *)
    pbuf,     (* the frame low_level_input has copied                      *)
    rx_dav, rx_buff, rx_cur, rx_pos, rx_dma,    (* the same for receiving  *)
    rbu,      (* ENET_DMA_STAT_RBU                                         *)
    up        (* history: the frame handed to the stack last               *)

txcpu == <<out, tx_cur>>
txdma == <<tx_pos, tx_dma, wire>>
rxcpu == <<pbuf, rx_cur, up>>
rxdma == <<rx_pos, rx_dma>>
tx    == <<txcpu, txdma, tx_dav, tx_buff, tbu>>
rx    == <<rxcpu, rxdma, rx_dav, rx_buff, rbu>>
vars  == <<pc, tx, rx>>

(* enet_descriptors_chain_init, then enet_enable.                          *)
Init ==
    /\ pc = "loop" /\ out = None /\ pbuf = None /\ wire = None /\ up = None
    /\ tx_dav = [d \in TxDesc |-> FALSE] /\ tx_buff = [d \in TxDesc |-> None]
    /\ rx_dav = [d \in RxDesc |-> TRUE] /\ rx_buff = [d \in RxDesc |-> None]
    /\ tx_cur = 0 /\ tx_pos = 0 /\ tx_dma = "running" /\ tbu = FALSE
    /\ rx_cur = 0 /\ rx_pos = 0 /\ rx_dma = "running" /\ rbu = FALSE

NextTx(d) == IF d = TXBUF_NUM - 1 THEN 0 ELSE d + 1     \* buffer2_next_desc_addr

NextRxOpen(d) == d + 1      \* Mutant: the last descriptor is not chained to the first

NextRx(d) == IF d = RXBUF_NUM - 1 THEN 0 ELSE d + 1

Goto(from, to) == pc = from /\ pc' = to

-----------------------------------------------------------------------------
(* low_level_output and enet_frame_transmit.                               *)

Output ==
    /\ Goto("loop", "wait")
    /\ out' \in Frames
    /\ UNCHANGED <<tx_cur, txdma, tx_dav, tx_buff, tbu, rx>>

WaitNot ==      \* Mutant: does not wait for the descriptor
    /\ Goto("wait", "copy")
    /\ UNCHANGED <<tx, rx>>

Wait ==
    /\ Goto("wait", "copy")
    /\ ~tx_dav[tx_cur]
    /\ UNCHANGED <<tx, rx>>

(* Copying a frame outlasts the DMA's way from a look to its suspension.   *)
Copy ==
    /\ Goto("copy", "give")
    /\ tx_dma # "looked"
    /\ tx_buff' = [tx_buff EXCEPT ![tx_cur] = out]
    /\ UNCHANGED <<txcpu, txdma, tx_dav, tbu, rx>>

(* enet_frame_transmit's refusals are not reached: low_level_output has    *)
(* just seen DAV clear, and a frame within the MTU of 1500 is no longer    *)
(* than ENET_MAX_FRAME_SIZE.                                               *)
Give ==
    /\ Goto("give", "stat")
    /\ tx_dav' = [tx_dav EXCEPT ![tx_cur] = TRUE]
    /\ out' = None
    /\ UNCHANGED <<tx_cur, txdma, tx_buff, tbu, rx>>

ResumeNot ==    \* Mutant: a suspended DMA is not resumed
    /\ Goto("stat", "loop")
    /\ tx_cur' = NextTx(tx_cur)
    /\ UNCHANGED <<out, txdma, tx_dav, tx_buff, tbu, rx>>

(* STAT is read; TBU is cleared and the DMA resumed, then the pointer      *)
(* moves on.  Between these the DMA, if suspended, does nothing.  TU, for  *)
(* which the code does the same, is one with TBU here.                     *)
Resume ==
    /\ Goto("stat", "loop")
    /\ tbu' = FALSE
    /\ tx_dma' = IF tbu THEN "running" ELSE tx_dma
    /\ tx_cur' = NextTx(tx_cur)
    /\ UNCHANGED <<out, tx_pos, wire, tx_dav, tx_buff, rx>>

(* The DMA.                                                                *)
TxSend ==
    /\ tx_dma = "running" /\ tx_dav[tx_pos]
    /\ wire' = tx_buff[tx_pos]
    /\ tx_dav' = [tx_dav EXCEPT ![tx_pos] = FALSE]
    /\ tx_pos' = NextTx(tx_pos)
    /\ UNCHANGED <<pc, txcpu, tx_dma, tx_buff, tbu, rx>>

TxLook ==
    /\ tx_dma = "running" /\ ~tx_dav[tx_pos] /\ tx_dma' = "looked"
    /\ UNCHANGED <<pc, txcpu, tx_pos, wire, tx_dav, tx_buff, tbu, rx>>

TxSuspend ==
    /\ tx_dma = "looked" /\ tx_dma' = "suspended" /\ tbu' = TRUE
    /\ UNCHANGED <<pc, txcpu, tx_pos, wire, tx_dav, tx_buff, rx>>

-----------------------------------------------------------------------------
(* enet_rxframe_size_get: a bad frame is dropped there.  The main loop     *)
(* calls lwip_frame_recv for a frame, and not for one that was dropped.    *)

Ready == ~rx_dav[rx_cur]

FrameDrop ==
    /\ pc = "loop"
    /\ Ready /\ rx_buff[rx_cur] = Damaged
    /\ rx_dav' = [rx_dav EXCEPT ![rx_cur] = TRUE]
    /\ rx_cur' = NextRx(rx_cur)
    /\ UNCHANGED <<pc, pbuf, up, rxdma, rx_buff, rbu, tx>>

FrameSize ==
    /\ Goto("loop", "input")
    /\ Ready /\ rx_buff[rx_cur] # Damaged
    /\ UNCHANGED <<tx, rx>>

-----------------------------------------------------------------------------
(* low_level_input: the frame is copied if there is memory for it; then    *)
(* enet_frame_receive, and the frame goes to the stack.                    *)

Input ==
    /\ Goto("input", "receive")
    /\ pbuf' \in {rx_buff[rx_cur], None}
    /\ UNCHANGED <<rx_cur, up, rxdma, rx_dav, rx_buff, rbu, tx>>

Receive ==
    /\ Goto("receive", "recover")
    /\ rx_dav' = [rx_dav EXCEPT ![rx_cur] = TRUE]
    /\ UNCHANGED <<rxcpu, rxdma, rx_buff, rbu, tx>>

Recover ==
    /\ Goto("recover", "loop")
    /\ rbu' = FALSE
    /\ rx_dma' = IF rbu THEN "running" ELSE rx_dma
    /\ rx_cur' = NextRx(rx_cur)
    /\ pbuf' = None /\ up' = IF pbuf = None THEN up ELSE pbuf
    /\ UNCHANGED <<rx_pos, rx_dav, rx_buff, tx>>

(* The DMA stores a frame, or misses it for want of a descriptor.  A       *)
(* suspended DMA may come back by itself when a frame arrives.             *)
RxStore ==
    /\ rx_dav[rx_pos] /\ rx_dma' = "running"
    /\ \E f \in Frames \cup {Damaged} : rx_buff' = [rx_buff EXCEPT ![rx_pos] = f]
    /\ rx_dav' = [rx_dav EXCEPT ![rx_pos] = FALSE]
    /\ rx_pos' = NextRx(rx_pos)
    /\ UNCHANGED <<pc, rxcpu, rbu, tx>>

RxMiss ==
    /\ rx_dma = "running" /\ ~rx_dav[rx_pos]
    /\ rx_dma' = "suspended" /\ rbu' = TRUE
    /\ UNCHANGED <<pc, rxcpu, rx_pos, rx_dav, rx_buff, tx>>

-----------------------------------------------------------------------------

Transmitting == Wait \/ Copy \/ Give \/ Resume
Receiving    == FrameDrop \/ FrameSize \/ Input \/ Receive \/ Recover
Dma          == TxSend \/ TxLook \/ TxSuspend
Next         == Output \/ Transmitting \/ Receiving \/ Dma \/ RxStore \/ RxMiss

Spec == Init /\ [][Next]_vars

(* The loop goes on with a frame it sends, and the DMA with its work.      *)
FairSpec == Spec /\ WF_vars(Transmitting) /\ WF_vars(Dma)

-----------------------------------------------------------------------------
(* The types of the descriptors, of the DMA's state and of the loop's.     *)
TypeOK ==
    /\ pc \in {"loop", "wait", "copy", "give", "stat", "input", "receive", "recover"}
    /\ out \in Frames \cup {None} /\ pbuf \in Frames \cup {None}
    /\ wire \in Frames \cup {None} /\ up \in Frames \cup {None}
    /\ tx_dav \in [TxDesc -> BOOLEAN] /\ tx_buff \in [TxDesc -> Frames \cup {None}]
    /\ rx_dav \in [RxDesc -> BOOLEAN]
    /\ rx_buff \in [RxDesc -> Frames \cup {None, Damaged}]
    /\ tx_cur \in TxDesc /\ tx_pos \in TxDesc /\ rx_cur \in RxDesc /\ rx_pos \in RxDesc
    /\ tx_dma \in {"running", "looked", "suspended"} /\ tbu \in BOOLEAN
    /\ rx_dma \in {"running", "suspended"} /\ rbu \in BOOLEAN

-----------------------------------------------------------------------------
(* A ring of size descriptors: the i-th from p on, how many lie from p to  *)
(* before e (all or none when p = e), and the frames in n of them.         *)
At(p, i, size) == IF p + i < size THEN p + i ELSE p + i - size

Count(p, e, full, size) ==
    CASE e > p -> e - p
      [] e < p -> e - p + size
      [] e = p -> IF full THEN size ELSE 0

Queue(buff, p, n, size) == [i \in 1..n |-> buff[At(p, i - 1, size)]]

(* Between a descriptor's handing over and the pointer's moving on, the    *)
(* pointer is one behind.                                                  *)
TxEnd   == IF pc = "stat" THEN NextTx(tx_cur) ELSE tx_cur
RxFirst == IF pc = "recover" THEN NextRx(rx_cur) ELSE rx_cur

TxN == Count(tx_pos, TxEnd, tx_dav[tx_pos], TXBUF_NUM)
RxN == Count(RxFirst, rx_pos, ~rx_dav[RxFirst], RXBUF_NUM)

TxQueue == Queue(tx_buff, tx_pos, TxN, TXBUF_NUM)

(* A frame that has been copied is still ahead of those in the descriptors. *)
Copied  == IF pc = "recover" /\ pbuf # None THEN <<pbuf>> ELSE <<>>
RxQueue == Copied \o Queue(rx_buff, RxFirst, RxN, RXBUF_NUM)

Link == INSTANCE EthLink WITH asked <- out, txq <- TxQueue, rxq <- RxQueue

(* The driver and the DMA, which share the descriptors and look at DAV at  *)
(* different times, keep the frames of each direction intact, in order and *)
(* once: none is overwritten, sent or handed up twice, and no damaged one  *)
(* is handed up (enet_frame_transmit, enet_frame_receive).                 *)
Implements == Link!Spec

(* low_level_output does not wait for ever, though a frame may be given to *)
(* the DMA after STAT is read and before it suspends itself: the frame     *)
(* after that one, in another descriptor, resumes it.                      *)
Sends == (pc = "wait") ~> (pc # "wait")

=============================================================================
