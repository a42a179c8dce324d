----------------------------- MODULE EthIf_proofs -----------------------------
(***************************************************************************)
(* Proofs about the network interface, for any number of descriptors and   *)
(* frames: the types, that it implements EthLink, and that it never waits  *)
(* for a suspended DMA.  The invariant is about rings: the descriptors one *)
(* side has handed to the other are those from one pointer up to the       *)
(* other, without a gap.                                                   *)
(***************************************************************************)
EXTENDS EthIf, SequenceTheorems, TLAPS

-----------------------------------------------------------------------------
(* Rings.  The n descriptors from p on, and no other, are in own; e is the *)
(* one after them.                                                         *)

Ring(own, p, n, e, N) ==
    /\ n \in 0..N /\ p \in 0..(N - 1) /\ own \subseteq 0..(N - 1)
    /\ \A i \in 0..(N - 1) : At(p, i, N) \in own <=> i < n
    /\ At(p, n, N) = e

After(d, N) == IF d = N - 1 THEN 0 ELSE d + 1

(* Positions on the ring.                                                  *)
LEMMA AtType ==
    ASSUME NEW N \in Nat \ {0}, NEW p \in 0..(N - 1), NEW i \in 0..N
    PROVE  At(p, i, N) \in 0..(N - 1)
  BY DEF At

(* No position is reached twice within a round.                            *)
LEMMA AtOnce ==
    ASSUME NEW N \in Nat \ {0}, NEW p \in 0..(N - 1), NEW i \in 0..(N - 1),
           NEW j \in 0..(N - 1), At(p, i, N) = At(p, j, N)
    PROVE  i = j
  BY DEF At

(* Every position is reached within a round.                               *)
LEMMA AtReaches ==
    ASSUME NEW N \in Nat \ {0}, NEW p \in 0..(N - 1), NEW d \in 0..(N - 1)
    PROVE  \E i \in 0..(N - 1) : At(p, i, N) = d
<1>1. CASE d >= p
  <2>1. d - p \in 0..(N - 1) /\ At(p, d - p, N) = d
    BY <1>1 DEF At
  <2> QED BY <2>1
<1>2. CASE d < p
  <2>1. d - p + N \in 0..(N - 1) /\ At(p, d - p + N, N) = d
    BY <1>2 DEF At
  <2> QED BY <2>1
<1> QED BY <1>1, <1>2

(* One step further, from either end.                                      *)
LEMMA AtNext ==
    ASSUME NEW N \in Nat \ {0}, NEW p \in 0..(N - 1), NEW i \in 0..(N - 1)
    PROVE  /\ At(After(p, N), i, N) = At(p, i + 1, N)
           /\ After(At(p, i, N), N) = At(p, i + 1, N)
           /\ After(p, N) \in 0..(N - 1)
           /\ At(p, 0, N) = p
  BY DEF At, After

(* The pointers and the first descriptor tell the number.                  *)
LEMMA RingCount ==
    ASSUME NEW N \in Nat \ {0}, NEW own, NEW p, NEW n, NEW e, NEW full \in BOOLEAN,
           Ring(own, p, n, e, N), full <=> p \in own
    PROVE  Count(p, e, full, N) = n
<1>1. n \in 0..N /\ p \in 0..(N - 1) /\ At(p, n, N) = e
  BY DEF Ring
<1>2. p \in own <=> 0 < n
  <2>1. At(p, 0, N) = p /\ 0 \in 0..(N - 1)
    BY <1>1 DEF At
  <2> QED BY <2>1 DEF Ring
<1>3. CASE n = 0
  BY <1>1, <1>2, <1>3 DEF At, Count
<1>4. CASE n = N
  BY <1>1, <1>2, <1>4 DEF At, Count
<1>5. CASE n # 0 /\ n # N
  <2>1. CASE p + n < N
    BY <1>1, <1>5, <2>1 DEF At, Count
  <2>2. CASE p + n >= N
    BY <1>1, <1>5, <2>2 DEF At, Count
  <2> QED BY <1>1, <2>1, <2>2
<1> QED BY <1>3, <1>4, <1>5

(* Whether there is a descriptor at either end.                            *)
LEMMA RingEnds ==
    ASSUME NEW N \in Nat \ {0}, NEW own, NEW p, NEW n, NEW e, Ring(own, p, n, e, N)
    PROVE  /\ p \in own <=> n > 0
           /\ e \notin own <=> n < N
           /\ e \in 0..(N - 1)
<1>1. n \in 0..N /\ p \in 0..(N - 1) /\ At(p, n, N) = e
  BY DEF Ring
<1>2. At(p, 0, N) = p /\ 0 \in 0..(N - 1)
  BY <1>1 DEF At
<1>3. p \in own <=> n > 0
  BY <1>1, <1>2 DEF Ring
<1>4. e \notin own <=> n < N
  <2>1. CASE n < N
    BY <2>1, <1>1 DEF Ring
  <2>2. CASE n = N
    <3>1. e = p
      BY <2>2, <1>1 DEF At
    <3> QED BY <3>1, <2>2, <1>1, <1>3
  <2> QED BY <1>1, <2>1, <2>2
<1> QED BY <1>1, <1>3, <1>4, AtType

(* One more is handed over.                                                *)
LEMMA RingPut ==
    ASSUME NEW N \in Nat \ {0}, NEW own, NEW p, NEW n, NEW e, Ring(own, p, n, e, N),
           e \notin own
    PROVE  Ring(own \cup {e}, p, n + 1, After(e, N), N)
<1>0. n < N /\ e \in 0..(N - 1)
  BY RingEnds
<1>1. n \in 0..(N - 1) /\ p \in 0..(N - 1) /\ At(p, n, N) = e /\ own \subseteq 0..(N - 1)
  BY <1>0 DEF Ring
<1>2. At(p, n + 1, N) = After(e, N)
  BY <1>1, AtNext
<1>3. ASSUME NEW i \in 0..(N - 1)
      PROVE  At(p, i, N) \in own \cup {e} <=> i < n + 1
  <2>1. At(p, i, N) = e => i = n
    BY <1>1, AtOnce
  <2>2. At(p, i, N) \in own <=> i < n
    BY DEF Ring
  <2>3. i < n + 1 <=> i < n \/ i = n
    BY <1>1
  <2> QED BY <1>1, <2>1, <2>2, <2>3
<1> QED BY <1>0, <1>1, <1>2, <1>3 DEF Ring

(* The first is given back.                                                *)
LEMMA RingGet ==
    ASSUME NEW N \in Nat \ {0}, NEW own, NEW p, NEW n, NEW e, Ring(own, p, n, e, N),
           p \in own
    PROVE  Ring(own \ {p}, After(p, N), n - 1, e, N)
<1>0. n > 0
  BY RingEnds
<1>1. n \in 1..N /\ p \in 0..(N - 1) /\ At(p, n, N) = e /\ own \subseteq 0..(N - 1)
  BY <1>0 DEF Ring
<1>2. n - 1 \in 0..(N - 1) /\ At(After(p, N), n - 1, N) = e
  BY <1>1, AtNext
<1>3. ASSUME NEW i \in 0..(N - 1)
      PROVE  At(After(p, N), i, N) \in own \ {p} <=> i < n - 1
  <2>1. At(After(p, N), i, N) = At(p, i + 1, N)
    BY <1>1, AtNext
  <2>2. CASE i = N - 1
    <3>1. At(p, i + 1, N) = p
      BY <2>2, <1>1 DEF At
    <3> QED BY <2>1, <2>2, <3>1, <1>1
  <2>3. CASE i < N - 1
    <3>1. i + 1 \in 0..(N - 1)
      BY <2>3
    <3>2. At(p, i + 1, N) \in own <=> i + 1 < n
      BY <3>1 DEF Ring
    <3>3. At(p, i + 1, N) # p
      BY <2>3, <1>1 DEF At
    <3> QED BY <2>1, <3>2, <3>3, <1>1
  <2> QED BY <2>2, <2>3
<1>4. After(p, N) \in 0..(N - 1)
  BY <1>1 DEF After
<1> QED BY <1>1, <1>2, <1>3, <1>4 DEF Ring
-----------------------------------------------------------------------------
(* The frames in a ring.                                                   *)

(* They are a sequence of that many frames.                                *)
LEMMA QueueType ==
    ASSUME NEW N \in Nat \ {0}, NEW V, NEW b \in [0..(N - 1) -> V],
           NEW p \in 0..(N - 1), NEW n \in 0..N
    PROVE  Queue(b, p, n, N) \in Seq(V) /\ Len(Queue(b, p, n, N)) = n
<1>1. ASSUME NEW i \in 1..n
      PROVE  b[At(p, i - 1, N)] \in V
  <2>1. i - 1 \in 0..N
    OBVIOUS
  <2> QED BY <2>1, AtType
<1> QED BY <1>1 DEF Queue

(* One more is the last of the queue.                                      *)
LEMMA QueuePut ==
    ASSUME NEW N \in Nat \ {0}, NEW V, NEW b \in [0..(N - 1) -> V],
           NEW p \in 0..(N - 1), NEW n \in 0..(N - 1)
    PROVE  Queue(b, p, n + 1, N) = Append(Queue(b, p, n, N), b[At(p, n, N)])
<1> DEFINE q == Queue(b, p, n, N)
           r == Queue(b, p, n + 1, N)
<1>0. n \in 0..N
  OBVIOUS
<1>1. q \in Seq(V) /\ Len(q) = n /\ r \in Seq(V) /\ Len(r) = n + 1
  <2> DEFINE n2 == n + 1
  <2>1. n2 \in 0..N
    OBVIOUS
  <2> HIDE DEF n2
  <2>2. Queue(b, p, n2, N) \in Seq(V) /\ Len(Queue(b, p, n2, N)) = n2
    BY <2>1, QueueType
  <2>3. q \in Seq(V) /\ Len(q) = n
    BY <1>0, QueueType
  <2> QED BY <2>2, <2>3 DEF n2
<1>2. b[At(p, n, N)] \in V
  BY AtType
<1>3. ASSUME NEW i \in 1..(n + 1)
      PROVE  r[i] = Append(q, b[At(p, n, N)])[i]
  <2>1. CASE i = n + 1
    BY <2>1, <1>1, <1>2 DEF Queue
  <2>2. CASE i \in 1..n
    <3>1. r[i] = b[At(p, i - 1, N)] /\ q[i] = b[At(p, i - 1, N)]
      BY <2>2 DEF Queue
    <3> HIDE DEF q, r
    <3> QED BY <3>1, <2>2, <1>1, <1>2
  <2> HIDE DEF q, r
  <2> QED BY <1>0, <2>1, <2>2
<1> HIDE DEF q, r
<1>4. Append(q, b[At(p, n, N)]) \in Seq(V) /\ Len(Append(q, b[At(p, n, N)])) = n + 1
  BY <1>1, <1>2
<1>5. r = Append(q, b[At(p, n, N)])
  BY <1>1, <1>3, <1>4, SeqEqual
<1> QED BY <1>5 DEF q, r

(* The first is the head of the queue, and the others its tail.            *)
LEMMA QueueGet ==
    ASSUME NEW N \in Nat \ {0}, NEW V, NEW b \in [0..(N - 1) -> V],
           NEW p \in 0..(N - 1), NEW n \in 1..N
    PROVE  /\ Queue(b, p, n, N) # <<>>
           /\ Head(Queue(b, p, n, N)) = b[p]
           /\ Tail(Queue(b, p, n, N)) = Queue(b, After(p, N), n - 1, N)
<1> DEFINE q == Queue(b, p, n, N)
           r == Queue(b, After(p, N), n - 1, N)
<1>1. q \in Seq(V) /\ Len(q) = n
  BY QueueType
<1>2. After(p, N) \in 0..(N - 1) /\ n - 1 \in 0..N
  BY AtNext
<1>3. r \in Seq(V) /\ Len(r) = n - 1
  <2> DEFINE p2 == After(p, N)
             n2 == n - 1
  <2>1. p2 \in 0..(N - 1) /\ n2 \in 0..N
    BY <1>2
  <2> HIDE DEF p2, n2
  <2>2. Queue(b, p2, n2, N) \in Seq(V) /\ Len(Queue(b, p2, n2, N)) = n2
    BY <2>1, QueueType
  <2> QED BY <2>2 DEF p2, n2
<1>4. q[1] = b[p]
  <2>1. At(p, 1 - 1, N) = p
    BY DEF At
  <2> QED BY <2>1 DEF Queue
<1>5. ASSUME NEW i \in 1..(n - 1)
      PROVE  r[i] = q[i + 1]
  <2>1. r[i] = b[At(After(p, N), i - 1, N)] /\ q[i + 1] = b[At(p, i + 1 - 1, N)]
    BY DEF Queue
  <2>2. i - 1 \in 0..(N - 1) /\ i - 1 + 1 = i + 1 - 1
    OBVIOUS
  <2>3. At(After(p, N), i - 1, N) = At(p, i - 1 + 1, N)
    BY <2>2, AtNext
  <2> QED BY <2>1, <2>2, <2>3
<1> HIDE DEF q, r
<1>6. q # <<>> /\ Head(q) = q[1]
  BY <1>1
<1>7. Tail(q) \in Seq(V) /\ Len(Tail(q)) = n - 1
      /\ \A i \in 1..(n - 1) : Tail(q)[i] = q[i + 1]
  BY <1>1, <1>6
<1>8. Tail(q) = r
  BY <1>3, <1>5, <1>7, SeqEqual
<1> QED BY <1>4, <1>6, <1>8 DEF q, r

(* What is written outside the queue does not change it.                   *)
LEMMA QueueOutside ==
    ASSUME NEW N \in Nat \ {0}, NEW b, NEW c, NEW own, NEW p, NEW n, NEW e,
           Ring(own, p, n, e, N), \A d \in own : c[d] = b[d]
    PROVE  Queue(c, p, n, N) = Queue(b, p, n, N)
<1>1. n \in 0..N /\ p \in 0..(N - 1)
  BY DEF Ring
<1>2. ASSUME NEW i \in 1..n
      PROVE  c[At(p, i - 1, N)] = b[At(p, i - 1, N)]
  <2>1. i - 1 \in 0..(N - 1) /\ i - 1 < n
    BY <1>1
  <2>2. At(p, i - 1, N) \in own
    BY <2>1 DEF Ring
  <2> QED BY <2>2
<1> QED BY <1>2 DEF Queue

-----------------------------------------------------------------------------
(* The invariant.                                                          *)

TxOwn == {d \in TxDesc : tx_dav[d]}
RxOwn == {d \in RxDesc : ~rx_dav[d]}

TxInv ==
    /\ Ring(TxOwn, tx_pos, TxN, TxEnd, TXBUF_NUM)
    /\ pc \in {"copy", "give"} => ~tx_dav[tx_cur]
    /\ pc = "give" => tx_buff[tx_cur] = out
    /\ out # None <=> pc \in {"wait", "copy", "give"}

RxInv ==
    /\ Ring(RxOwn, RxFirst, RxN, rx_pos, RXBUF_NUM)
    /\ pc \in {"input", "receive"} => ~rx_dav[rx_cur] /\ rx_buff[rx_cur] # Damaged
    /\ pbuf # None => pc \in {"receive", "recover"}
    /\ pc = "receive" => pbuf \in {rx_buff[rx_cur], None}

IInv == TypeOK /\ TxInv /\ RxInv

(* The numbers of descriptors, and where they come together.               *)
LEMMA Nums ==
    /\ TXBUF_NUM \in Nat \ {0} /\ RXBUF_NUM \in Nat \ {0}
    /\ TxDesc = 0..(TXBUF_NUM - 1) /\ RxDesc = 0..(RXBUF_NUM - 1)
    /\ \A d \in TxDesc : NextTx(d) = After(d, TXBUF_NUM) /\ NextTx(d) \in TxDesc
    /\ \A d \in RxDesc : NextRx(d) = After(d, RXBUF_NUM) /\ NextRx(d) \in RxDesc
  BY BufAssumption DEF TxDesc, RxDesc, NextTx, NextRx, After

(* The queues after a step follow from the rings after it.                 *)
LEMMA TxRing ==
    ASSUME TypeOK', NEW n, Ring(TxOwn', tx_pos', n, TxEnd', TXBUF_NUM)
    PROVE  /\ Ring(TxOwn', tx_pos', TxN', TxEnd', TXBUF_NUM)
           /\ TxQueue' = Queue(tx_buff', tx_pos', n, TXBUF_NUM)
<1>1. tx_dav'[tx_pos'] \in BOOLEAN /\ (tx_dav'[tx_pos'] <=> tx_pos' \in TxOwn')
  BY DEF TypeOK, TxOwn
<1>2. TxN' = n
  BY <1>1, Nums, RingCount DEF TxN
<1> QED BY <1>2 DEF TxQueue

(* The same for receiving.                                                 *)
LEMMA RxRing ==
    ASSUME TypeOK', NEW n, Ring(RxOwn', RxFirst', n, rx_pos', RXBUF_NUM)
    PROVE  /\ Ring(RxOwn', RxFirst', RxN', rx_pos', RXBUF_NUM)
           /\ RxQueue' = Copied' \o Queue(rx_buff', RxFirst', n, RXBUF_NUM)
<1>0. RxFirst' \in RxDesc
  BY Nums DEF Ring
<1>1. (~rx_dav'[RxFirst']) \in BOOLEAN /\ ((~rx_dav'[RxFirst']) <=> RxFirst' \in RxOwn')
  BY <1>0 DEF TypeOK, RxOwn
<1>2. RxN' = n
  BY <1>1, Nums, RingCount DEF RxN
<1> QED BY <1>2 DEF RxQueue

-----------------------------------------------------------------------------
(* Types.                                                                  *)

(* Initially.                                                              *)
LEMMA TypeInit == Init => TypeOK
<1> SUFFICES ASSUME Init PROVE TypeOK
  OBVIOUS
<1>1. 0 \in TxDesc /\ 0 \in RxDesc
  BY Nums
<1>2. /\ tx_dav \in [TxDesc -> BOOLEAN] /\ tx_buff \in [TxDesc -> Frames \cup {None}]
      /\ rx_dav \in [RxDesc -> BOOLEAN]
      /\ rx_buff \in [RxDesc -> Frames \cup {None, Damaged}]
  BY DEF Init
<1> QED BY <1>1, <1>2 DEF Init, TypeOK

(* Each step, if no damaged frame is about to be copied.                   *)
LEMMA TypeStep ==
    TypeOK /\ (pc = "input" => rx_buff[rx_cur] # Damaged) /\ [Next]_vars => TypeOK'
<1> SUFFICES ASSUME TypeOK, pc = "input" => rx_buff[rx_cur] # Damaged, [Next]_vars
             PROVE  TypeOK'
  OBVIOUS
<1> USE Nums DEF TypeOK, Goto
<1>1. CASE Output
  BY <1>1 DEF Output, txdma, rx, rxcpu, rxdma
<1>2. CASE Wait
  BY <1>2 DEF Wait, tx, rx, txcpu, txdma, rxcpu, rxdma
<1>3. CASE Copy
  BY <1>3 DEF Copy, txcpu, txdma, rx, rxcpu, rxdma
<1>4. CASE Give
  BY <1>4 DEF Give, txdma, rx, rxcpu, rxdma
<1>5. CASE Resume
  BY <1>5 DEF Resume, rx, rxcpu, rxdma
<1>6. CASE TxSend
  BY <1>6 DEF TxSend, txcpu, rx, rxcpu, rxdma
<1>7. CASE TxLook
  BY <1>7 DEF TxLook, txcpu, rx, rxcpu, rxdma
<1>8. CASE TxSuspend
  BY <1>8 DEF TxSuspend, txcpu, rx, rxcpu, rxdma
<1>9. CASE FrameDrop
  BY <1>9 DEF FrameDrop, rxdma, tx, txcpu, txdma
<1>10. CASE FrameSize
  BY <1>10 DEF FrameSize, tx, rx, txcpu, txdma, rxcpu, rxdma
<1>11. CASE Receive
  BY <1>11 DEF Receive, rxcpu, rxdma, tx, txcpu, txdma
<1>12. CASE Recover
  BY <1>12 DEF Recover, tx, txcpu, txdma
<1>13. CASE RxStore
  <2>1. PICK f \in Frames \cup {Damaged} : rx_buff' = [rx_buff EXCEPT ![rx_pos] = f]
    BY <1>13 DEF RxStore
  <2>2. rx_buff' \in [RxDesc -> Frames \cup {None, Damaged}]
    BY <2>1
  <2>3. rx_dav' \in [RxDesc -> BOOLEAN] /\ rx_pos' \in RxDesc /\ rx_dma' = "running"
    BY <1>13 DEF RxStore
  <2> QED BY <1>13, <2>2, <2>3 DEF RxStore, rxcpu, tx, txcpu, txdma
<1>14. CASE RxMiss
  BY <1>14 DEF RxMiss, rxcpu, tx, txcpu, txdma
<1>15. CASE UNCHANGED vars
  <2>1. pc' = pc /\ UNCHANGED tx /\ UNCHANGED rx
    BY <1>15 DEF vars
  <2>2. /\ out' = out /\ tx_cur' = tx_cur /\ tx_pos' = tx_pos /\ tx_dma' = tx_dma
        /\ wire' = wire /\ tx_dav' = tx_dav /\ tx_buff' = tx_buff /\ tbu' = tbu
    BY <2>1 DEF tx, txcpu, txdma
  <2>3. /\ pbuf' = pbuf /\ rx_cur' = rx_cur /\ up' = up /\ rx_pos' = rx_pos
        /\ rx_dma' = rx_dma /\ rx_dav' = rx_dav /\ rx_buff' = rx_buff /\ rbu' = rbu
    BY <2>1 DEF rx, rxcpu, rxdma
  <2>4. /\ tx_dav' \in [TxDesc -> BOOLEAN] /\ tx_buff' \in [TxDesc -> Frames \cup {None}]
        /\ tbu' \in BOOLEAN /\ rbu' \in BOOLEAN
        /\ rx_dav' \in [RxDesc -> BOOLEAN]
        /\ rx_buff' \in [RxDesc -> Frames \cup {None, Damaged}]
    BY <2>2, <2>3
  <2> QED BY <2>1, <2>2, <2>3, <2>4
<1>16. CASE Input
  <2>1. pbuf' \in Frames \cup {None} /\ pc' = "receive"
    BY <1>16 DEF Input
  <2> QED BY <1>16, <2>1 DEF Input, rxdma, tx, txcpu, txdma
<1> QED
  BY <1>1, <1>2, <1>3, <1>4, <1>5, <1>6, <1>7, <1>8, <1>9, <1>10, <1>11, <1>12,
     <1>13, <1>14, <1>15, <1>16
  DEF Next, Transmitting, Receiving, Dma
-----------------------------------------------------------------------------
(* What is left alone.                                                     *)

Sending == {"wait", "copy", "give", "stat"}
Taking  == {"input", "receive", "recover"}

(* A step elsewhere changes nothing about sending.                         *)
LEMMA TxIdle ==
    ASSUME IInv, TypeOK', UNCHANGED tx,
           pc' = pc \/ (pc \notin Sending /\ pc' \notin Sending)
    PROVE  TxInv' /\ TxQueue' = TxQueue /\ wire' = wire /\ out' = out
<1>1. /\ out' = out /\ tx_cur' = tx_cur /\ tx_pos' = tx_pos
      /\ wire' = wire /\ tx_dav' = tx_dav /\ tx_buff' = tx_buff
  BY DEF tx, txcpu, txdma
<1>2. TxEnd' = TxEnd
  BY <1>1 DEF TxEnd, Sending, NextTx
<1>3. TxOwn' = TxOwn
  BY <1>1 DEF TxOwn
<1>4. TxN' = TxN /\ TxQueue' = TxQueue
  BY <1>1, <1>2 DEF TxN, TxQueue, Queue
<1>5. TxInv'
  BY <1>1, <1>2, <1>3, <1>4 DEF IInv, TxInv, Sending
<1> QED BY <1>1, <1>4, <1>5

(* A step elsewhere changes nothing about receiving.                       *)
LEMMA RxIdle ==
    ASSUME IInv, TypeOK', UNCHANGED rx,
           pc' = pc \/ (pc \notin Taking /\ pc' \notin Taking)
    PROVE  RxInv' /\ RxQueue' = RxQueue /\ up' = up
<1>1. /\ pbuf' = pbuf /\ rx_cur' = rx_cur /\ up' = up /\ rx_pos' = rx_pos
      /\ rx_dav' = rx_dav /\ rx_buff' = rx_buff
  BY DEF rx, rxcpu, rxdma
<1>2. RxFirst' = RxFirst
  BY <1>1 DEF RxFirst, Taking, NextRx
<1>3. RxOwn' = RxOwn
  BY <1>1 DEF RxOwn
<1>4. RxN' = RxN /\ Copied' = Copied
  BY <1>1, <1>2 DEF RxN, Copied, Taking
<1>5. RxQueue' = RxQueue
  BY <1>1, <1>2, <1>4 DEF RxQueue, Queue
<1>6. RxInv'
  BY <1>1, <1>2, <1>3, <1>4 DEF IInv, RxInv, Taking
<1> QED BY <1>1, <1>5, <1>6

-----------------------------------------------------------------------------
(* Sending.                                                                *)

(* lwIP calls low_level_output.                                            *)
LEMMA OutputStep ==
    ASSUME IInv, TypeOK', Output
    PROVE  IInv' /\ Link!Ask
<1>1. RxInv' /\ RxQueue' = RxQueue /\ up' = up
  BY RxIdle DEF Output, Goto, Taking
<1>2. /\ pc = "loop" /\ pc' = "wait" /\ out' \in Frames
      /\ tx_cur' = tx_cur /\ tx_pos' = tx_pos /\ wire' = wire
      /\ tx_dav' = tx_dav /\ tx_buff' = tx_buff
  BY DEF Output, Goto, txdma
<1>3. TxEnd' = TxEnd /\ TxOwn' = TxOwn
  BY <1>2 DEF TxEnd, TxOwn
<1>4. TxN' = TxN /\ TxQueue' = TxQueue
  BY <1>2, <1>3 DEF TxN, TxQueue, Queue
<1>5. out = None
  BY <1>2 DEF IInv, TxInv
<1>6. TxInv'
  BY <1>2, <1>3, <1>4, FrameAssumption DEF IInv, TxInv
<1>7. Link!Ask
  BY <1>1, <1>2, <1>4, <1>5 DEF Link!Ask
<1> QED BY <1>1, <1>6, <1>7 DEF IInv

(* The current descriptor is free.                                         *)
LEMMA WaitStep ==
    ASSUME IInv, TypeOK', Wait
    PROVE  IInv' /\ UNCHANGED Link!vars
<1>1. RxInv' /\ RxQueue' = RxQueue /\ up' = up
  BY RxIdle DEF Wait, Goto, Taking
<1>2. /\ pc = "wait" /\ pc' = "copy" /\ ~tx_dav[tx_cur] /\ out' = out
      /\ tx_cur' = tx_cur /\ tx_pos' = tx_pos /\ wire' = wire
      /\ tx_dav' = tx_dav /\ tx_buff' = tx_buff
  BY DEF Wait, Goto, tx, txcpu, txdma
<1>3. TxEnd' = TxEnd /\ TxOwn' = TxOwn
  BY <1>2 DEF TxEnd, TxOwn
<1>4. TxN' = TxN /\ TxQueue' = TxQueue
  BY <1>2, <1>3 DEF TxN, TxQueue, Queue
<1>5. TxInv'
  BY <1>2, <1>3, <1>4 DEF IInv, TxInv
<1> QED BY <1>1, <1>2, <1>4, <1>5 DEF IInv, Link!vars

(* Copying into the current descriptor changes no frame on its way.        *)
LEMMA CopyStep ==
    ASSUME IInv, TypeOK', Copy
    PROVE  IInv' /\ UNCHANGED Link!vars
<1>1. RxInv' /\ RxQueue' = RxQueue /\ up' = up
  BY RxIdle DEF Copy, Goto, Taking
<1>2. /\ pc = "copy" /\ pc' = "give" /\ out' = out
      /\ tx_buff' = [tx_buff EXCEPT ![tx_cur] = out]
      /\ tx_cur' = tx_cur /\ tx_pos' = tx_pos /\ wire' = wire /\ tx_dav' = tx_dav
  BY DEF Copy, Goto, txcpu, txdma
<1>3. TxEnd' = TxEnd /\ TxOwn' = TxOwn
  BY <1>2 DEF TxEnd, TxOwn
<1>4. TxN' = TxN
  BY <1>2, <1>3 DEF TxN
<1>5. Ring(TxOwn, tx_pos, TxN, TxEnd, TXBUF_NUM) /\ tx_cur \notin TxOwn
  BY <1>2 DEF IInv, TxInv, TxOwn
<1>6. \A d \in TxOwn : tx_buff'[d] = tx_buff[d]
  BY <1>2, <1>5 DEF IInv, TypeOK, TxOwn
<1>7. TxQueue' = TxQueue
  <2>1. Queue(tx_buff', tx_pos, TxN, TXBUF_NUM) = Queue(tx_buff, tx_pos, TxN, TXBUF_NUM)
    BY <1>5, <1>6, Nums, QueueOutside
  <2> QED BY <2>1, <1>2, <1>4 DEF TxQueue
<1>8. tx_buff'[tx_cur'] = out'
  BY <1>2 DEF IInv, TypeOK
<1>9. TxInv'
  BY <1>2, <1>3, <1>4, <1>8 DEF IInv, TxInv
<1> QED BY <1>1, <1>2, <1>7, <1>9 DEF IInv, Link!vars

(* The descriptor is handed to the DMA.                                    *)
LEMMA GiveStep ==
    ASSUME IInv, TypeOK', Give
    PROVE  IInv' /\ Link!Accept
<1>1. RxInv' /\ RxQueue' = RxQueue /\ up' = up
  BY RxIdle DEF Give, Goto, Taking
<1>2. /\ pc = "give" /\ pc' = "stat" /\ out' = None
      /\ tx_dav' = [tx_dav EXCEPT ![tx_cur] = TRUE]
      /\ tx_cur' = tx_cur /\ tx_pos' = tx_pos /\ wire' = wire /\ tx_buff' = tx_buff
  BY DEF Give, Goto, txdma
<1>3. /\ Ring(TxOwn, tx_pos, TxN, tx_cur, TXBUF_NUM) /\ tx_cur \notin TxOwn
      /\ tx_buff[tx_cur] = out /\ out # None
  BY <1>2 DEF IInv, TxInv, TxOwn, TxEnd
<1>4. tx_cur \in TxDesc /\ tx_pos \in TxDesc /\ tx_dav \in [TxDesc -> BOOLEAN]
  BY DEF IInv, TypeOK
<1>5. TxOwn' = TxOwn \cup {tx_cur}
  BY <1>2, <1>4 DEF TxOwn
<1>6. TxEnd' = After(tx_cur, TXBUF_NUM)
  BY <1>2, <1>4, Nums DEF TxEnd
<1>7. Ring(TxOwn', tx_pos', TxN + 1, TxEnd', TXBUF_NUM)
  BY <1>2, <1>3, <1>5, <1>6, Nums, RingPut
<1>8. /\ Ring(TxOwn', tx_pos', TxN', TxEnd', TXBUF_NUM)
      /\ TxQueue' = Queue(tx_buff, tx_pos, TxN + 1, TXBUF_NUM)
  BY <1>2, <1>7, TxRing
<1>9. TxN \in 0..(TXBUF_NUM - 1) /\ At(tx_pos, TxN, TXBUF_NUM) = tx_cur
  <2>1. TxN < TXBUF_NUM
    BY <1>3, Nums, RingEnds
  <2> QED BY <2>1, <1>3, Nums DEF Ring
<1>10. TxQueue' = Append(TxQueue, out)
  <2>1. tx_buff \in [0..(TXBUF_NUM - 1) -> Frames \cup {None}] /\ tx_pos \in 0..(TXBUF_NUM - 1)
    BY Nums DEF IInv, TypeOK
  <2>2. Queue(tx_buff, tx_pos, TxN + 1, TXBUF_NUM)
          = Append(Queue(tx_buff, tx_pos, TxN, TXBUF_NUM), tx_buff[At(tx_pos, TxN, TXBUF_NUM)])
    BY <2>1, <1>9, Nums, QueuePut
  <2> QED BY <2>2, <1>3, <1>8, <1>9 DEF TxQueue
<1>11. TxInv'
  BY <1>2, <1>8 DEF TxInv
<1>12. Link!Accept
  BY <1>1, <1>2, <1>3, <1>10 DEF Link!Accept
<1> QED BY <1>1, <1>11, <1>12 DEF IInv

(* The pointer moves on.                                                   *)
LEMMA ResumeStep ==
    ASSUME IInv, TypeOK', Resume
    PROVE  IInv' /\ UNCHANGED Link!vars
<1>1. RxInv' /\ RxQueue' = RxQueue /\ up' = up
  BY RxIdle DEF Resume, Goto, Taking
<1>2. /\ pc = "stat" /\ pc' = "loop" /\ tx_cur' = NextTx(tx_cur) /\ out' = out
      /\ tx_pos' = tx_pos /\ wire' = wire /\ tx_dav' = tx_dav /\ tx_buff' = tx_buff
  BY DEF Resume, Goto
<1>3. TxEnd' = TxEnd /\ TxOwn' = TxOwn
  BY <1>2 DEF TxEnd, TxOwn
<1>4. TxN' = TxN /\ TxQueue' = TxQueue
  BY <1>2, <1>3 DEF TxN, TxQueue, Queue
<1>5. TxInv'
  BY <1>2, <1>3, <1>4 DEF IInv, TxInv
<1> QED BY <1>1, <1>2, <1>4, <1>5 DEF IInv, Link!vars

(* The DMA sends a frame and gives its descriptor back.                    *)
LEMMA TxSendStep ==
    ASSUME IInv, TypeOK', TxSend
    PROVE  IInv' /\ Link!Send
<1>1. RxInv' /\ RxQueue' = RxQueue /\ up' = up
  BY RxIdle DEF TxSend
<1>2. /\ tx_dav[tx_pos] /\ wire' = tx_buff[tx_pos]
      /\ tx_dav' = [tx_dav EXCEPT ![tx_pos] = FALSE]
      /\ tx_pos' = NextTx(tx_pos) /\ pc' = pc /\ tx_cur' = tx_cur /\ out' = out
      /\ tx_buff' = tx_buff
  BY DEF TxSend, txcpu
<1>3. tx_cur \in TxDesc /\ tx_pos \in TxDesc /\ tx_dav \in [TxDesc -> BOOLEAN]
  BY DEF IInv, TypeOK
<1>4. Ring(TxOwn, tx_pos, TxN, TxEnd, TXBUF_NUM) /\ tx_pos \in TxOwn
  BY <1>2, <1>3 DEF IInv, TxInv, TxOwn
<1>5. TxOwn' = TxOwn \ {tx_pos} /\ TxEnd' = TxEnd /\ tx_pos' = After(tx_pos, TXBUF_NUM)
  BY <1>2, <1>3, Nums DEF TxOwn, TxEnd, NextTx
<1>6. Ring(TxOwn', tx_pos', TxN - 1, TxEnd', TXBUF_NUM)
  BY <1>4, <1>5, Nums, RingGet
<1>7. /\ Ring(TxOwn', tx_pos', TxN', TxEnd', TXBUF_NUM)
      /\ TxQueue' = Queue(tx_buff, tx_pos', TxN - 1, TXBUF_NUM)
  BY <1>2, <1>6, TxRing
<1>8. TxN \in 1..TXBUF_NUM
  <2>1. TxN > 0
    BY <1>4, Nums, RingEnds
  <2> QED BY <2>1, <1>4, Nums DEF Ring
<1>9. TxQueue # <<>> /\ wire' = Head(TxQueue) /\ TxQueue' = Tail(TxQueue)
  <2>1. tx_buff \in [0..(TXBUF_NUM - 1) -> Frames \cup {None}] /\ tx_pos \in 0..(TXBUF_NUM - 1)
    BY Nums DEF IInv, TypeOK
  <2>2. /\ TxQueue # <<>> /\ Head(TxQueue) = tx_buff[tx_pos]
        /\ Tail(TxQueue) = Queue(tx_buff, After(tx_pos, TXBUF_NUM), TxN - 1, TXBUF_NUM)
    <3> DEFINE n2 == TxN
               q == Queue(tx_buff, tx_pos, n2, TXBUF_NUM)
    <3>1. n2 \in 1..TXBUF_NUM /\ TXBUF_NUM \in Nat \ {0}
      BY <1>8, Nums
    <3> HIDE DEF n2
    <3>2. /\ q # <<>> /\ Head(q) = tx_buff[tx_pos]
          /\ Tail(q) = Queue(tx_buff, After(tx_pos, TXBUF_NUM), n2 - 1, TXBUF_NUM)
      <4> HIDE DEF q
      <4>1. /\ Queue(tx_buff, tx_pos, n2, TXBUF_NUM) # <<>>
            /\ Head(Queue(tx_buff, tx_pos, n2, TXBUF_NUM)) = tx_buff[tx_pos]
            /\ Tail(Queue(tx_buff, tx_pos, n2, TXBUF_NUM))
                 = Queue(tx_buff, After(tx_pos, TXBUF_NUM), n2 - 1, TXBUF_NUM)
        BY ONLY <2>1, <3>1, QueueGet
      <4> QED BY <4>1 DEF q
    <3> QED BY <3>2 DEF n2, TxQueue
  <2> QED BY <2>2, <1>2, <1>5, <1>7
<1>10. TxInv'
  <2>1. pc \in {"copy", "give"} => ~tx_dav'[tx_cur]
    BY <1>2, <1>3 DEF IInv, TxInv
  <2> QED BY <2>1, <1>2, <1>7 DEF IInv, TxInv
<1>11. Link!Send
  BY <1>1, <1>2, <1>9 DEF Link!Send
<1> QED BY <1>1, <1>10, <1>11 DEF IInv

(* The DMA looks, or suspends itself.                                      *)
LEMMA TxLookStep ==
    ASSUME IInv, TypeOK', TxLook \/ TxSuspend
    PROVE  IInv' /\ UNCHANGED Link!vars
<1>1. RxInv' /\ RxQueue' = RxQueue /\ up' = up
  BY RxIdle DEF TxLook, TxSuspend
<1>2. /\ pc' = pc /\ tx_cur' = tx_cur /\ out' = out
      /\ tx_pos' = tx_pos /\ wire' = wire /\ tx_dav' = tx_dav /\ tx_buff' = tx_buff
  BY DEF TxLook, TxSuspend, txcpu
<1>3. TxEnd' = TxEnd /\ TxOwn' = TxOwn
  BY <1>2 DEF TxEnd, TxOwn, NextTx
<1>4. TxN' = TxN /\ TxQueue' = TxQueue
  BY <1>2, <1>3 DEF TxN, TxQueue, Queue
<1>5. TxInv'
  BY <1>2, <1>3, <1>4 DEF IInv, TxInv
<1> QED BY <1>1, <1>2, <1>4, <1>5 DEF IInv, Link!vars
-----------------------------------------------------------------------------
(* Receiving.                                                              *)

(* A damaged frame is dropped.                                             *)
LEMMA FrameDropStep ==
    ASSUME IInv, TypeOK', FrameDrop
    PROVE  IInv' /\ Link!Discard
<1>1. TxInv' /\ TxQueue' = TxQueue /\ wire' = wire /\ out' = out
  BY TxIdle DEF FrameDrop
<1>2. /\ pc = "loop" /\ pc' = pc /\ ~rx_dav[rx_cur]
      /\ rx_dav' = [rx_dav EXCEPT ![rx_cur] = TRUE] /\ rx_cur' = NextRx(rx_cur)
      /\ pbuf' = pbuf /\ up' = up /\ rx_pos' = rx_pos /\ rx_buff' = rx_buff
  BY DEF FrameDrop, Ready, rxdma
<1>3. rx_cur \in RxDesc /\ rx_dav \in [RxDesc -> BOOLEAN]
  BY DEF IInv, TypeOK
<1>4. RxFirst = rx_cur /\ RxFirst' = After(rx_cur, RXBUF_NUM) /\ RxOwn' = RxOwn \ {rx_cur}
  BY <1>2, <1>3, Nums DEF RxFirst, RxOwn
<1>5. Ring(RxOwn, rx_cur, RxN, rx_pos, RXBUF_NUM) /\ rx_cur \in RxOwn
  BY <1>2, <1>3, <1>4 DEF IInv, RxInv, RxOwn
<1>6. Ring(RxOwn', RxFirst', RxN - 1, rx_pos', RXBUF_NUM)
  BY <1>2, <1>4, <1>5, Nums, RingGet
<1>7. /\ Ring(RxOwn', RxFirst', RxN', rx_pos', RXBUF_NUM)
      /\ RxQueue' = Copied' \o Queue(rx_buff, RxFirst', RxN - 1, RXBUF_NUM)
  BY <1>2, <1>6, RxRing
<1>8. RxN \in 1..RXBUF_NUM
  <2>1. RxN > 0
    BY <1>5, Nums, RingEnds
  <2> QED BY <2>1, <1>5, Nums DEF Ring
<1>9. RxQueue # <<>> /\ RxQueue' = Tail(RxQueue)
  <2> DEFINE q == Queue(rx_buff, rx_cur, RxN, RXBUF_NUM)
             r == Queue(rx_buff, RxFirst', RxN - 1, RXBUF_NUM)
             V == Frames \cup {None, Damaged}
  <2>1. rx_buff \in [0..(RXBUF_NUM - 1) -> V] /\ rx_cur \in 0..(RXBUF_NUM - 1)
    BY Nums DEF IInv, TypeOK
  <2>2. q # <<>> /\ Tail(q) = r
    BY <2>1, <1>4, <1>8, Nums, QueueGet
  <2>3. RxN \in 0..RXBUF_NUM
    BY <1>8
  <2>4. q \in Seq(V)
    BY <2>1, <2>3, Nums, QueueType
  <2>5. Copied = <<>> /\ Copied' = <<>>
    BY <1>2 DEF Copied
  <2>6. RxQueue = <<>> \o q /\ RxQueue' = <<>> \o r
    BY <2>5, <1>4, <1>7 DEF RxQueue
  <2> HIDE DEF q, r, V
  <2>7. r \in Seq(V)
    BY <2>2, <2>4
  <2> QED BY <2>2, <2>4, <2>6, <2>7
<1>10. RxInv'
  BY <1>2, <1>7 DEF IInv, RxInv
<1>11. Link!Discard
  BY <1>1, <1>2, <1>9 DEF Link!Discard
<1> QED BY <1>1, <1>10, <1>11 DEF IInv

(* A frame is found.                                                       *)
LEMMA FrameSizeStep ==
    ASSUME IInv, TypeOK', FrameSize
    PROVE  IInv' /\ UNCHANGED Link!vars
<1>1. TxInv' /\ TxQueue' = TxQueue /\ wire' = wire /\ out' = out
  BY TxIdle DEF FrameSize, Goto, Sending
<1>2. /\ pc = "loop" /\ pc' = "input" /\ ~rx_dav[rx_cur] /\ rx_buff[rx_cur] # Damaged
      /\ pbuf' = pbuf /\ up' = up /\ rx_cur' = rx_cur
      /\ rx_pos' = rx_pos /\ rx_dav' = rx_dav /\ rx_buff' = rx_buff
  BY DEF FrameSize, Goto, Ready, rx, rxcpu, rxdma
<1>3. RxFirst' = RxFirst /\ RxOwn' = RxOwn /\ Copied' = Copied
  BY <1>2 DEF RxFirst, RxOwn, Copied
<1>4. RxN' = RxN /\ RxQueue' = RxQueue
  BY <1>2, <1>3 DEF RxN, RxQueue, Queue
<1>5. RxInv'
  BY <1>2, <1>3, <1>4 DEF IInv, RxInv
<1> QED BY <1>1, <1>2, <1>4, <1>5 DEF IInv, Link!vars

(* A frame is copied, if there is memory for it.                           *)
LEMMA InputStep ==
    ASSUME IInv, TypeOK', Input
    PROVE  IInv' /\ UNCHANGED Link!vars
<1>1. TxInv' /\ TxQueue' = TxQueue /\ wire' = wire /\ out' = out
  BY TxIdle DEF Input, Goto, Sending
<1>2. /\ pc = "input" /\ pc' = "receive" /\ pbuf' \in {rx_buff[rx_cur], None}
      /\ up' = up /\ rx_cur' = rx_cur
      /\ rx_pos' = rx_pos /\ rx_dav' = rx_dav /\ rx_buff' = rx_buff
  BY DEF Input, Goto, rxdma
<1>3. RxFirst' = RxFirst /\ RxOwn' = RxOwn /\ Copied' = Copied
  BY <1>2 DEF RxFirst, RxOwn, Copied
<1>4. RxN' = RxN /\ RxQueue' = RxQueue
  BY <1>2, <1>3 DEF RxN, RxQueue, Queue
<1>5. RxInv'
  BY <1>2, <1>3, <1>4 DEF IInv, RxInv
<1> QED BY <1>1, <1>2, <1>4, <1>5 DEF IInv, Link!vars

(* The descriptor is given back: its frame is in pbuf, or is lost.         *)
LEMMA ReceiveStep ==
    ASSUME IInv, TypeOK', Receive
    PROVE  IInv' /\ (Link!Discard \/ UNCHANGED Link!vars)
<1>1. TxInv' /\ TxQueue' = TxQueue /\ wire' = wire /\ out' = out
  BY TxIdle DEF Receive, Goto, Sending
<1>2. /\ pc = "receive" /\ pc' = "recover" /\ rx_dav' = [rx_dav EXCEPT ![rx_cur] = TRUE]
      /\ rx_cur' = rx_cur /\ pbuf' = pbuf /\ up' = up
      /\ rx_pos' = rx_pos /\ rx_buff' = rx_buff
  BY DEF Receive, Goto, rxdma, rxcpu
<1>3. /\ rx_cur \in RxDesc /\ rx_dav \in [RxDesc -> BOOLEAN]
      /\ ~rx_dav[rx_cur] /\ pbuf \in {rx_buff[rx_cur], None}
  BY <1>2 DEF IInv, TypeOK, RxInv
<1>4. RxFirst = rx_cur /\ RxFirst' = After(rx_cur, RXBUF_NUM) /\ RxOwn' = RxOwn \ {rx_cur}
  BY <1>2, <1>3, Nums DEF RxFirst, RxOwn
<1>5. Ring(RxOwn, rx_cur, RxN, rx_pos, RXBUF_NUM) /\ rx_cur \in RxOwn
  BY <1>3, <1>4 DEF IInv, RxInv, RxOwn
<1>6. Ring(RxOwn', RxFirst', RxN - 1, rx_pos', RXBUF_NUM)
  BY <1>2, <1>4, <1>5, Nums, RingGet
<1>7. /\ Ring(RxOwn', RxFirst', RxN', rx_pos', RXBUF_NUM)
      /\ RxQueue' = Copied' \o Queue(rx_buff, RxFirst', RxN - 1, RXBUF_NUM)
  BY <1>2, <1>6, RxRing
<1>8. RxN \in 1..RXBUF_NUM
  <2>1. RxN > 0
    BY <1>5, Nums, RingEnds
  <2> QED BY <2>1, <1>5, Nums DEF Ring
<1>9. RxQueue # <<>> /\ (RxQueue' = Tail(RxQueue) \/ RxQueue' = RxQueue)
  <2> DEFINE q == Queue(rx_buff, rx_cur, RxN, RXBUF_NUM)
             r == Queue(rx_buff, RxFirst', RxN - 1, RXBUF_NUM)
             V == Frames \cup {None, Damaged}
  <2>1. rx_buff \in [0..(RXBUF_NUM - 1) -> V] /\ rx_cur \in 0..(RXBUF_NUM - 1)
    BY Nums DEF IInv, TypeOK
  <2>2. q # <<>> /\ Tail(q) = r /\ Head(q) = rx_buff[rx_cur]
    BY <2>1, <1>4, <1>8, Nums, QueueGet
  <2>3. RxN \in 0..RXBUF_NUM
    BY <1>8
  <2>4. q \in Seq(V)
    BY <2>1, <2>3, Nums, QueueType
  <2>5. Copied = <<>> /\ Copied' = IF pbuf # None THEN <<pbuf>> ELSE <<>>
    BY <1>2 DEF Copied
  <2>6. RxQueue = <<>> \o q /\ RxQueue' = Copied' \o r
    BY <2>5, <1>4, <1>7 DEF RxQueue
  <2> HIDE DEF q, r, V
  <2>7. r \in Seq(V)
    BY <2>2, <2>4
  <2>8. RxQueue = q
    BY <2>4, <2>6
  <2>9. CASE pbuf = None
    <3>1. RxQueue' = r
      BY <2>5, <2>6, <2>7, <2>9
    <3> QED BY <3>1, <2>2, <2>8
  <2>10. CASE pbuf # None
    <3>1. pbuf = Head(q)
      BY <1>3, <2>2, <2>10
    <3>2. <<Head(q)>> \o Tail(q) = q
      BY <2>2, <2>4
    <3>3. RxQueue' = <<pbuf>> \o r
      BY <2>5, <2>6, <2>10
    <3> QED BY <3>1, <3>2, <3>3, <2>2, <2>8
  <2> QED BY <2>9, <2>10
<1>10. RxInv'
  BY <1>2, <1>7 DEF IInv, RxInv
<1>11. Link!Discard \/ UNCHANGED Link!vars
  BY <1>1, <1>2, <1>9 DEF Link!Discard, Link!vars
<1> QED BY <1>1, <1>10, <1>11 DEF IInv

(* The frame that was copied goes up.                                      *)
LEMMA RecoverStep ==
    ASSUME IInv, TypeOK', Recover
    PROVE  IInv' /\ (Link!Hand \/ UNCHANGED Link!vars)
<1>1. /\ pc = "recover" /\ pc' = "loop" /\ rx_cur' = NextRx(rx_cur)
      /\ pbuf' = None /\ up' = (IF pbuf = None THEN up ELSE pbuf)
      /\ rx_pos' = rx_pos /\ rx_dav' = rx_dav /\ rx_buff' = rx_buff /\ UNCHANGED tx
  BY DEF Recover, Goto
<1>2. TxInv' /\ TxQueue' = TxQueue /\ wire' = wire /\ out' = out
  BY <1>1, TxIdle DEF Sending
<1>3. RxFirst' = RxFirst /\ RxOwn' = RxOwn
  BY <1>1 DEF RxFirst, RxOwn
<1>4. RxN' = RxN
  BY <1>1, <1>3 DEF RxN
<1>5. RxInv'
  BY <1>1, <1>3, <1>4 DEF IInv, RxInv
<1> DEFINE q == Queue(rx_buff, RxFirst, RxN, RXBUF_NUM)
           V == Frames \cup {None, Damaged}
<1>6. q \in Seq(V)
  <2>1. rx_buff \in [0..(RXBUF_NUM - 1) -> V]
    BY Nums DEF IInv, TypeOK
  <2>2. RxFirst \in 0..(RXBUF_NUM - 1) /\ RxN \in 0..RXBUF_NUM
    BY DEF IInv, RxInv, Ring
  <2> QED BY <2>1, <2>2, Nums, QueueType
<1>7. Copied = (IF pbuf = None THEN <<>> ELSE <<pbuf>>) /\ Copied' = <<>>
  BY <1>1 DEF Copied
<1>8. RxQueue = Copied \o q /\ RxQueue' = Copied' \o q
  BY <1>1, <1>3, <1>4 DEF RxQueue, Queue
<1>9. pbuf \in Frames \cup {None}
  BY DEF IInv, TypeOK
<1> HIDE DEF q
<1>10. CASE pbuf = None
  <2>1. RxQueue' = RxQueue /\ up' = up
    BY <1>1, <1>7, <1>8, <1>10
  <2> QED BY <2>1, <1>2, <1>5 DEF IInv, Link!vars
<1>11. CASE pbuf # None
  <2>1. RxQueue = <<pbuf>> \o q /\ RxQueue' = q /\ up' = pbuf
    BY <1>1, <1>6, <1>7, <1>8, <1>11
  <2>2. /\ <<pbuf>> \o q # <<>> /\ Head(<<pbuf>> \o q) = pbuf
        /\ Tail(<<pbuf>> \o q) = q
    BY <1>6, <1>9 DEF V
  <2>3. pbuf # Damaged
    BY <1>9, <1>11, FrameAssumption
  <2>4. Link!Hand
    BY <2>1, <2>2, <2>3, <1>2 DEF Link!Hand
  <2> QED BY <2>4, <1>2, <1>5 DEF IInv
<1> QED BY <1>10, <1>11

(* The DMA stores a frame.                                                 *)
LEMMA RxStoreStep ==
    ASSUME IInv, TypeOK', RxStore
    PROVE  IInv' /\ Link!Arrive
<1>1. PICK f \in Frames \cup {Damaged} : rx_buff' = [rx_buff EXCEPT ![rx_pos] = f]
  BY DEF RxStore
<1>2. /\ rx_dav[rx_pos] /\ rx_dav' = [rx_dav EXCEPT ![rx_pos] = FALSE]
      /\ rx_pos' = NextRx(rx_pos) /\ pc' = pc
      /\ pbuf' = pbuf /\ rx_cur' = rx_cur /\ up' = up /\ UNCHANGED tx
  BY DEF RxStore, rxcpu
<1>3. TxInv' /\ TxQueue' = TxQueue /\ wire' = wire /\ out' = out
  BY <1>2, TxIdle
<1>4. /\ rx_pos \in RxDesc /\ rx_cur \in RxDesc /\ rx_dav \in [RxDesc -> BOOLEAN]
      /\ rx_buff \in [RxDesc -> Frames \cup {None, Damaged}]
  BY DEF IInv, TypeOK
<1>5. Ring(RxOwn, RxFirst, RxN, rx_pos, RXBUF_NUM) /\ rx_pos \notin RxOwn
  BY <1>2 DEF IInv, RxInv, RxOwn
<1>6. /\ RxOwn' = RxOwn \cup {rx_pos} /\ RxFirst' = RxFirst /\ Copied' = Copied
      /\ rx_pos' = After(rx_pos, RXBUF_NUM)
  BY <1>2, <1>4, Nums DEF RxOwn, RxFirst, Copied, NextRx
<1>7. Ring(RxOwn', RxFirst', RxN + 1, rx_pos', RXBUF_NUM)
  BY <1>5, <1>6, Nums, RingPut
<1>8. /\ Ring(RxOwn', RxFirst', RxN', rx_pos', RXBUF_NUM)
      /\ RxQueue' = Copied \o Queue(rx_buff', RxFirst, RxN + 1, RXBUF_NUM)
  BY <1>6, <1>7, RxRing
<1>9. /\ RxN \in 0..(RXBUF_NUM - 1) /\ RxFirst \in 0..(RXBUF_NUM - 1)
      /\ At(RxFirst, RxN, RXBUF_NUM) = rx_pos
  <2>1. RxN < RXBUF_NUM
    BY <1>5, Nums, RingEnds
  <2> QED BY <2>1, <1>5, Nums DEF Ring
<1>10. RxQueue' = Append(RxQueue, f)
  <2> DEFINE q == Queue(rx_buff, RxFirst, RxN, RXBUF_NUM)
             V == Frames \cup {None, Damaged}
  <2>1. rx_buff' \in [0..(RXBUF_NUM - 1) -> V] /\ rx_buff \in [0..(RXBUF_NUM - 1) -> V]
    BY <1>4, Nums DEF TypeOK
  <2>2. Queue(rx_buff', RxFirst, RxN + 1, RXBUF_NUM)
          = Append(Queue(rx_buff', RxFirst, RxN, RXBUF_NUM), rx_buff'[At(RxFirst, RxN, RXBUF_NUM)])
    BY <2>1, <1>9, Nums, QueuePut
  <2>3. Queue(rx_buff', RxFirst, RxN, RXBUF_NUM) = q
    <3>1. \A d \in RxOwn : rx_buff'[d] = rx_buff[d]
      BY <1>1, <1>4, <1>5 DEF RxOwn
    <3> QED BY <3>1, <1>5, Nums, QueueOutside
  <2>4. rx_buff'[rx_pos] = f
    BY <1>1, <1>4
  <2>5. RxQueue' = Copied \o Append(q, f)
    BY <1>8, <1>9, <2>2, <2>3, <2>4
  <2>6. q \in Seq(V)
    <3>1. RxN \in 0..RXBUF_NUM
      BY <1>9, Nums
    <3> QED BY <3>1, <2>1, <1>9, Nums, QueueType
  <2>7. f \in V /\ Copied \in Seq(V)
    <3>1. f \in V /\ pbuf \in V
      BY DEF IInv, TypeOK
    <3>2. Copied = <<>> \/ Copied = <<pbuf>>
      BY DEF Copied
    <3> HIDE DEF V
    <3>3. <<>> \in Seq(V) /\ <<pbuf>> \in Seq(V)
      BY <3>1
    <3> QED BY <3>1, <3>2, <3>3
  <2> HIDE DEF q, V
  <2>8. Copied \o Append(q, f) = Append(Copied \o q, f)
    BY <2>6, <2>7
  <2> QED BY <2>5, <2>8 DEF RxQueue, q
<1>11. RxInv'
  <2>1. pc \in {"input", "receive"} =>
            ~rx_dav'[rx_cur] /\ rx_buff'[rx_cur] = rx_buff[rx_cur]
    <3>1. pc \in {"input", "receive"} => rx_cur # rx_pos /\ ~rx_dav[rx_cur]
      BY <1>2 DEF IInv, RxInv
    <3> QED BY <3>1, <1>1, <1>2, <1>4
  <2> QED BY <2>1, <1>2, <1>8 DEF IInv, RxInv
<1>12. Link!Arrive
  BY <1>2, <1>3, <1>10 DEF Link!Arrive
<1> QED BY <1>3, <1>11, <1>12 DEF IInv

(* The DMA misses a frame.                                                 *)
LEMMA RxMissStep ==
    ASSUME IInv, TypeOK', RxMiss
    PROVE  IInv' /\ UNCHANGED Link!vars
<1>1. /\ pc' = pc /\ pbuf' = pbuf /\ up' = up /\ rx_cur' = rx_cur /\ UNCHANGED tx
      /\ rx_pos' = rx_pos /\ rx_dav' = rx_dav /\ rx_buff' = rx_buff
  BY DEF RxMiss, rxcpu
<1>2. TxInv' /\ TxQueue' = TxQueue /\ wire' = wire /\ out' = out
  BY <1>1, TxIdle
<1>3. RxFirst' = RxFirst /\ RxOwn' = RxOwn /\ Copied' = Copied
  BY <1>1 DEF RxFirst, RxOwn, Copied, NextRx
<1>4. RxN' = RxN /\ RxQueue' = RxQueue
  BY <1>1, <1>3 DEF RxN, RxQueue, Queue
<1>5. RxInv'
  BY <1>1, <1>3, <1>4 DEF IInv, RxInv
<1> QED BY <1>1, <1>2, <1>4, <1>5 DEF IInv, Link!vars

-----------------------------------------------------------------------------
(* The invariant, and what follows from it.                                *)

(* Initially.                                                              *)
LEMMA IInvInit == Init => IInv /\ Link!Init
<1> SUFFICES ASSUME Init PROVE IInv /\ Link!Init
  OBVIOUS
<1>1. TypeOK
  BY TypeInit
<1>2. TxOwn = {} /\ RxOwn = {} /\ 0 \in TxDesc /\ 0 \in RxDesc
  <2>1. 0 \in TxDesc /\ 0 \in RxDesc
    BY Nums
  <2>2. (\A d \in TxDesc : ~tx_dav[d]) /\ (\A d \in RxDesc : rx_dav[d])
    BY DEF Init
  <2> QED BY <2>1, <2>2 DEF TxOwn, RxOwn
<1>3. /\ TxEnd = 0 /\ RxFirst = 0 /\ tx_pos = 0 /\ rx_pos = 0
      /\ ~tx_dav[0] /\ rx_dav[0] /\ Copied = <<>>
  BY <1>2 DEF Init, TxEnd, RxFirst, Copied
<1>4. TxN = 0 /\ RxN = 0
  BY <1>3 DEF TxN, RxN, Count
<1>5. Ring(TxOwn, tx_pos, TxN, TxEnd, TXBUF_NUM)
  BY <1>2, <1>3, <1>4, Nums DEF Ring, At
<1>6. Ring(RxOwn, RxFirst, RxN, rx_pos, RXBUF_NUM)
  BY <1>2, <1>3, <1>4, Nums DEF Ring, At
<1>7. TxInv /\ RxInv
  BY <1>5, <1>6 DEF Init, TxInv, RxInv
<1>8. TxQueue = <<>> /\ RxQueue = <<>>
  BY <1>3, <1>4 DEF TxQueue, RxQueue, Queue
<1> QED BY <1>1, <1>7, <1>8 DEF IInv, Init, Link!Init

(* Every step keeps the invariant and is one of EthLink's or none.         *)
LEMMA IInvStep == IInv /\ [Next]_vars => IInv' /\ [Link!Next]_(Link!vars)
<1> SUFFICES ASSUME IInv, [Next]_vars PROVE IInv' /\ [Link!Next]_(Link!vars)
  OBVIOUS
<1>1. TypeOK'
  BY TypeStep DEF IInv, RxInv
<1>2. CASE Output \/ Wait \/ Copy \/ Give \/ Resume
  BY <1>1, <1>2, OutputStep, WaitStep, CopyStep, GiveStep, ResumeStep DEF Link!Next
<1>3. CASE TxSend \/ TxLook \/ TxSuspend
  BY <1>1, <1>3, TxSendStep, TxLookStep DEF Link!Next
<1>4. CASE FrameDrop \/ FrameSize \/ Input \/ Receive \/ Recover
  BY <1>1, <1>4, FrameDropStep, FrameSizeStep, InputStep, ReceiveStep, RecoverStep
  DEF Link!Next
<1>5. CASE RxStore \/ RxMiss
  BY <1>1, <1>5, RxStoreStep, RxMissStep DEF Link!Next
<1>6. CASE UNCHANGED vars
  <2>1. UNCHANGED tx /\ UNCHANGED rx /\ pc' = pc
    BY <1>6 DEF vars
  <2>2. /\ TxInv' /\ TxQueue' = TxQueue /\ wire' = wire /\ out' = out
        /\ RxInv' /\ RxQueue' = RxQueue /\ up' = up
    BY <2>1, <1>1, TxIdle, RxIdle
  <2> QED BY <2>2, <1>1 DEF IInv, Link!vars
<1> QED
  BY <1>2, <1>3, <1>4, <1>5, <1>6 DEF Next, Transmitting, Receiving, Dma

(* The inductive invariant of the interface and its two rings.             *)
THEOREM EthInvariant == Spec => []IInv
<1>1. Init => IInv
  BY IInvInit
<1>2. IInv /\ [Next]_vars => IInv'
  BY IInvStep
<1> QED BY <1>1, <1>2, PTL DEF Spec

(* The types, for any number of descriptors and any frames.                *)
THEOREM EthTypeCorrect == Spec => []TypeOK
<1>1. IInv => TypeOK
  BY DEF IInv
<1> QED BY <1>1, EthInvariant, PTL

(* The driver and the DMA together keep frames intact, in order and once,  *)
(* for any number of descriptors, wherever their steps fall.               *)
THEOREM EthImplementsLink == Spec => Implements
<1>1. Init => Link!Init
  BY IInvInit
<1>2. IInv /\ [Next]_vars => [Link!Next]_(Link!vars)
  BY IInvStep
<1> QED BY <1>1, <1>2, EthInvariant, PTL DEF Spec, Implements, Link!Spec

-----------------------------------------------------------------------------
(* The DMA that has suspended itself.  STAT may be read before it is       *)
(* suspended, and the frame just handed over then stays behind.            *)

(* A suspended DMA has said so; and it had seen the ring empty, so that at *)
(* most the frame handed over since, and not yet reported, is in the ring. *)
Awake ==
    /\ tx_dma = "suspended" => tbu
    /\ tx_dma = "looked" => TxN <= (IF pc = "give" THEN 0 ELSE 1)
    /\ tx_dma = "suspended" /\ pc # "stat" => TxN <= 1

(* When low_level_output waits for a descriptor, the DMA is at work on one. *)
NotStuck == pc = "wait" /\ tx_dav[tx_cur] => tx_dma = "running" /\ tx_dav[tx_pos]

(* A step that hands nothing over or back keeps the number in the ring.    *)
LEMMA TxNKept ==
    ASSUME tx_cur' = tx_cur, tx_pos' = tx_pos, tx_dav' = tx_dav,
           (pc' = "stat") <=> (pc = "stat")
    PROVE  TxN' = TxN
<1>1. TxEnd' = TxEnd
  BY DEF TxEnd, NextTx
<1> QED BY <1>1 DEF TxN

(* A frame handed over is one more in the ring.                            *)
LEMMA TxNGive ==
    ASSUME IInv, IInv', Give
    PROVE  TxN' = TxN + 1
<1>1. TypeOK' /\ pc = "give" /\ pc' = "stat" /\ tx_cur' = tx_cur /\ tx_pos' = tx_pos
      /\ tx_dav' = [tx_dav EXCEPT ![tx_cur] = TRUE]
  BY DEF IInv, Give, Goto, txdma
<1>2. tx_cur \in TxDesc /\ tx_dav \in [TxDesc -> BOOLEAN] /\ ~tx_dav[tx_cur]
      /\ Ring(TxOwn, tx_pos, TxN, tx_cur, TXBUF_NUM)
  BY <1>1 DEF IInv, TypeOK, TxInv, TxEnd
<1>3. TxOwn' = TxOwn \cup {tx_cur} /\ tx_cur \notin TxOwn
  BY <1>1, <1>2 DEF TxOwn
<1>4. TxEnd' = After(tx_cur, TXBUF_NUM)
  BY <1>1, <1>2, Nums DEF TxEnd
<1>5. Ring(TxOwn', tx_pos', TxN + 1, TxEnd', TXBUF_NUM)
  BY <1>1, <1>2, <1>3, <1>4, Nums, RingPut
<1>6. tx_dav'[tx_pos'] \in BOOLEAN /\ (tx_dav'[tx_pos'] <=> tx_pos' \in TxOwn')
  BY <1>1 DEF TypeOK, TxOwn
<1> QED BY <1>5, <1>6, Nums, RingCount DEF TxN

(* The DMA finds a descriptor not its own just when the ring is empty.     *)
LEMMA TxNLook ==
    ASSUME IInv
    PROVE  /\ TxN \in 0..TXBUF_NUM
           /\ tx_dav[tx_pos] <=> TxN > 0
           /\ pc # "stat" => (~tx_dav[tx_cur] <=> TxN < TXBUF_NUM)
<1>1. Ring(TxOwn, tx_pos, TxN, TxEnd, TXBUF_NUM)
  BY DEF IInv, TxInv
<1>2. (tx_pos \in TxOwn <=> TxN > 0) /\ (TxEnd \notin TxOwn <=> TxN < TXBUF_NUM)
  BY <1>1, Nums, RingEnds
<1>3. (tx_dav[tx_pos] <=> tx_pos \in TxOwn) /\ (~tx_dav[tx_cur] <=> tx_cur \notin TxOwn)
  BY DEF IInv, TypeOK, TxOwn
<1>4. TxN \in 0..TXBUF_NUM
  BY <1>1 DEF Ring
<1> QED BY <1>2, <1>3, <1>4 DEF TxEnd

(* Initially.                                                              *)
LEMMA AwakeInit == Init => Awake
  BY DEF Init, Awake

(* Each step.                                                              *)
LEMMA AwakeStep == IInv /\ IInv' /\ Awake /\ [Next]_vars => Awake'
<1> SUFFICES ASSUME IInv, IInv', Awake, [Next]_vars PROVE Awake'
  OBVIOUS
<1>0. TxN \in 0..TXBUF_NUM /\ TXBUF_NUM \in Nat \ {0}
  BY TxNLook, Nums
<1>1. CASE Output
  <2>1. TxN' = TxN /\ tx_dma' = tx_dma /\ tbu' = tbu /\ pc = "loop" /\ pc' = "wait"
    BY <1>1, TxNKept DEF Output, Goto, txdma
  <2> QED BY <2>1 DEF Awake
<1>2. CASE Wait
  <2>1. TxN' = TxN /\ tx_dma' = tx_dma /\ tbu' = tbu /\ pc = "wait" /\ pc' = "copy"
    BY <1>2, TxNKept DEF Wait, Goto, tx, txcpu, txdma
  <2> QED BY <2>1 DEF Awake
<1>3. CASE Copy
  <2>1. TxN' = TxN /\ tx_dma' = tx_dma /\ tbu' = tbu /\ pc = "copy" /\ pc' = "give"
        /\ tx_dma # "looked"
    BY <1>3, TxNKept DEF Copy, Goto, txcpu, txdma
  <2> QED BY <2>1 DEF Awake
<1>4. CASE Give
  <2>1. tx_dma' = tx_dma /\ tbu' = tbu /\ pc = "give" /\ pc' = "stat"
    BY <1>4 DEF Give, Goto, txdma
  <2>2. TxN' = TxN + 1
    BY <1>4, TxNGive
  <2> QED BY <1>0, <2>1, <2>2 DEF Awake
<1>5. CASE Resume
  <2>1. tbu' = FALSE /\ tx_dma' = (IF tbu THEN "running" ELSE tx_dma)
        /\ pc = "stat" /\ pc' = "loop" /\ TxEnd' = TxEnd /\ tx_pos' = tx_pos
        /\ tx_dav' = tx_dav
    BY <1>5 DEF Resume, Goto, TxEnd
  <2>2. TxN' = TxN
    BY <2>1 DEF TxN
  <2>3. tx_dma' # "suspended"
    BY <2>1 DEF Awake
  <2>4. tx_dma' = "looked" => tx_dma = "looked"
    BY <2>1
  <2> QED BY <2>1, <2>2, <2>3, <2>4 DEF Awake
<1>6. CASE TxSend
  <2>1. tx_dma' = "running"
    BY <1>6 DEF TxSend
  <2> QED BY <2>1 DEF Awake
<1>7. CASE TxLook
  <2>1. TxN' = TxN /\ tx_dma' = "looked" /\ ~tx_dav[tx_pos]
    BY <1>7, TxNKept DEF TxLook, txcpu
  <2>2. TxN = 0
    BY <1>0, <2>1, TxNLook
  <2> QED BY <2>1, <2>2 DEF Awake
<1>8. CASE TxSuspend
  <2>1. TxN' = TxN /\ tx_dma = "looked" /\ tx_dma' = "suspended" /\ tbu' = TRUE
    BY <1>8, TxNKept DEF TxSuspend, txcpu
  <2>2. TxN <= 1
    BY <1>0, <2>1 DEF Awake
  <2> QED BY <2>1, <2>2 DEF Awake
<1>9. CASE Receiving \/ RxStore \/ RxMiss \/ UNCHANGED vars
  <2>1. UNCHANGED tx /\ (pc' = pc \/ (pc \notin Sending /\ pc' \notin Sending))
    BY <1>9 DEF Receiving, FrameDrop, FrameSize, Input, Receive, Recover, RxStore,
                RxMiss, Goto, Sending, vars
  <2>2. /\ tx_cur' = tx_cur /\ tx_pos' = tx_pos /\ tx_dav' = tx_dav
        /\ tx_dma' = tx_dma /\ tbu' = tbu
    BY <2>1 DEF tx, txcpu, txdma
  <2>3. (pc' = "stat" <=> pc = "stat") /\ (pc' = "give" <=> pc = "give")
    BY <2>1 DEF Sending
  <2>4. TxN' = TxN
    BY <2>2, <2>3, TxNKept
  <2> QED BY <2>2, <2>3, <2>4 DEF Awake
<1> QED
  BY <1>1, <1>2, <1>3, <1>4, <1>5, <1>6, <1>7, <1>8, <1>9
  DEF Next, Transmitting, Dma

(* A suspended DMA leaves at most one frame behind (the one handed over    *)
(* between its last look and its suspension), for any number of            *)
(* descriptors and wherever the DMA's steps fall (enet_frame_transmit).    *)
THEOREM EthAwake == Spec => []Awake
<1>1. Init => Awake
  BY AwakeInit
<1>2. IInv /\ IInv' /\ Awake /\ [Next]_vars => Awake'
  BY AwakeStep
<1> QED BY <1>1, <1>2, EthInvariant, PTL DEF Spec

(* Hence low_level_output's wait for a descriptor is never one for a       *)
(* suspended DMA: with two descriptors or more, the DMA then has a frame   *)
(* to send and is running.  It is the safety half of Sends.                *)
THEOREM EthNotStuck == Spec => []NotStuck
<1>1. ASSUME IInv, Awake PROVE NotStuck
  <2> SUFFICES ASSUME pc = "wait", tx_dav[tx_cur]
               PROVE  tx_dma = "running" /\ tx_dav[tx_pos]
    BY DEF NotStuck
  <2>1. TxN \in 0..TXBUF_NUM /\ ~(TxN < TXBUF_NUM) /\ (tx_dav[tx_pos] <=> TxN > 0)
    BY <1>1, TxNLook
  <2>2. TxN > 1
    BY <2>1, BufAssumption
  <2>3. tx_dma \in {"running", "looked", "suspended"}
    BY <1>1 DEF IInv, TypeOK
  <2> QED BY <1>1, <2>1, <2>2, <2>3 DEF Awake
<1> QED BY <1>1, EthInvariant, EthAwake, PTL
=============================================================================
