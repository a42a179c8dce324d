--------------------------- MODULE MbServer_proofs --------------------------
(***************************************************************************)
(* Theorems of MbServer, for every set of requests, any number of          *)
(* registers and behaviours of any length.                                 *)
(***************************************************************************)
EXTENDS MbServer, MbFrame_proofs

ServerIInv ==
    /\ ServerTypeOK
    /\ \A i \in 1..Len(replies) : replies[i].req \in 1..Len(bus)
    /\ AccessInBounds
    /\ ReplyFits

(* A served request satisfies what the lemmas on Dispatch ask of it.       *)
LEMMA ServeDispatch ==
    ASSUME ServerTypeOK, NEW k \in 1..Len(bus), Serve(k)
    PROVE  LET f   == Header(bus[k])
               out == Dispatch(f, Data(bus[k]), hold_regs)
           IN  /\ f \in Headers
               /\ Data(bus[k]) \in Seq(Byte)
               /\ f.fc = FC10 => Len(Data(bus[k])) = 2 * f.word
               /\ hold_regs \in [Reg -> Word]
               /\ hold_regs' = out.regs
               /\ replies' = Append(replies, [req |-> k, reply |-> out.reply])
  <1>1. bus[k] \in ADU /\ Accepts(bus[k])
    BY ServerAssumption DEF ServerTypeOK, Serve
  <1>2. Data(bus[k]) \in Seq(Byte)
    <2>1. bus[k].bytes \in Seq(Byte) /\ Len(bus[k].bytes) >= 6
      BY <1>1, AcceptedLength DEF ADU
    <2> QED
      BY <2>1 DEF Data
  <1>3. hold_regs \in [Reg -> Word]
    BY DEF ServerTypeOK
  <1> QED
    BY <1>1, <1>2, <1>3, HeaderType, DataType DEF Serve

(* What one served request adds to the state.                              *)
LEMMA ServeOutcome ==
    ASSUME ServerTypeOK, NEW k \in 1..Len(bus), Serve(k)
    PROVE  \E rep \in ADU :
              /\ replies' = Append(replies, [req |-> k, reply |-> rep])
              /\ hold_regs' \in [Reg -> Word]
              /\ AduLen(rep) <= 256
              /\ IsException(rep) => hold_regs' = hold_regs
              /\ ~IsException(rep) => Span(bus[k]) \subseteq Reg
  <1> DEFINE f == Header(bus[k])
             out == Dispatch(f, Data(bus[k]), hold_regs)
  <1>2. /\ f \in Headers
        /\ Data(bus[k]) \in Seq(Byte)
        /\ f.fc = FC10 => Len(Data(bus[k])) = 2 * f.word
        /\ hold_regs \in [Reg -> Word]
    BY ServeDispatch
  <1>6. hold_regs' = out.regs
        /\ replies' = Append(replies, [req |-> k, reply |-> out.reply])
    BY ServeDispatch
  <1> HIDE DEF f
  <1>7. /\ out.regs \in [Reg -> Word]
        /\ out.reply \in ADU
        /\ AduLen(out.reply) <= 256
        /\ IsException(out.reply) => out.regs = hold_regs
        /\ ~IsException(out.reply) =>
              f.start + (IF f.fc = FC06 THEN 1 ELSE f.word) <= HOLD_REG_COUNT
    BY <1>2, DispatchOutcome
  <1> HIDE DEF out
  <1>8. ~IsException(out.reply) => Span(bus[k]) \subseteq Reg
    <2> SUFFICES ASSUME ~IsException(out.reply), NEW a \in Span(bus[k]) PROVE a \in Reg
      OBVIOUS
    <2>1. f.start \in Word /\ f.word \in Word
      BY <1>2, HeaderFields
    <2>2. \/ a = f.start /\ f.fc = FC06
          \/ f.fc # FC06 /\ a \in f.start..(f.start + f.word - 1)
      BY DEF Span, f
    <2>3. f.start \in Nat /\ f.word \in Nat
      <3>1. Word \subseteq Nat
        BY DEF Word
      <3> QED
        BY <2>1, <3>1
    <2> QED
      BY <1>7, <2>2, <2>3, RegCountAssumption DEF Reg
  <1> QED
    BY <1>6, <1>7, <1>8

(* The invariant of the promise holds initially.                           *)
LEMMA ServerInitInv == ServerInit => ServerIInv
  <1> SUFFICES ASSUME ServerInit PROVE ServerIInv
    OBVIOUS
  <1>1. ServerTypeOK
    BY DEF ServerInit, ServerTypeOK, Word
  <1> QED
    BY <1>1 DEF ServerInit, ServerIInv, AccessInBounds, ReplyFits

(* Sending and serving preserve it.                                        *)
LEMMA ServerNextInv == ServerIInv /\ [ServerNext]_serverVars => ServerIInv'
  <1> SUFFICES ASSUME ServerIInv, [ServerNext]_serverVars PROVE ServerIInv'
    OBVIOUS
  <1>t. /\ bus \in Seq(Requests) /\ Len(bus) \in Nat
        /\ replies \in Seq([req : Nat, reply : ADU]) /\ Len(replies) \in Nat
    BY DEF ServerIInv, ServerTypeOK
  <1>1. CASE UNCHANGED serverVars
    BY <1>1 DEF serverVars, ServerIInv, ServerTypeOK, AccessInBounds, ReplyFits
  <1>2. ASSUME NEW r \in Requests, Send(r) PROVE ServerIInv'
    <2>1. /\ bus' \in Seq(Requests) /\ Len(bus') = Len(bus) + 1
          /\ \A k \in 1..Len(bus) : bus'[k] = bus[k]
          /\ hold_regs' = hold_regs /\ replies' = replies
      BY <1>2, <1>t DEF Send
    <2>2. ServerTypeOK'
      BY <2>1 DEF ServerIInv, ServerTypeOK
    <2>3. \A i \in 1..Len(replies) : replies[i].req \in 1..Len(bus)
      BY DEF ServerIInv
    <2>4. \A i \in 1..Len(replies') : replies'[i].req \in 1..Len(bus')
      BY <2>1, <2>3, <1>t
    <2>5. \A i \in 1..Len(replies) : Span(bus'[replies[i].req]) = Span(bus[replies[i].req])
      BY <2>1, <2>3 DEF Span, Header
    <2>6. AccessInBounds'
      BY <2>1, <2>5 DEF ServerIInv, AccessInBounds, Reg
    <2>7. ReplyFits'
      BY <2>1 DEF ServerIInv, ReplyFits
    <2> QED
      BY <2>2, <2>4, <2>6, <2>7 DEF ServerIInv
  <1>3. ASSUME NEW k \in 1..Len(bus), Serve(k) PROVE ServerIInv'
    <2>1. PICK rep \in ADU :
              /\ replies' = Append(replies, [req |-> k, reply |-> rep])
              /\ hold_regs' \in [Reg -> Word]
              /\ AduLen(rep) <= 256
              /\ ~IsException(rep) => Span(bus[k]) \subseteq Reg
      BY <1>3, ServeOutcome DEF ServerIInv
    <2>2. bus' = bus
      BY <1>3 DEF Serve
    <2>3. [req |-> k, reply |-> rep] \in [req : Nat, reply : ADU]
      BY <1>t
    <2>4. /\ replies' \in Seq([req : Nat, reply : ADU])
          /\ Len(replies') = Len(replies) + 1
          /\ \A i \in 1..Len(replies) : replies'[i] = replies[i]
          /\ replies'[Len(replies) + 1] = [req |-> k, reply |-> rep]
      BY <2>1, <2>3, <1>t
    <2>5. \A i \in 1..Len(replies') :
             i \in 1..Len(replies) \/ replies'[i] = [req |-> k, reply |-> rep]
      BY <2>4, <1>t
    <2>6. ServerTypeOK'
      BY <2>1, <2>2, <2>4 DEF ServerIInv, ServerTypeOK
    <2>7. \A i \in 1..Len(replies') : replies'[i].req \in 1..Len(bus')
      BY <2>2, <2>4, <2>5 DEF ServerIInv
    <2>8. AccessInBounds'
      <3> SUFFICES ASSUME NEW i \in 1..Len(replies'), ~IsException(replies'[i].reply)
                   PROVE  Span(bus[replies'[i].req]) \subseteq Reg
        BY <2>2 DEF AccessInBounds, Reg, Span, Header, IsException
      <3>1. CASE i \in 1..Len(replies)
        BY <3>1, <2>4 DEF ServerIInv, AccessInBounds
      <3>2. CASE replies'[i] = [req |-> k, reply |-> rep]
        BY <3>2, <2>1
      <3> QED
        BY <3>1, <3>2, <2>5
    <2>9. ReplyFits'
      <3> SUFFICES ASSUME NEW i \in 1..Len(replies')
                   PROVE  AduLen(replies'[i].reply) <= TX_BUF_SIZE
        BY DEF ReplyFits, AduLen
      <3>1. CASE i \in 1..Len(replies)
        BY <3>1, <2>4 DEF ServerIInv, ReplyFits
      <3>2. CASE replies'[i] = [req |-> k, reply |-> rep]
        <4>1. rep.bytes \in Seq(Byte)
          BY DEF ADU
        <4>2. AduLen(rep) \in Nat
          BY <4>1 DEF AduLen
        <4> QED
          BY <3>2, <2>1, <4>2, TxBufAssumption
      <3> QED
        BY <3>1, <3>2, <2>5
    <2> QED
      BY <2>6, <2>7, <2>8, <2>9 DEF ServerIInv
  <1> QED
    BY <1>1, <1>2, <1>3 DEF ServerNext

(* So it always holds.                                                     *)
LEMMA ServerInvariant == ServerSpec => []ServerIInv
  BY ServerInitInv, ServerNextInv, PTL DEF ServerSpec

(* Registers always hold 16-bit words, and the history stays well formed.  *)
THEOREM ServerTypeCorrect == ServerSpec => []ServerTypeOK
  <1>1. ServerIInv => ServerTypeOK
    BY DEF ServerIInv
  <1> QED
    BY <1>1, ServerInvariant, PTL

(* No accepted request ever touches memory outside hold_regs, for every    *)
(* start address and count a 16-bit word can name.                         *)
THEOREM ServerInBounds == ServerSpec => []AccessInBounds
  <1>1. ServerIInv => AccessInBounds
    BY DEF ServerIInv
  <1> QED
    BY <1>1, ServerInvariant, PTL

(* No reply ever overflows the 256 bytes of s_tx_buf.                      *)
THEOREM ServerReplyFits == ServerSpec => []ReplyFits
  <1>1. ServerIInv => ReplyFits
    BY DEF ServerIInv
  <1> QED
    BY <1>1, ServerInvariant, PTL

(* A refused request leaves every register as it was.                      *)
THEOREM ServerRefusedChangesNothing == ServerSpec => RefusedChangesNothing
  <1> DEFINE Step == \A i \in 1..Len(replies') :
                        i > Len(replies) /\ IsException(replies'[i].reply)
                          => hold_regs' = hold_regs
  <1>1. ServerIInv /\ [ServerNext]_serverVars => [Step]_serverVars
    <2> SUFFICES ASSUME ServerIInv, ServerNext PROVE Step
      BY DEF Step
    <2>0. Len(replies) \in Nat /\ replies \in Seq([req : Nat, reply : ADU])
      BY DEF ServerIInv, ServerTypeOK
    <2>1. CASE \E r \in Requests : Send(r)
      BY <2>0, <2>1 DEF Send
    <2>2. CASE \E k \in 1..Len(bus) : Serve(k)
      <3>1. PICK k \in 1..Len(bus) : Serve(k)
        BY <2>2
      <3>2. PICK rep \in ADU :
                /\ replies' = Append(replies, [req |-> k, reply |-> rep])
                /\ IsException(rep) => hold_regs' = hold_regs
        BY <3>1, ServeOutcome DEF ServerIInv
      <3>3. /\ Len(replies') = Len(replies) + 1
            /\ replies'[Len(replies) + 1] = [req |-> k, reply |-> rep]
        BY <3>2, <2>0
      <3> QED
        BY <2>0, <3>2, <3>3
    <2> QED
      BY <2>1, <2>2 DEF ServerNext
  <1> QED
    BY <1>1, ServerInvariant, PTL DEF ServerSpec, RefusedChangesNothing
(* A positive read returns the registers as they were when it was served,  *)
(* each at its own place: frame_put_u16_be and the two FC03 loops of       *)
(* mb_slv_func.c agree with the byte order and the offsets of a master.    *)
THEOREM ServerReadIsFaithful == ServerSpec => ReadIsFaithful
  <1> DEFINE Faithful(i) ==
                LET adu == bus[replies'[i].req]
                    f   == Header(adu)
                    rep == replies'[i].reply
                IN  (i > Len(replies) /\ f.fc = FC03 /\ ~IsException(rep))
                      => /\ Len(rep.bytes) = 3 + rep.bytes[3]
                         /\ rep.bytes[3] = 2 * f.word
                         /\ \A j \in 1..f.word :
                               Decoded(rep, j) = hold_regs[f.start + j - 1]
             Step == \A i \in 1..Len(replies') : Faithful(i)
  <1>1. ServerIInv /\ [ServerNext]_serverVars => [Step]_serverVars
    <2> SUFFICES ASSUME ServerIInv, ServerNext,
                        NEW i \in 1..Len(replies'), i > Len(replies)
                 PROVE  Faithful(i)
      BY DEF Step
    <2>1. Len(replies) \in Nat /\ replies \in Seq([req : Nat, reply : ADU])
      BY DEF ServerIInv, ServerTypeOK
    <2>2. PICK k \in 1..Len(bus) : Serve(k)
      BY <2>1 DEF ServerNext, Send
    <2> DEFINE f == Header(bus[k])
               out == Dispatch(f, Data(bus[k]), hold_regs)
               rep == out.reply
    <2>3. /\ f \in Headers
          /\ hold_regs \in [Reg -> Word]
          /\ replies' = Append(replies, [req |-> k, reply |-> rep])
      BY <2>2, ServeDispatch DEF ServerIInv
    <2> HIDE DEF rep
    <2>4. replies'[i] = [req |-> k, reply |-> rep]
      BY <2>1, <2>3
    <2>5. ASSUME f.fc = FC03, ~IsException(rep)
          PROVE  /\ Len(rep.bytes) = 3 + rep.bytes[3]
                 /\ rep.bytes[3] = 2 * f.word
                 /\ \A j \in 1..f.word :
                       U16(rep.bytes[2 * j + 2], rep.bytes[2 * j + 3])
                         = hold_regs[f.start + j - 1]
      <3> HIDE DEF f
      <3>1. f.word \in 1..125 /\ InRange(f.start, f.word)
            /\ rep = ReadReply(f, ReadRegs(hold_regs, f.start, f.word))
        BY <2>3, <2>5, DispatchReads DEF rep
      <3> QED
        BY <2>3, <3>1, ReadReplyBytes
    <2> QED
      BY <2>4, <2>5 DEF Decoded
  <1> QED
    BY <1>1, ServerInvariant, PTL DEF ServerSpec, ReadIsFaithful

(* What the i-th reply means for register r, for every request: FC10       *)
(* leaves the word it carries for r, FC06 its word with the two bytes      *)
(* exchanged, for mb_data_write is handed the address of a value in the    *)
(* core's own byte order; a register nobody acknowledged to write is left. *)
Stores(adu, reply, r, before, after) ==
    IF r \notin Acknowledges(adu, reply) THEN after = before
    ELSE IF Header(adu).fc = FC06 THEN after = Exchanged(Sent(adu, r))
    ELSE after = Sent(adu, r)

(* Every execution does that to every register.                            *)
StoresExactly ==
    [][ \A i \in 1..Len(replies') :
          i > Len(replies) =>
            \A r \in Reg : Stores(bus[replies'[i].req], replies'[i].reply, r,
                                  hold_regs[r], hold_regs'[r])
      ]_serverVars

(* One served request does it, and its reply is the one recorded.          *)
LEMMA ServeStores ==
    ASSUME ServerTypeOK, NEW k \in 1..Len(bus), Serve(k)
    PROVE  \E rep \in ADU :
              /\ replies' = Append(replies, [req |-> k, reply |-> rep])
              /\ \A r \in Reg : Stores(bus[k], rep, r, hold_regs[r], hold_regs'[r])
  <1> DEFINE adu == bus[k]
             f == Header(adu)
             out == Dispatch(f, Data(adu), hold_regs)
             rep == out.reply
  <1>1. adu \in ADU /\ Accepts(adu)
    BY ServerAssumption DEF ServerTypeOK, Serve
  <1>2. /\ f \in Headers
        /\ Data(adu) \in Seq(Byte)
        /\ f.fc = FC10 => Len(Data(adu)) = 2 * f.word
        /\ hold_regs \in [Reg -> Word]
        /\ hold_regs' = out.regs
        /\ replies' = Append(replies, [req |-> k, reply |-> rep])
    BY ServeDispatch
  <1>3. f.start \in Nat /\ f.word \in Nat
    BY <1>2, HeaderFields, WordsAreNumbers
  <1>4. /\ rep \in ADU
        /\ ~IsException(rep) =>
              f.start + (IF f.fc = FC06 THEN 1 ELSE f.word) <= HOLD_REG_COUNT
    <2> HIDE DEF f
    <2> QED
      BY <1>2, DispatchOutcome
  <1>5. hold_regs' = IF IsException(rep) \/ f.fc = FC03 THEN hold_regs
                     ELSE IF f.fc = FC06
                       THEN [hold_regs EXCEPT ![f.start] = Exchanged(f.word)]
                       ELSE WriteRegs(hold_regs, f.start, f.word, Data(adu))
    <2> HIDE DEF f
    <2> QED
      BY <1>2, DispatchStores
  <1>6. ~IsException(rep) => f.fc \in {FC03, FC06, FC10}
    <2> HIDE DEF f
    <2> QED
      BY <1>2, DispatchKnown
  <1> HIDE DEF rep
  <1>7. ASSUME NEW r \in Reg PROVE Stores(adu, rep, r, hold_regs[r], hold_regs'[r])
    <2>r. r \in Nat /\ r < HOLD_REG_COUNT
      BY RegCountAssumption DEF Reg
    <2>1. CASE IsException(rep) \/ f.fc = FC03
      <3>1. Acknowledges(adu, rep) = {} /\ hold_regs' = hold_regs
        BY <1>5, <2>1 DEF Acknowledges, FC03, FC06, FC10
      <3> QED
        BY <3>1 DEF Stores
    <2>2. CASE ~IsException(rep) /\ f.fc = FC06
      <3>1. Acknowledges(adu, rep) = {f.start}
        BY <2>2 DEF Acknowledges, Span
      <3>2. hold_regs' = [hold_regs EXCEPT ![f.start] = Exchanged(f.word)]
        BY <1>5, <2>2 DEF FC03, FC06
      <3>3. Sent(adu, r) = f.word
        BY <2>2 DEF Sent, Header
      <3> QED
        BY <1>2, <2>2, <3>1, <3>2, <3>3 DEF Stores
    <2>3. CASE ~IsException(rep) /\ f.fc = FC10
      <3>1. Acknowledges(adu, rep) = f.start..(f.start + f.word - 1)
        BY <2>3 DEF Acknowledges, Span, FC06, FC10
      <3>2. hold_regs'[r] = IF r >= f.start /\ r < f.start + f.word
                              THEN U16(Data(adu)[2 * (r - f.start) + 1],
                                       Data(adu)[2 * (r - f.start) + 2])
                              ELSE hold_regs[r]
        <4>1. hold_regs' = WriteRegs(hold_regs, f.start, f.word, Data(adu))
          BY <1>5, <2>3 DEF FC03, FC06, FC10
        <4> HIDE DEF f
        <4> QED
          BY <4>1 DEF WriteRegs
      <3>3. CASE r \in Acknowledges(adu, rep)
        <4> DEFINE i == r - f.start
        <4>1. i \in 0..(f.word - 1) /\ r >= f.start /\ r < f.start + f.word
          BY <3>1, <3>3, <1>3, <2>r
        <4>2. Len(adu.bytes) >= 6
          BY <1>1, AcceptedLength
        <4>3. /\ Data(adu)[2 * i + 1] = adu.bytes[8 + 2 * i]
              /\ Data(adu)[2 * i + 2] = adu.bytes[8 + 2 * i + 1]
          <5> HIDE DEF f, adu, i
          <5> QED
            BY <1>1, <1>2, <1>3, <2>3, <4>1, <4>2, DataPair
        <4>4. Sent(adu, r) = U16(adu.bytes[8 + 2 * i], adu.bytes[8 + 2 * i + 1])
          BY <2>3 DEF Sent, FC06, FC10
        <4>5. hold_regs'[r] = Sent(adu, r)
          BY <3>2, <4>1, <4>3, <4>4
        <4>6. f.fc # FC06
          BY <2>3 DEF FC06, FC10
        <4> QED
          BY <3>3, <4>5, <4>6 DEF Stores
      <3>4. CASE r \notin Acknowledges(adu, rep)
        <4>1. ~(r >= f.start /\ r < f.start + f.word)
          BY <3>1, <3>4, <1>3, <2>r
        <4>2. hold_regs'[r] = hold_regs[r]
          BY <3>2, <4>1
        <4> QED
          BY <3>4, <4>2 DEF Stores
      <3> QED
        BY <3>3, <3>4
    <2> QED
      BY <1>6, <2>1, <2>2, <2>3
  <1> QED
    BY <1>2, <1>4, <1>7

(* What every executed request stores, register by register.               *)
THEOREM ServerStoresExactly == ServerSpec => StoresExactly
  <1> DEFINE Step == \A i \in 1..Len(replies') :
                        i > Len(replies) =>
                          \A r \in Reg : Stores(bus[replies'[i].req], replies'[i].reply, r,
                                                hold_regs[r], hold_regs'[r])
  <1>1. ServerIInv /\ [ServerNext]_serverVars => [Step]_serverVars
    <2> SUFFICES ASSUME ServerIInv, ServerNext, NEW i \in 1..Len(replies'), i > Len(replies),
                        NEW r \in Reg
                 PROVE  Stores(bus[replies'[i].req], replies'[i].reply, r,
                               hold_regs[r], hold_regs'[r])
      OBVIOUS
    <2>1. Len(replies) \in Nat /\ replies \in Seq([req : Nat, reply : ADU])
      BY DEF ServerIInv, ServerTypeOK
    <2>2. PICK k \in 1..Len(bus) : Serve(k)
      BY <2>1 DEF ServerNext, Send
    <2>3. PICK rep \in ADU :
              /\ replies' = Append(replies, [req |-> k, reply |-> rep])
              /\ \A s \in Reg : Stores(bus[k], rep, s, hold_regs[s], hold_regs'[s])
      BY <2>2, ServeStores DEF ServerIInv
    <2>4. replies'[i] = [req |-> k, reply |-> rep]
      BY <2>1, <2>3
    <2> QED
      BY <2>3, <2>4
  <1> QED
    BY <1>1, ServerInvariant, PTL DEF ServerSpec, StoresExactly
-----------------------------------------------------------------------------
(* Reading back.  The registers always are what the replies so far leave a *)
(* master to expect, and what a reply carried stays what it was.           *)
Held == \A r \in Reg : Expected(r, hold_regs[r], Len(replies))

(* Later steps change neither what was acknowledged nor what was expected. *)
LEMMA PastStays ==
    ASSUME ServerIInv, [ServerNext]_serverVars
    PROVE  /\ Len(replies) <= Len(replies') /\ Len(replies) \in Nat
           /\ \A i \in 1..Len(replies) : /\ replies'[i] = replies[i]
                                         /\ bus'[replies'[i].req] = bus[replies[i].req]
                                         /\ Written(i)' = Written(i)
  <1>1. /\ Len(replies) \in Nat /\ replies \in Seq([req : Nat, reply : ADU])
        /\ bus \in Seq(Requests) /\ Len(bus) \in Nat
        /\ \A i \in 1..Len(replies) : replies[i].req \in 1..Len(bus)
    BY DEF ServerIInv, ServerTypeOK
  <1>2. /\ Len(replies) <= Len(replies')
        /\ \A i \in 1..Len(replies) : replies'[i] = replies[i]
        /\ \A k \in 1..Len(bus) : bus'[k] = bus[k]
    <2>1. CASE \E r \in Requests : Send(r)
      BY <1>1, <2>1 DEF Send
    <2>2. ASSUME NEW k \in 1..Len(bus), Serve(k)
          PROVE  /\ Len(replies) <= Len(replies') /\ bus' = bus
                 /\ \A i \in 1..Len(replies) : replies'[i] = replies[i]
      <3>1. PICK rep \in ADU : replies' = Append(replies, [req |-> k, reply |-> rep])
        BY <2>2, ServeOutcome DEF ServerIInv
      <3>2. [req |-> k, reply |-> rep] \in [req : Nat, reply : ADU]
        BY <1>1
      <3> QED
        BY <1>1, <2>2, <3>1, <3>2 DEF Serve
    <2>3. CASE UNCHANGED serverVars
      BY <1>1, <2>3 DEF serverVars
    <2> QED
      BY <2>1, <2>2, <2>3 DEF ServerNext
  <1>3. \A i \in 1..Len(replies) : /\ bus'[replies'[i].req] = bus[replies[i].req]
                                   /\ Written(i)' = Written(i)
    BY <1>1, <1>2 DEF Written
  <1> QED
    BY <1>1, <1>2, <1>3

(* So what was expected of a register stays expected.                      *)
LEMMA ExpectedStays ==
    ASSUME ServerIInv, [ServerNext]_serverVars, NEW r, NEW v, NEW m \in Nat, m <= Len(replies),
           Expected(r, v, m)
    PROVE  Expected(r, v, m)'
  <1>1. Len(replies) \in Nat
    BY PastStays
  <1>2. ASSUME NEW i \in 1..m
        PROVE  /\ bus'[replies'[i].req] = bus[replies[i].req]
               /\ Written(i)' = Written(i)
    BY <1>1, PastStays
  <1>3. (\A i \in 1..m : r \notin Written(i)') => v = 0
    BY <1>2 DEF Expected
  <1>4. ASSUME NEW i \in 1..m, r \in Written(i)', Header(bus'[replies'[i].req]).fc = FC10,
               \A k \in (i + 1)..m : r \notin Written(k)'
        PROVE  v = Sent(bus'[replies'[i].req], r)
    <2>1. \A k \in (i + 1)..m : k \in 1..m
      OBVIOUS
    <2>2. \A k \in (i + 1)..m : r \notin Written(k)
      BY <1>2, <1>4, <2>1
    <2>3. r \in Written(i) /\ Header(bus[replies[i].req]).fc = FC10
      BY <1>2, <1>4
    <2> QED
      BY <1>2, <2>2, <2>3 DEF Expected
  <1> QED
    BY <1>3, <1>4 DEF Expected, Header, Sent

(* Executing a request keeps the registers as expected.                    *)
LEMMA HeldStep == ServerIInv /\ Held /\ [ServerNext]_serverVars => Held'
  <1> SUFFICES ASSUME ServerIInv, Held, [ServerNext]_serverVars PROVE Held'
    OBVIOUS
  <1>1. Len(replies) \in Nat /\ replies \in Seq([req : Nat, reply : ADU])
    BY DEF ServerIInv, ServerTypeOK
  <1>3. CASE UNCHANGED serverVars \/ \E q \in Requests : Send(q)
    <2>1. hold_regs' = hold_regs /\ replies' = replies
      BY <1>3 DEF serverVars, Send
    <2>3. ASSUME NEW r \in Reg PROVE Expected(r, hold_regs[r], Len(replies))'
      <3> DEFINE v == hold_regs[r]
                 m == Len(replies)
      <3>1. Expected(r, v, m) /\ m \in Nat /\ m <= Len(replies)
        BY <1>1 DEF Held
      <3>2. hold_regs'[r] = v /\ Len(replies') = m
        BY <2>1
      <3>3. PICK w, n : w = v /\ n = m
        OBVIOUS
      <3>4. Expected(r, w, n) /\ n \in Nat /\ n <= Len(replies)
        BY <3>1, <3>3
      <3>5. Expected(r, w, n)'
        BY <3>4, ExpectedStays
      <3> QED
        BY <3>2, <3>3, <3>5 DEF Expected
    <2> QED
      BY <2>3 DEF Held, Reg
  <1>4. ASSUME NEW k \in 1..Len(bus), Serve(k) PROVE Held'
    <2>1. PICK rep \in ADU :
              /\ replies' = Append(replies, [req |-> k, reply |-> rep])
              /\ \A r \in Reg : Stores(bus[k], rep, r, hold_regs[r], hold_regs'[r])
      BY <1>4, ServeStores DEF ServerIInv
    <2> DEFINE adu == bus[k]
    <2>0. PICK n : n = Len(replies)
      OBVIOUS
    <2>2. /\ Len(replies') = n + 1
          /\ replies'[n + 1] = [req |-> k, reply |-> rep]
          /\ bus' = bus
      BY <1>1, <1>4, <2>0, <2>1 DEF Serve
    <2>3. /\ Written(n + 1)' = Acknowledges(adu, rep)
          /\ bus'[replies'[n + 1].req] = adu
      BY <2>2 DEF Written
    <2>4. ASSUME NEW r \in Reg PROVE Expected(r, hold_regs[r], Len(replies))'
      <3>1. PICK v, w : v = hold_regs[r] /\ w = hold_regs'[r]
        OBVIOUS
      <3>2. Expected(r, v, n) /\ n \in Nat /\ n <= Len(replies)
        BY <1>1, <2>0, <3>1 DEF Held
      <3>3. Expected(r, v, n)'
        BY <3>2, ExpectedStays
      <3>4. Stores(adu, rep, r, v, w)
        BY <2>1, <3>1
      <3>5. Expected(r, w, n + 1)'
        <4>1. CASE r \notin Acknowledges(adu, rep)
          <5>1. w = v
            BY <3>4, <4>1 DEF Stores
          <5>2. r \notin Written(n + 1)'
            BY <2>3, <4>1
          <5>3. (\A i \in 1..(n + 1) : r \notin Written(i)') => w = 0
            BY <3>2, <3>3, <5>1 DEF Expected
          <5>4. ASSUME NEW i \in 1..(n + 1), r \in Written(i)',
                       Header(bus'[replies'[i].req]).fc = FC10,
                       \A j \in (i + 1)..(n + 1) : r \notin Written(j)'
                PROVE  w = Sent(bus'[replies'[i].req], r)
            <6>1. i \in 1..n
              BY <3>2, <5>2, <5>4
            <6>2. \A j \in (i + 1)..n : r \notin Written(j)'
              BY <3>2, <5>4
            <6> QED
              BY <3>3, <5>1, <5>4, <6>1, <6>2 DEF Expected, Header, Sent
          <5> QED
            BY <5>3, <5>4 DEF Expected, Header, Sent
        <4>2. CASE r \in Acknowledges(adu, rep)
          <5>1. r \in Written(n + 1)' /\ n + 1 \in 1..(n + 1)
            BY <2>3, <3>2, <4>2
          <5>2. ASSUME NEW i \in 1..(n + 1),
                       Header(bus'[replies'[i].req]).fc = FC10,
                       \A j \in (i + 1)..(n + 1) : r \notin Written(j)'
                PROVE  w = Sent(bus'[replies'[i].req], r)
            <6>1. i = n + 1
              BY <3>2, <5>1, <5>2
            <6>2. bus'[replies'[i].req] = adu
              BY <2>3, <6>1
            <6>3. Header(adu).fc # FC06
              BY <5>2, <6>2 DEF FC06, FC10
            <6> QED
              BY <3>4, <4>2, <6>2, <6>3 DEF Stores
          <5> QED
            BY <5>1, <5>2 DEF Expected, Header, Sent
        <4> QED
          BY <4>1, <4>2
      <3>6. hold_regs'[r] = w /\ Len(replies') = n + 1
        BY <2>2, <3>1
      <3> QED
        BY <3>5, <3>6 DEF Expected
    <2> QED
      BY <2>4 DEF Held, Reg
  <1> QED
    BY <1>3, <1>4 DEF ServerNext

(* A read that is answered positively carries what was expected.           *)
LEMMA ReadBackStep == ServerIInv /\ Held /\ ReadBack /\ [ServerNext]_serverVars => ReadBack'
  <1> SUFFICES ASSUME ServerIInv, Held, ReadBack, [ServerNext]_serverVars PROVE ReadBack'
    OBVIOUS
  <1>t. Len(replies) \in Nat /\ replies \in Seq([req : Nat, reply : ADU])
    BY DEF ServerIInv, ServerTypeOK
  <1> SUFFICES ASSUME NEW j \in 1..Len(replies'),
                      Header(bus'[replies'[j].req]).fc = FC03,
                      ~IsException(replies'[j].reply),
                      NEW n \in 1..Header(bus'[replies'[j].req]).word
               PROVE  Expected(Header(bus[replies[j].req]).start + n - 1,
                               Decoded(replies[j].reply, n), j - 1)'
    BY DEF ReadBack, Header, IsException
  <1> DEFINE f == Header(bus'[replies'[j].req])
  <1>1. PICK r, v, m : r = f.start + n - 1 /\ v = Decoded(replies'[j].reply, n) /\ m = j - 1
    OBVIOUS
  <1>2. Expected(r, v, m) /\ m \in Nat /\ m <= Len(replies)
    <2>1. CASE j \in 1..Len(replies)
      <3>1. replies'[j] = replies[j] /\ bus'[replies'[j].req] = bus[replies[j].req]
        BY <2>1, PastStays
      <3>2. Expected(r, v, m)
        BY <1>1, <2>1, <3>1 DEF ReadBack
      <3> QED
        BY <1>t, <1>1, <2>1, <3>2
    <2>2. CASE j \notin 1..Len(replies)
      <3>1. PICK k \in 1..Len(bus) : Serve(k)
        BY <2>2 DEF ServerNext, Send, serverVars
      <3> DEFINE h == Header(bus[k])
                 rep == Dispatch(h, Data(bus[k]), hold_regs).reply
      <3>2. /\ h \in Headers
            /\ hold_regs \in [Reg -> Word]
            /\ replies' = Append(replies, [req |-> k, reply |-> rep])
            /\ bus' = bus
        BY <3>1, ServeDispatch DEF ServerIInv, Serve
      <3> HIDE DEF rep
      <3>3. j = Len(replies) + 1 /\ replies'[j] = [req |-> k, reply |-> rep]
        BY <1>t, <2>2, <3>2
      <3>4. f = h /\ h.fc = FC03 /\ ~IsException(rep) /\ n \in 1..h.word
        BY <3>2, <3>3
      <3> HIDE DEF h, f
      <3>5. h.word \in 1..125 /\ InRange(h.start, h.word)
            /\ rep = ReadReply(h, ReadRegs(hold_regs, h.start, h.word))
        BY <3>2, <3>4, DispatchReads DEF rep
      <3>6. v = hold_regs[r]
        <4>1. U16(rep.bytes[2 * n + 2], rep.bytes[2 * n + 3]) = hold_regs[h.start + n - 1]
          BY <3>2, <3>4, <3>5, ReadReplyBytes
        <4>2. v = U16(rep.bytes[2 * n + 2], rep.bytes[2 * n + 3])
          BY <1>1, <3>3 DEF Decoded
        <4> QED
          BY <1>1, <3>4, <4>1, <4>2
      <3>7. r \in Reg
        <4>1. h.start \in Nat /\ h.word \in Nat
          BY <3>2, HeaderFields, WordsAreNumbers
        <4>2. r = h.start + n - 1 /\ h.start + h.word <= HOLD_REG_COUNT
          BY <1>1, <3>4, <3>5 DEF InRange
        <4>3. n \in 1..h.word
          BY <3>4
        <4> QED
          BY <4>1, <4>2, <4>3, RegCountAssumption DEF Reg
      <3>8. m = Len(replies)
        BY <1>t, <1>1, <3>3
      <3> QED
        BY <1>t, <3>6, <3>7, <3>8 DEF Held
    <2> QED
      BY <2>1, <2>2
  <1>3. Expected(r, v, m)'
    BY <1>2, ExpectedStays
  <1> QED
    BY <1>1, <1>3 DEF Expected, Header, Decoded

(* Every positive read returns, at each place, the word the last FC10 that *)
(* wrote the register carried for it, and 0 where nothing was written, for *)
(* every register count, every set of requests and exchanges of any        *)
(* length: the offsets and byte orders of mb_data_write and of the FC03    *)
(* reply agree with each other, and no other request comes between.        *)
THEOREM ServerReadBack == ServerSpec => []ReadBack
  <1>1. ServerInit => Held /\ ReadBack
    BY DEF ServerInit, Held, Expected, ReadBack
  <1>2. ServerIInv /\ (Held /\ ReadBack) /\ [ServerNext]_serverVars => (Held /\ ReadBack)'
    BY HeldStep, ReadBackStep
  <1> QED
    BY <1>1, <1>2, ServerInvariant, PTL DEF ServerSpec

(* Requests are executed in the order they were sent and none of them      *)
(* twice: a later reply answers a later ADU.                               *)
InOrder ==
    \A i, j \in 1..Len(replies) : i < j => replies[i].req < replies[j].req

(* mb_slave_task executes a request before it takes the next.              *)
THEOREM ServerInOrder == ServerSpec => []InOrder
  <1>1. ServerInit => InOrder
    BY DEF ServerInit, InOrder
  <1>2. ServerIInv /\ InOrder /\ [ServerNext]_serverVars => InOrder'
    <2> SUFFICES ASSUME ServerIInv, InOrder, [ServerNext]_serverVars PROVE InOrder'
      OBVIOUS
    <2>1. Len(replies) \in Nat /\ replies \in Seq([req : Nat, reply : ADU])
      BY DEF ServerIInv, ServerTypeOK
    <2>2. CASE UNCHANGED replies
      BY <2>2 DEF InOrder
    <2>3. ASSUME NEW k \in 1..Len(bus), Serve(k) PROVE InOrder'
      <3>1. PICK rep : replies' = Append(replies, [req |-> k, reply |-> rep])
        BY <2>3, ServeDispatch DEF ServerIInv
      <3>2. /\ Len(replies') = Len(replies) + 1
            /\ \A i \in 1..Len(replies) : replies'[i] = replies[i]
            /\ replies'[Len(replies) + 1].req = k
        <4> DEFINE e == [req |-> k, reply |-> rep]
        <4>1. e.req = k /\ replies' = Append(replies, e)
          BY <3>1
        <4> HIDE DEF e
        <4> QED
          BY <4>1, <2>1
      <3>3. \A i \in 1..Len(replies) : replies[i].req < k
        <4> SUFFICES ASSUME NEW i \in 1..Len(replies) PROVE replies[i].req < k
          OBVIOUS
        <4>1. replies[i].req \in Nat /\ replies[Len(replies)].req \in Nat /\ k \in Nat
          <5>1. i \in 1..Len(replies) /\ Len(replies) \in 1..Len(replies)
            BY <2>1
          <5>2. \A n \in 1..Len(replies) : replies[n].req \in 1..Len(bus)
            BY DEF ServerIInv
          <5> QED
            BY <5>1, <5>2
        <4>2. replies[i].req <= replies[Len(replies)].req
          BY <2>1, <4>1 DEF InOrder
        <4>3. replies[Len(replies)].req < k
          BY <2>1, <2>3, <4>1 DEF Serve, LastServed
        <4> QED
          BY <4>1, <4>2, <4>3
      <3>4. ASSUME NEW i \in 1..Len(replies'), NEW j \in 1..Len(replies'), i < j
            PROVE  replies'[i].req < replies'[j].req
        <4>1. i \in 1..Len(replies) /\ (j \in 1..Len(replies) \/ j = Len(replies) + 1)
          <5>1. \A n \in Nat : \A a, b \in 1..(n + 1) :
                  a < b => a \in 1..n /\ (b \in 1..n \/ b = n + 1)
            OBVIOUS
          <5>2. i \in 1..(Len(replies) + 1) /\ j \in 1..(Len(replies) + 1)
            BY <3>2
          <5> QED
            BY <2>1, <3>4, <5>1, <5>2
        <4> QED
          BY <4>1, <3>2, <3>3, <3>4 DEF InOrder
      <3> QED
        BY <3>4 DEF InOrder
    <2> QED
      BY <2>2, <2>3 DEF ServerNext, Send, serverVars
  <1> QED
    BY <1>1, <1>2, ServerInvariant, PTL DEF ServerSpec
=============================================================================
