--------------------------- MODULE MbFrame_proofs ---------------------------
(***************************************************************************)
(* Lemmas about the operators of MbFrame, for every number of registers    *)
(* and every request.                                                      *)
(***************************************************************************)
EXTENDS MbFrame, TLAPS

(* Two bytes make a word.                                                  *)
LEMMA U16Type == ASSUME NEW hi \in Byte, NEW lo \in Byte
                 PROVE  U16(hi, lo) \in Word
  BY DEF U16, Byte, Word

(* The bytes of a word are bytes, and make the word again.                 *)
LEMMA HiLo == ASSUME NEW w \in Word
              PROVE  Hi(w) \in Byte /\ Lo(w) \in Byte /\ U16(Hi(w), Lo(w)) = w
  BY DEF U16, Hi, Lo, Byte, Word

(* Bytes and words are natural numbers.                                    *)
LEMMA WordsAreNumbers == Byte \subseteq Nat /\ Word \subseteq Nat
  BY DEF Byte, Word

(* The fields of a header are bytes and words.                             *)
LEMMA HeaderFields == ASSUME NEW f \in Headers
                      PROVE  /\ f.slave_addr \in Byte /\ f.fc \in Byte
                             /\ f.start \in Word /\ f.word \in Word
  BY DEF Headers

(* What the parser accepts has at least six bytes before the CRC.          *)
LEMMA AcceptedLength == ASSUME NEW adu \in ADU, Accepts(adu)
                        PROVE  /\ Len(adu.bytes) \in Nat /\ Len(adu.bytes) >= 6
                               /\ \A i \in 1..6 : adu.bytes[i] \in Byte
  BY DEF ADU, Accepts, AduLen, MinLen

(* The header of an accepted ADU is well formed.                           *)
LEMMA HeaderType == ASSUME NEW adu \in ADU, Accepts(adu)
                    PROVE  Header(adu) \in Headers
  <1>1. \A i \in 1..6 : adu.bytes[i] \in Byte
    BY AcceptedLength
  <1>2. adu.bytes[1] \in Byte /\ adu.bytes[2] \in Byte
    BY <1>1
  <1>3. U16(adu.bytes[3], adu.bytes[4]) \in Word /\ U16(adu.bytes[5], adu.bytes[6]) \in Word
    BY <1>1, U16Type
  <1> QED
    BY <1>2, <1>3 DEF Header, Headers

(* The data of an accepted FC10 request are two bytes per register.        *)
LEMMA DataType == ASSUME NEW adu \in ADU, Accepts(adu), Header(adu).fc = FC10
                  PROVE  /\ Data(adu) \in Seq(Byte)
                         /\ Len(Data(adu)) = 2 * Header(adu).word
  <1> DEFINE b == adu.bytes
  <1>1. b \in Seq(Byte) /\ b[2] = FC10
    BY DEF ADU, Header
  <1>2. b[7] = U16(b[5], b[6]) * 2 /\ Len(b) + 2 = 7 + b[7] + 2
    BY <1>1 DEF Accepts, AduLen
  <1>3. Header(adu).word = U16(b[5], b[6])
    BY DEF Header
  <1>4. U16(b[5], b[6]) \in Word /\ Len(b) \in Nat
    BY AcceptedLength, U16Type, <1>1
  <1>a. \A u \in Word, l \in Nat : \A x : x = u * 2 /\ l + 2 = 7 + x + 2
                                        => l = 7 + 2 * u /\ u \in Nat
    BY DEF Word
  <1>b. Len(b) = 7 + 2 * U16(b[5], b[6]) /\ U16(b[5], b[6]) \in Nat
    BY <1>a, <1>2, <1>4
  <1>5. Len(b) = 7 + 2 * Header(adu).word /\ Header(adu).word \in Nat
    BY <1>b, <1>3
  <1> HIDE DEF b
  <1>6. SubSeq(b, 8, Len(b)) \in Seq(Byte) /\ Len(SubSeq(b, 8, Len(b))) = Len(b) - 7
    BY <1>1, <1>5
  <1> QED
    BY <1>5, <1>6 DEF Data, b

(* Storing byte pairs into registers leaves words in all registers.        *)
LEMMA WriteRegsType ==
    ASSUME NEW regs \in [Reg -> Word], NEW start \in Nat, NEW count \in Nat,
           NEW data \in Seq(Byte), Len(data) = 2 * count
    PROVE  WriteRegs(regs, start, count, data) \in [Reg -> Word]
  <1> SUFFICES ASSUME NEW r \in Reg, r >= start, r < start + count
               PROVE  U16(data[2 * (r - start) + 1], data[2 * (r - start) + 2]) \in Word
    BY RegCountAssumption DEF WriteRegs
  <1>1. r \in Int
    BY RegCountAssumption DEF Reg
  <1>2. 2 * (r - start) + 1 \in 1..Len(data) /\ 2 * (r - start) + 2 \in 1..Len(data)
    BY <1>1
  <1> QED
    BY <1>2, U16Type

(* The payload of a read: two bytes per register, when all are in range.   *)
LEMMA ReadRegsType ==
    ASSUME NEW regs \in [Reg -> Word], NEW start \in Nat, NEW count \in Nat,
           InRange(start, count)
    PROVE  /\ ReadRegs(regs, start, count) \in Seq(Byte)
           /\ Len(ReadRegs(regs, start, count)) = 2 * count
  <1>1. ASSUME NEW i \in 1..(2 * count)
        PROVE  LET w == regs[start + (i - 1) \div 2]
               IN  (IF i % 2 = 1 THEN Hi(w) ELSE Lo(w)) \in Byte
    <2>1. start + (i - 1) \div 2 \in Reg
      BY RegCountAssumption DEF InRange, Reg
    <2>2. regs[start + (i - 1) \div 2] \in Word
      BY <2>1
    <2> QED
      BY <2>2, HiLo
  <1>2. ReadRegs(regs, start, count) \in [1..(2 * count) -> Byte]
    BY <1>1 DEF ReadRegs
  <1> QED
    BY <1>2

(* A reply made of bytes is an ADU.                                        *)
LEMMA ReplyType == ASSUME NEW bytes \in Seq(Byte)
                   PROVE  Reply(bytes) \in ADU /\ AduLen(Reply(bytes)) = Len(bytes) + 2
  BY DEF Reply, ADU, AduLen

(* The two shapes of a short reply.                                        *)
LEMMA ThreeBytes == ASSUME NEW a \in Byte, NEW b \in Byte, NEW c \in Byte
                    PROVE  /\ <<a, b, c>> \in Seq(Byte) /\ Len(<<a, b, c>>) = 3
                           /\ <<a, b, c>>[2] = b
  OBVIOUS

(* A reply of six bytes is a sequence of bytes.                            *)
LEMMA SixBytes ==
    ASSUME NEW a \in Byte, NEW b \in Byte, NEW c \in Byte,
           NEW d \in Byte, NEW e \in Byte, NEW g \in Byte
    PROVE  /\ <<a, b, c, d, e, g>> \in Seq(Byte) /\ Len(<<a, b, c, d, e, g>>) = 6
           /\ <<a, b, c, d, e, g>>[2] = b
  OBVIOUS

(* An exception reply is an ADU of five characters that reads as one.      *)
LEMMA ExceptionType == ASSUME NEW f \in Headers, NEW code \in Byte
                       PROVE  /\ Exception(f, code) \in ADU
                              /\ AduLen(Exception(f, code)) = 5
                              /\ IsException(Exception(f, code))
  <1> DEFINE e == (f.fc % 128) + 128
             s == <<f.slave_addr, e, code>>
  <1>1. f.slave_addr \in Byte /\ e \in Byte /\ e >= 128
    BY DEF Headers, Byte
  <1>2. Exception(f, code) = Reply(s)
    BY DEF Exception
  <1> HIDE DEF e
  <1>3. s \in Seq(Byte) /\ Len(s) = 3 /\ s[2] = e
    BY <1>1, ThreeBytes
  <1> HIDE DEF s
  <1>4. Reply(s).bytes = s
    BY DEF Reply
  <1>5. Reply(s) \in ADU /\ AduLen(Reply(s)) = Len(s) + 2
    BY <1>3, ReplyType
  <1> QED
    BY <1>1, <1>2, <1>3, <1>4, <1>5 DEF IsException

(* The echo of a write is an ADU of eight characters, and no exception.    *)
LEMMA EchoType == ASSUME NEW f \in Headers, f.fc \in {FC06, FC10}
                  PROVE  /\ EchoReply(f) \in ADU
                         /\ AduLen(EchoReply(f)) = 8
                         /\ ~IsException(EchoReply(f))
  <1>1. f.slave_addr \in Byte /\ f.fc \in Byte /\ f.start \in Word /\ f.word \in Word
    BY DEF Headers
  <1> DEFINE s == <<f.slave_addr, f.fc, Hi(f.start), Lo(f.start), Hi(f.word), Lo(f.word)>>
  <1>2. s \in Seq(Byte) /\ Len(s) = 6 /\ s[2] = f.fc
    <2>1. /\ Hi(f.start) \in Byte /\ Lo(f.start) \in Byte
          /\ Hi(f.word) \in Byte /\ Lo(f.word) \in Byte
      BY <1>1, HiLo
    <2> QED
      BY <1>1, <2>1, SixBytes
  <1>3. EchoReply(f) = Reply(s)
    BY DEF EchoReply
  <1> HIDE DEF s
  <1>4. Reply(s).bytes = s /\ Reply(s) \in ADU /\ AduLen(Reply(s)) = Len(s) + 2
    BY <1>2, ReplyType DEF Reply
  <1> QED
    BY <1>2, <1>3, <1>4 DEF IsException, FC06, FC10

(* A read reply is an ADU that fits in s_tx_buf, and no exception.         *)
LEMMA ReadReplyType ==
    ASSUME NEW f \in Headers, f.fc = FC03, NEW payload \in Seq(Byte)
    PROVE  /\ ReadReply(f, payload) \in ADU
           /\ AduLen(ReadReply(f, payload)) = Len(payload) + 5
           /\ ~IsException(ReadReply(f, payload))
  <1>1. f.slave_addr \in Byte /\ f.fc \in Byte /\ (2 * f.word) % 256 \in Byte
    <2>1. f.slave_addr \in Byte /\ f.fc \in Byte /\ f.word \in Word
      BY HeaderFields
    <2>2. \A w \in Word : (2 * w) % 256 \in Byte
      BY DEF Word, Byte
    <2> QED
      BY <2>1, <2>2
  <1> DEFINE h == <<f.slave_addr, f.fc, (2 * f.word) % 256>>
  <1>2. h \in Seq(Byte) /\ Len(h) = 3 /\ h[2] = f.fc
    BY <1>1
  <1>3. h \o payload \in Seq(Byte) /\ Len(h \o payload) = Len(payload) + 3
        /\ (h \o payload)[2] = f.fc
    BY <1>2
  <1>4. ReadReply(f, payload) = Reply(h \o payload)
    BY DEF ReadReply
  <1> DEFINE t == h \o payload
  <1> HIDE DEF h
  <1>5. /\ t \in Seq(Byte) /\ Len(t) = Len(payload) + 3 /\ t[2] = f.fc
        /\ ReadReply(f, payload) = Reply(t)
    BY <1>3, <1>4
  <1> HIDE DEF t
  <1>6. Reply(t).bytes = t /\ Reply(t) \in ADU /\ AduLen(Reply(t)) = Len(t) + 2
    BY <1>5, ReplyType DEF Reply
  <1> QED
    BY <1>5, <1>6 DEF IsException, FC03

(* What one dispatch can do, whatever the request: registers stay words,   *)
(* the reply is an ADU that fits in 256 bytes, an exception leaves the     *)
(* registers alone, and a positive reply means every register the request  *)
(* names exists.                                                           *)
THEOREM DispatchOutcome ==
    ASSUME NEW f \in Headers, NEW data \in Seq(Byte), NEW regs \in [Reg -> Word],
           f.fc = FC10 => Len(data) = 2 * f.word
    PROVE  LET out == Dispatch(f, data, regs)
           IN  /\ out.regs \in [Reg -> Word]
               /\ out.reply \in ADU
               /\ AduLen(out.reply) <= 256
               /\ IsException(out.reply) => out.regs = regs
               /\ ~IsException(out.reply) =>
                     f.start + (IF f.fc = FC06 THEN 1 ELSE f.word) <= HOLD_REG_COUNT
  <1> DEFINE out == Dispatch(f, data, regs)
             Good(o) == /\ o.regs \in [Reg -> Word]
                        /\ o.reply \in ADU
                        /\ AduLen(o.reply) <= 256
                        /\ IsException(o.reply) => o.regs = regs
                        /\ ~IsException(o.reply) =>
                              f.start + (IF f.fc = FC06 THEN 1 ELSE f.word) <= HOLD_REG_COUNT
  <1>a. SUFFICES Good(out)
    OBVIOUS
  <1>b. f.start \in Nat /\ f.word \in Nat /\ f.word \in Word /\ f.fc \in Nat
    <2>1. f.start \in Word /\ f.word \in Word /\ f.fc \in Byte
      BY HeaderFields
    <2> QED
      BY <2>1, WordsAreNumbers
  <1>c. \A c \in {1, 2, 3} : Good(Outcome(regs, Exception(f, c)))
    <2> SUFFICES ASSUME NEW c \in {1, 2, 3} PROVE Good(Outcome(regs, Exception(f, c)))
      OBVIOUS
    <2>1. c \in Byte
      BY DEF Byte
    <2>2. /\ Exception(f, c) \in ADU
          /\ AduLen(Exception(f, c)) = 5
          /\ IsException(Exception(f, c))
      BY <2>1, ExceptionType
    <2> QED
      BY <2>2 DEF Outcome
  <1>d. ASSUME NEW new \in [Reg -> Word], f.fc \in {FC06, FC10},
               InRange(f.start, IF f.fc = FC06 THEN 1 ELSE f.word)
        PROVE  Good(Outcome(new, EchoReply(f)))
    BY <1>b, <1>d, EchoType DEF Outcome, InRange
  <1> HIDE DEF Good
  <1>1. CASE f.fc = FC03
    <2> DEFINE payload == ReadRegs(regs, f.start, f.word)
    <2>1. out = DispatchRead(f, regs)
      BY <1>1 DEF Dispatch, FC03, FC06, FC10
    <2> HIDE DEF out
    <2>2. CASE f.word \in 1..125 /\ InRange(f.start, f.word)
      <3>1. payload \in Seq(Byte) /\ Len(payload) = 2 * f.word
        BY <1>b, <2>2, ReadRegsType
      <3>2. out = Outcome(regs, ReadReply(f, payload))
        BY <2>1, <2>2 DEF DispatchRead
      <3> HIDE DEF payload
      <3>3. /\ ReadReply(f, payload) \in ADU
            /\ AduLen(ReadReply(f, payload)) = Len(payload) + 5
            /\ ~IsException(ReadReply(f, payload))
        BY <3>1, <1>1, ReadReplyType
      <3> DEFINE r == ReadReply(f, payload)
      <3>4. AduLen(r) <= 256
        <4>1. \A w \in 1..125 : 2 * w + 5 <= 256
          OBVIOUS
        <4>2. AduLen(r) = 2 * f.word + 5
          BY <3>1, <3>3
        <4> QED
          BY <4>1, <4>2, <2>2
      <3> HIDE DEF r
      <3>5. out.regs = regs /\ out.reply = r /\ r \in ADU /\ ~IsException(r)
        BY <3>2, <3>3 DEF Outcome, r
      <3>6. f.start + (IF f.fc = FC06 THEN 1 ELSE f.word) <= HOLD_REG_COUNT
        BY <1>1, <2>2, <1>b DEF InRange, FC03, FC06
      <3> QED
        BY <3>4, <3>5, <3>6 DEF Good
    <2>3. CASE ~(f.word \in 1..125)
      <3>1. out = Outcome(regs, Exception(f, 3))
        BY <2>1, <2>3 DEF DispatchRead
      <3> QED
        BY <3>1, <1>c
    <2>4. CASE f.word \in 1..125 /\ ~InRange(f.start, f.word)
      <3>1. out = Outcome(regs, Exception(f, 2))
        BY <2>1, <2>4 DEF DispatchRead
      <3> QED
        BY <3>1, <1>c
    <2> QED
      BY <2>2, <2>3, <2>4
  <1>2. CASE f.fc = FC06
    <2>1. out = DispatchWriteOne(f, regs)
      BY <1>2 DEF Dispatch, FC03, FC06, FC10
    <2> HIDE DEF out
    <2>2. CASE InRange(f.start, 1)
      <3> DEFINE new == WriteRegs(regs, f.start, 1, ValueInMemory(f))
      <3>1. ValueInMemory(f) \in Seq(Byte) /\ Len(ValueInMemory(f)) = 2
        BY <1>b, HiLo DEF ValueInMemory
      <3>2. new \in [Reg -> Word]
        <4>1. 1 \in Nat /\ Len(ValueInMemory(f)) = 2 * 1
          BY <3>1
        <4> QED
          BY <1>b, <3>1, <4>1, WriteRegsType
      <3>3. out = Outcome(new, EchoReply(f))
        BY <2>1, <2>2 DEF DispatchWriteOne
      <3> HIDE DEF new
      <3> QED
        BY <3>2, <3>3, <1>2, <2>2, <1>d
    <2>3. CASE ~InRange(f.start, 1)
      <3>1. out = Outcome(regs, Exception(f, 2))
        BY <2>1, <2>3 DEF DispatchWriteOne
      <3> QED
        BY <3>1, <1>c
    <2> QED
      BY <2>2, <2>3
  <1>3. CASE f.fc = FC10
    <2>1. out = DispatchWriteMany(f, data, regs)
      BY <1>3 DEF Dispatch, FC03, FC06, FC10
    <2> HIDE DEF out
    <2>2. CASE f.word \in 1..123 /\ InRange(f.start, f.word)
      <3> DEFINE new == WriteRegs(regs, f.start, f.word, data)
      <3>1. new \in [Reg -> Word]
        BY <1>b, <1>3, WriteRegsType
      <3>2. out = Outcome(new, EchoReply(f))
        BY <2>1, <2>2 DEF DispatchWriteMany
      <3> HIDE DEF new
      <3>3. InRange(f.start, IF f.fc = FC06 THEN 1 ELSE f.word)
        BY <1>3, <2>2 DEF FC06, FC10
      <3> QED
        BY <3>1, <3>2, <3>3, <1>3, <1>d
    <2>3. CASE ~(f.word \in 1..123)
      <3>1. out = Outcome(regs, Exception(f, 3))
        BY <2>1, <2>3 DEF DispatchWriteMany
      <3> QED
        BY <3>1, <1>c
    <2>4. CASE f.word \in 1..123 /\ ~InRange(f.start, f.word)
      <3>1. out = Outcome(regs, Exception(f, 2))
        BY <2>1, <2>4 DEF DispatchWriteMany
      <3> QED
        BY <3>1, <1>c
    <2> QED
      BY <2>2, <2>3, <2>4
  <1>4. CASE ~(f.fc \in {FC03, FC06, FC10})
    <2>1. out = Outcome(regs, Exception(f, 1))
      BY <1>4 DEF Dispatch
    <2> QED
      BY <2>1, <1>c
  <1> QED
    BY <1>1, <1>2, <1>3, <1>4
(* A read reply as its master decodes it: it announces the bytes it        *)
(* carries, and the j-th pair of them is the j-th register asked for.      *)
LEMMA ReadReplyBytes ==
    ASSUME NEW f \in Headers, f.word \in 1..125,
           NEW regs \in [Reg -> Word], InRange(f.start, f.word)
    PROVE  LET b == ReadReply(f, ReadRegs(regs, f.start, f.word)).bytes
           IN  /\ Len(b) = 3 + b[3]
               /\ b[3] = 2 * f.word
               /\ \A j \in 1..f.word :
                     U16(b[2 * j + 2], b[2 * j + 3]) = regs[f.start + j - 1]
  <1> DEFINE n == f.word
             s == f.start
             p == ReadRegs(regs, s, n)
             h == <<f.slave_addr, f.fc, (2 * n) % 256>>
             b == h \o p
  <1>1. n \in 1..125 /\ s \in Nat /\ f.slave_addr \in Byte /\ f.fc \in Byte
    BY HeaderFields, WordsAreNumbers
  <1>2. ReadReply(f, p).bytes = b
    BY DEF ReadReply, Reply
  <1>3. (2 * n) % 256 = 2 * n
    <2>1. \A w \in 1..125 : (2 * w) % 256 = 2 * w
      OBVIOUS
    <2> QED
      BY <1>1, <2>1
  <1>4. p \in Seq(Byte) /\ Len(p) = 2 * n
    <2>1. n \in Nat /\ s \in Nat /\ InRange(s, n)
      BY <1>1
    <2> HIDE DEF n, s
    <2> QED
      BY <2>1, ReadRegsType
  <1>5. \A j \in 1..n : p[2 * j - 1] = Hi(regs[s + j - 1]) /\ p[2 * j] = Lo(regs[s + j - 1])
    <2> SUFFICES ASSUME NEW j \in 1..n
                 PROVE  p[2 * j - 1] = Hi(regs[s + j - 1]) /\ p[2 * j] = Lo(regs[s + j - 1])
      OBVIOUS
    <2>1. j \in Int /\ 2 * j - 1 \in 1..(2 * n) /\ 2 * j \in 1..(2 * n)
      <3>1. n \in Nat /\ j \in 1..n
        BY <1>1
      <3> HIDE DEF n
      <3> QED
        BY <3>1
    <2>2. /\ (2 * j - 1) % 2 = 1 /\ (2 * j) % 2 = 0
          /\ (2 * j - 1 - 1) \div 2 = j - 1 /\ (2 * j - 1) \div 2 = j - 1
      <3>1. \A x \in Int : (2 * x - 1) % 2 = 1 /\ (2 * x) % 2 = 0
        OBVIOUS
      <3>2. \A x \in Int : (2 * x - 1 - 1) \div 2 = x - 1 /\ (2 * x - 1) \div 2 = x - 1
        OBVIOUS
      <3> QED
        BY <2>1, <3>1, <3>2
    <2>3. s + (j - 1) = s + j - 1
      BY <1>1, <2>1
    <2> QED
      BY <2>1, <2>2, <2>3 DEF ReadRegs
  <1>6. \A j \in 1..n : regs[s + j - 1] \in Word
    <2> SUFFICES ASSUME NEW j \in 1..n PROVE s + j - 1 \in Reg
      OBVIOUS
    <2>1. s + n <= HOLD_REG_COUNT
      BY DEF InRange
    <2>2. n \in Nat /\ s \in Nat /\ j \in 1..n
      BY <1>1
    <2> HIDE DEF n, s
    <2> QED
      BY <2>1, <2>2, RegCountAssumption DEF Reg
  <1> HIDE DEF p, n, s
  <1>7. h \in Seq(Byte \cup {(2 * n) % 256}) /\ Len(h) = 3 /\ h[3] = (2 * n) % 256
    BY <1>1
  <1>8. /\ Len(b) = 3 + Len(p) /\ b[3] = (2 * n) % 256
        /\ \A i \in 1..Len(p) : b[3 + i] = p[i]
    <2> DEFINE S == Byte \cup {(2 * n) % 256}
    <2>1. p \in Seq(S) /\ h \in Seq(S)
      BY <1>4, <1>7
    <2> HIDE DEF h, S
    <2>2. /\ Len(h \o p) = Len(h) + Len(p)
          /\ \A i \in 1..(Len(h) + Len(p)) :
                (h \o p)[i] = IF i <= Len(h) THEN h[i] ELSE p[i - Len(h)]
      BY <2>1
    <2>3. Len(h) = 3 /\ Len(p) \in Nat
      BY <1>7, <2>1
    <2>4. b[3] = h[3]
      BY <2>2, <2>3
    <2>5. ASSUME NEW i \in 1..Len(p) PROVE b[3 + i] = p[i]
      <3>1. 3 + i \in 1..(Len(h) + Len(p)) /\ ~(3 + i <= Len(h)) /\ (3 + i) - Len(h) = i
        BY <2>3
      <3> QED
        BY <2>2, <3>1
    <2> QED
      BY <1>7, <2>2, <2>3, <2>4, <2>5
  <1> HIDE DEF b
  <1>9. ASSUME NEW j \in 1..n
        PROVE  U16(b[2 * j + 2], b[2 * j + 3]) = regs[s + j - 1]
    <2>1. /\ 2 * j - 1 \in 1..Len(p) /\ 2 * j \in 1..Len(p)
          /\ 3 + (2 * j - 1) = 2 * j + 2 /\ 3 + 2 * j = 2 * j + 3
      BY <1>1, <1>4
    <2>2. b[2 * j + 2] = p[2 * j - 1] /\ b[2 * j + 3] = p[2 * j]
      BY <1>8, <2>1
    <2>3. b[2 * j + 2] = Hi(regs[s + j - 1]) /\ b[2 * j + 3] = Lo(regs[s + j - 1])
      BY <1>5, <2>2
    <2> QED
      BY <1>6, <2>3, HiLo
  <1> QED
    BY <1>2, <1>3, <1>4, <1>8, <1>9 DEF n, s, p

(* A positive answer to a read carries the registers it asked for.         *)
LEMMA DispatchReads ==
    ASSUME NEW f \in Headers, f.fc = FC03, NEW data, NEW regs,
           ~IsException(Dispatch(f, data, regs).reply)
    PROVE  /\ f.word \in 1..125 /\ InRange(f.start, f.word)
           /\ Dispatch(f, data, regs).reply = ReadReply(f, ReadRegs(regs, f.start, f.word))
  <1>1. Dispatch(f, data, regs) = DispatchRead(f, regs)
    BY DEF Dispatch, FC03, FC06, FC10
  <1>2. \A c \in {2, 3} : IsException(Outcome(regs, Exception(f, c)).reply)
    <2>1. {2, 3} \subseteq Byte
      BY DEF Byte
    <2> QED
      BY <2>1, ExceptionType DEF Outcome
  <1>3. f.word \in 1..125 /\ InRange(f.start, f.word)
    BY <1>1, <1>2 DEF DispatchRead
  <1> QED
    BY <1>1, <1>3 DEF DispatchRead, Outcome

(* A value with its two bytes exchanged.                                   *)
Exchanged(w) == U16(Lo(w), Hi(w))

(* What FC06 writes is its value with the bytes exchanged.                 *)
LEMMA WriteOneRegister ==
    ASSUME NEW f \in Headers, NEW regs \in [Reg -> Word], InRange(f.start, 1)
    PROVE  WriteRegs(regs, f.start, 1, ValueInMemory(f))
             = [regs EXCEPT ![f.start] = Exchanged(f.word)]
  <1>1. f.start \in Nat
    BY HeaderFields, WordsAreNumbers
  <1>2. f.start \in Reg
    BY <1>1, RegCountAssumption DEF InRange, Reg
  <1>3. \A r \in Reg : r >= f.start /\ r < f.start + 1 <=> r = f.start
    BY <1>1, RegCountAssumption DEF Reg
  <1>4. /\ 2 * (f.start - f.start) + 1 = 1 /\ 2 * (f.start - f.start) + 2 = 2
        /\ ValueInMemory(f)[1] = Lo(f.word) /\ ValueInMemory(f)[2] = Hi(f.word)
    BY <1>1 DEF ValueInMemory
  <1>5. U16(ValueInMemory(f)[2 * (f.start - f.start) + 1],
            ValueInMemory(f)[2 * (f.start - f.start) + 2]) = Exchanged(f.word)
    BY <1>4 DEF Exchanged
  <1> DEFINE new == WriteRegs(regs, f.start, 1, ValueInMemory(f))
  <1>6. new = [r \in Reg |-> IF r = f.start THEN Exchanged(f.word) ELSE regs[r]]
    BY <1>3, <1>5 DEF WriteRegs
  <1> QED
    BY <1>2, <1>6

(* The registers one dispatch leaves behind: those it found when it only   *)
(* reads or refuses, else the ones its request names replaced.             *)
LEMMA DispatchStores ==
    ASSUME NEW f \in Headers, NEW data, NEW regs \in [Reg -> Word]
    PROVE  LET out == Dispatch(f, data, regs)
           IN  out.regs = IF IsException(out.reply) \/ f.fc = FC03 THEN regs
                          ELSE IF f.fc = FC06
                            THEN [regs EXCEPT ![f.start] = Exchanged(f.word)]
                            ELSE WriteRegs(regs, f.start, f.word, data)
  <1> DEFINE out == Dispatch(f, data, regs)
             Left(o) == IF IsException(o.reply) \/ f.fc = FC03 THEN regs
                        ELSE IF f.fc = FC06
                          THEN [regs EXCEPT ![f.start] = Exchanged(f.word)]
                          ELSE WriteRegs(regs, f.start, f.word, data)
  <1>a. SUFFICES out.regs = Left(out)
    OBVIOUS
  <1>1. \A c \in {1, 2, 3} : /\ IsException(Outcome(regs, Exception(f, c)).reply)
                             /\ Outcome(regs, Exception(f, c)).regs = regs
    <2>1. {1, 2, 3} \subseteq Byte
      BY DEF Byte
    <2> QED
      BY <2>1, ExceptionType DEF Outcome
  <1>2. CASE f.fc = FC03
    <2>1. out = DispatchRead(f, regs)
      BY <1>2 DEF Dispatch, FC03, FC06, FC10
    <2>2. out.regs = regs
      BY <2>1 DEF DispatchRead, Outcome
    <2> QED
      BY <1>2, <2>2
  <1>3. CASE f.fc = FC06
    <2>1. out = DispatchWriteOne(f, regs) /\ f.fc # FC03
      BY <1>3 DEF Dispatch, FC03, FC06, FC10
    <2>2. CASE InRange(f.start, 1)
      <3>1. out = Outcome(WriteRegs(regs, f.start, 1, ValueInMemory(f)), EchoReply(f))
        BY <2>1, <2>2 DEF DispatchWriteOne
      <3>2. ~IsException(out.reply)
        BY <3>1, <1>3, EchoType DEF Outcome
      <3>3. out.regs = [regs EXCEPT ![f.start] = Exchanged(f.word)]
        <4>1. out.regs = WriteRegs(regs, f.start, 1, ValueInMemory(f))
          BY <3>1 DEF Outcome
        <4> HIDE DEF out
        <4> QED
          BY <4>1, <2>2, WriteOneRegister
      <3> HIDE DEF out
      <3> QED
        BY <3>2, <3>3, <2>1, <1>3
    <2>3. CASE ~InRange(f.start, 1)
      BY <2>1, <2>3, <1>1 DEF DispatchWriteOne
    <2> QED
      BY <2>2, <2>3
  <1>4. CASE f.fc = FC10
    <2>1. out = DispatchWriteMany(f, data, regs) /\ f.fc # FC03 /\ f.fc # FC06
      BY <1>4 DEF Dispatch, FC03, FC06, FC10
    <2>2. CASE f.word \in 1..123 /\ InRange(f.start, f.word)
      <3>1. out = Outcome(WriteRegs(regs, f.start, f.word, data), EchoReply(f))
        BY <2>1, <2>2 DEF DispatchWriteMany
      <3>2. ~IsException(out.reply)
        BY <3>1, <1>4, EchoType DEF Outcome
      <3>3. out.regs = WriteRegs(regs, f.start, f.word, data)
        BY <3>1 DEF Outcome
      <3> HIDE DEF out
      <3> QED
        BY <3>2, <3>3, <2>1
    <2>3. CASE ~(f.word \in 1..123 /\ InRange(f.start, f.word))
      BY <2>1, <2>3, <1>1 DEF DispatchWriteMany
    <2> QED
      BY <2>2, <2>3
  <1>5. CASE ~(f.fc \in {FC03, FC06, FC10})
    <2>1. out = Outcome(regs, Exception(f, 1))
      BY <1>5 DEF Dispatch
    <2> QED
      BY <2>1, <1>1
  <1> QED
    BY <1>2, <1>3, <1>4, <1>5

(* Only the three functions the slave knows are answered positively.       *)
LEMMA DispatchKnown ==
    ASSUME NEW f \in Headers, NEW data, NEW regs,
           ~IsException(Dispatch(f, data, regs).reply)
    PROVE  f.fc \in {FC03, FC06, FC10}
  <1>1. 1 \in Byte
    BY DEF Byte
  <1>2. IsException(Outcome(regs, Exception(f, 1)).reply)
    BY <1>1, ExceptionType DEF Outcome
  <1> QED
    BY <1>2 DEF Dispatch

(* The i-th pair of data bytes is where the protocol puts it.              *)
LEMMA DataPair ==
    ASSUME NEW adu \in ADU, NEW n \in Nat, Data(adu) \in Seq(Byte), Len(Data(adu)) = 2 * n,
           NEW i \in 0..(n - 1), Len(adu.bytes) >= 6
    PROVE  /\ Data(adu)[2 * i + 1] = adu.bytes[8 + 2 * i]
           /\ Data(adu)[2 * i + 2] = adu.bytes[8 + 2 * i + 1]
  <1> DEFINE b == adu.bytes
  <1>1. b \in Seq(Byte) /\ Len(b) \in Nat
    BY DEF ADU
  <1>2. Data(adu) = SubSeq(b, 8, Len(b))
    BY DEF Data
  <1> HIDE DEF b
  <1>3. Len(b) >= 7 /\ Len(SubSeq(b, 8, Len(b))) = Len(b) - 7
    BY <1>1, <1>2
  <1>4. \A j \in 1..(Len(b) - 7) : SubSeq(b, 8, Len(b))[j] = b[8 + j - 1]
    BY <1>1, <1>3
  <1>5. /\ 2 * i + 1 \in 1..(Len(b) - 7) /\ 2 * i + 2 \in 1..(Len(b) - 7)
        /\ 8 + (2 * i + 1) - 1 = 8 + 2 * i /\ 8 + (2 * i + 2) - 1 = 8 + 2 * i + 1
    BY <1>1, <1>2, <1>3
  <1> QED
    BY <1>2, <1>4, <1>5 DEF b
=============================================================================
