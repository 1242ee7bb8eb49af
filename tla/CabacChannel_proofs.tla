-------------------------- MODULE CabacChannel_proofs --------------------------
(***************************************************************************)
(* Where the carries of the arithmetic encoder go: for all symbols and all *)
(* models that a channel may have, a carry is taken by the byte that is    *)
(* buffered for it, and registers and bytes keep their widths.             *)
(***************************************************************************)
EXTENDS CabacChannel, IntegerFacts, SequenceTheorems

-----------------------------------------------------------------------------
(* Powers of two, up to the width of a register. *)
Power(k) == 2^k

LEMMA Powers ==
    /\ Power(0) = 1 /\ Power(1) = 2 /\ Power(2) = 4 /\ Power(3) = 8
    /\ Power(4) = 16 /\ Power(5) = 32 /\ Power(6) = 64 /\ Power(7) = 128
    /\ Power(8) = 256 /\ Power(9) = 512 /\ Power(10) = 1024 /\ Power(11) = 2048
    /\ Power(12) = 4096 /\ Power(13) = 8192 /\ Power(14) = 16384 /\ Power(15) = 32768
    /\ Power(16) = 65536 /\ Power(17) = 131072 /\ Power(18) = 262144 /\ Power(19) = 524288
    /\ Power(20) = 1048576 /\ Power(21) = 2097152 /\ Power(22) = 4194304 /\ Power(23) = 8388608
    /\ Power(24) = 16777216 /\ Power(25) = 33554432 /\ Power(26) = 67108864 /\ Power(27) = 134217728
    /\ Power(28) = 268435456 /\ Power(29) = 536870912 /\ Power(30) = 1073741824 /\ Power(31) = 2147483648
    /\ Power(32) = 4294967296
BY DEF Power

LEMMA PowerNext ==
    ASSUME NEW k \in 0..31
    PROVE  Power(k + 1) = 2 * Power(k) /\ Power(k) \in Nat \ {0} /\ Power(k + 1) \in Nat \ {0}
<1>1. \/ k = 0 \/ k = 1 \/ k = 2 \/ k = 3 \/ k = 4 \/ k = 5 \/ k = 6 \/ k = 7 \/ k = 8
      \/ k = 9 \/ k = 10 \/ k = 11 \/ k = 12 \/ k = 13 \/ k = 14 \/ k = 15 \/ k = 16 \/ k = 17
      \/ k = 18 \/ k = 19 \/ k = 20 \/ k = 21 \/ k = 22 \/ k = 23 \/ k = 24 \/ k = 25 \/ k = 26
      \/ k = 27 \/ k = 28 \/ k = 29 \/ k = 30 \/ k = 31
  OBVIOUS
<1> QED BY <1>1, Powers

LEMMA PowerType == ASSUME NEW k \in 0..32 PROVE Power(k) \in Nat \ {0}
<1>1. CASE k = 32
  BY <1>1, Powers
<1>2. CASE k # 32
  BY <1>2, PowerNext
<1> QED BY <1>1, <1>2

\* A shift by n: from k bits to k + n.
LEMMA PowerShift ==
    ASSUME NEW n \in 0..8, NEW k \in 0..24
    PROVE  Power(k + n) = Power(n) * Power(k)
<1>1. Power(k) \in Nat
  BY PowerType
<1>2. /\ Power(k + 1) = 2 * Power(k) /\ Power(k + 2) = 4 * Power(k)
      /\ Power(k + 3) = 8 * Power(k) /\ Power(k + 4) = 16 * Power(k)
  <2>1. Power((k + 1) + 1) = 2 * Power(k + 1) /\ Power((k + 2) + 1) = 2 * Power(k + 2)
        /\ Power((k + 3) + 1) = 2 * Power(k + 3) /\ Power(k + 1) = 2 * Power(k)
    BY PowerNext
  <2> QED BY <1>1, <2>1
<1>3. /\ Power(k + 5) = 32 * Power(k) /\ Power(k + 6) = 64 * Power(k)
      /\ Power(k + 7) = 128 * Power(k) /\ Power(k + 8) = 256 * Power(k)
  <2>1. Power((k + 4) + 1) = 2 * Power(k + 4) /\ Power((k + 5) + 1) = 2 * Power(k + 5)
        /\ Power((k + 6) + 1) = 2 * Power(k + 6) /\ Power((k + 7) + 1) = 2 * Power(k + 7)
    BY PowerNext
  <2> QED BY <1>1, <1>2, <2>1
<1>4. n = 0 \/ n = 1 \/ n = 2 \/ n = 3 \/ n = 4 \/ n = 5 \/ n = 6 \/ n = 7 \/ n = 8
  OBVIOUS
<1>5. Power(k + 0) = 1 * Power(k)
  BY <1>1
<1> QED BY <1>2, <1>3, <1>4, <1>5, Powers
-----------------------------------------------------------------------------
(* Bits that are written. *)
LEMMA ByteValue == ASSUME NEW x PROVE x \in Byte <=> x \in Int /\ 0 <= x /\ x <= 255
<1>1. Byte = Between(0, 255)
  BY DEF Byte, Between
<1>2. 0 \in Int /\ 255 \in Int
  OBVIOUS
<1> QED BY <1>1, <1>2, InBetween

LEMMA BytesType ==
    ASSUME NEW value \in Int, NEW n \in 0..4
    PROVE  Bytes(value, n) \in Seq(Byte)
<1>1. ASSUME NEW i \in 1..n PROVE (value \div 2^(8 * (n - i))) % 256 \in Byte
  <2>1. 8 * (n - i) \in 0..32
    OBVIOUS
  <2>2. Power(8 * (n - i)) \in Nat \ {0}
    BY <2>1, PowerType
  <2> DEFINE unit == Power(8 * (n - i))
  <2>3. value \div unit \in Int
    <3> HIDE DEF unit
    <3> QED BY <2>2, Division DEF unit
  <2> DEFINE x == (value \div unit) % 256
  <2>4. x \in Int /\ 0 <= x /\ x <= 255
    <3> HIDE DEF unit
    <3> QED BY <2>3
  <2>5. x \in Byte
    <3> HIDE DEF x
    <3> QED BY <2>4, ByteValue
  <2> QED BY <2>5 DEF Power
<1>2. Bytes(value, n) \in [1..n -> Byte]
  BY <1>1, Zenon DEF Bytes
<1>3. n \in Nat
  OBVIOUS
<1> HIDE DEF Bytes
<1> QED BY <1>2, <1>3

LEMMA WriteType ==
    ASSUME NEW w \in Writer, NEW bits \in Nat, NEW n \in 0..12
    PROVE  write(w, bits, n) \in Writer
<1> DEFINE total == w.numHeld + n
           rest  == total % 8
           value == w.held * 2^n + bits
<1>1. w.held \in Byte /\ w.numHeld \in 0..7
  BY DEF Writer
<1>a. w.fifo \in Seq(Byte)
  BY DEF Writer
<1>b. w.held \in Nat
  BY <1>1, ByteValue
<1>2. total \in 0..19 /\ rest \in 0..7 /\ total \div 8 \in 0..4
  <2>1. total \in 0..19
    BY <1>1
  <2> HIDE DEF total
  <2> QED BY <2>1
<1>3. 2^n \in Nat /\ 2^rest \in Nat \ {0} /\ 2^rest <= 128
  <2>1. Power(rest) \in Nat \ {0} /\ Power(rest) <= 128
    <3>1. \/ rest = 0 \/ rest = 1 \/ rest = 2 \/ rest = 3 \/ rest = 4 \/ rest = 5 \/ rest = 6
          \/ rest = 7
      BY <1>2
    <3> HIDE DEF rest
    <3> QED BY <3>1, Powers
  <2>2. Power(n) \in Nat \ {0}
    BY PowerType
  <2> HIDE DEF rest
  <2> QED BY <2>1, <2>2 DEF Power
<1>4. value \in Nat
  <2> DEFINE factor == 2^n
  <2>1. factor \in Nat
    <3> HIDE DEF rest, value
    <3> QED BY <1>3
  <2> HIDE DEF factor
  <2>2. w.held * factor + bits \in Nat
    BY <1>b, <2>1
  <2> QED BY <2>2, Zenon DEF factor
<1> DEFINE unit == 2^rest
<1>5. unit \in Nat \ {0} /\ unit <= 128
  BY <1>3
<1> HIDE DEF total, rest, value, unit
<1>6. value \div unit \in Int /\ value % unit \in Byte
  <2>1. unit \in Nat \ {0} /\ unit <= 128 /\ value \in Int
    BY <1>4, <1>5
  <2>2. value % unit \in 0..(unit - 1) /\ value \div unit \in Int
    BY <2>1, Division
  <2>3. value % unit \in Int /\ 0 <= value % unit /\ value % unit <= 255
    BY <2>1, <2>2
  <2> QED BY <2>2, <2>3, ByteValue
<1>7. Bytes(value \div unit, total \div 8) \in Seq(Byte)
  BY <1>2, <1>6, BytesType
<1>8. w.fifo \o Bytes(value \div unit, total \div 8) \in Seq(Byte)
  BY <1>a, <1>7, ConcatProperties
<1>9. [fifo |-> w.fifo \o Bytes(value \div unit, total \div 8), held |-> value % unit,
       numHeld |-> rest] \in Writer
  BY <1>2, <1>6, <1>8 DEF Writer
<1> QED BY <1>9 DEF write, total, rest, value, unit

-----------------------------------------------------------------------------
(* The encoder between two operations, and with bits that have to leave low. *)
Registers(least) ==
    [low : Nat, range : Between(256, 510), bitsLeft : least..23, bufferedByte : Byte,
     numBufferedBytes : Nat, stream : Writer]
Encoder == Registers(12)
Unsettled == Registers(4)

LEMMA RegisterValues ==
    ASSUME NEW e \in Unsettled
    PROVE  /\ e.low \in Nat /\ e.bitsLeft \in 4..23
           /\ e.range \in Nat /\ 256 <= e.range /\ e.range <= 510
           /\ e.bufferedByte \in Nat /\ e.bufferedByte <= 255
           /\ e.numBufferedBytes \in Nat /\ e.stream \in Writer
<1>1. /\ e.low \in Nat /\ e.bitsLeft \in 4..23 /\ e.range \in Between(256, 510)
      /\ e.bufferedByte \in Byte /\ e.numBufferedBytes \in Nat /\ e.stream \in Writer
  BY DEF Unsettled, Registers
<1>2. 256 \in Int /\ 510 \in Int
  OBVIOUS
<1>3. e.range \in Int /\ 256 <= e.range /\ e.range <= 510
  BY <1>1, <1>2, InBetween
<1>4. e.bufferedByte \in Int /\ 0 <= e.bufferedByte /\ e.bufferedByte <= 255
  BY <1>1, ByteValue
<1> QED BY <1>1, <1>3, <1>4

LEMMA EncoderValues ==
    ASSUME NEW e \in Encoder
    PROVE  e \in Unsettled /\ e.bitsLeft \in 12..23
<1>1. e.bitsLeft \in 12..23
  BY DEF Encoder, Registers
<1>2. 12..23 \subseteq 4..23
  OBVIOUS
<1>3. e \in Unsettled
  BY <1>2 DEF Encoder, Unsettled, Registers
<1> QED BY <1>1, <1>3

\* How often the unit above low may be reached: only a byte below 255 that is
\* buffered takes a carry.
Reach(e) == IF e.bufferedByte = 255 THEN 1 ELSE 2
Contained(e) ==
    /\ e.numBufferedBytes = 0 => e.bufferedByte = 255
    /\ e.low + e.range <= Reach(e) * Power(32 - e.bitsLeft)
EncoderSound(e) == e \in Encoder /\ Contained(e)

LEMMA DrainedType ==
    ASSUME NEW e \in Unsettled, e.numBufferedBytes # 0, NEW carry \in 0..1
    PROVE  Drained(e, carry) \in Writer
<1> DEFINE byte == write(e.stream, e.bufferedByte + carry, 8)
           run == [i \in 1..(e.numBufferedBytes - 1) |-> (255 + carry) % 256]
<1>1. byte \in Writer
  <2>1. e.stream \in Writer /\ e.bufferedByte + carry \in Nat
    BY RegisterValues
  <2>2. 8 \in 0..12
    OBVIOUS
  <2> HIDE DEF run
  <2> QED BY <2>1, <2>2, WriteType
<1>2. run \in Seq(Byte)
  <2> DEFINE x == (255 + carry) % 256
  <2>a. x \in Int /\ 0 <= x /\ x <= 255
    OBVIOUS
  <2>0. x \in Byte
    <3> HIDE DEF x
    <3> QED BY <2>a, ByteValue
  <2>1. e.numBufferedBytes - 1 \in Nat /\ (255 + carry) % 256 \in Byte
    BY <2>0, RegisterValues
  <2>2. run \in [1..(e.numBufferedBytes - 1) -> Byte]
    BY <2>1
  <2> HIDE DEF run
  <2> QED BY <2>1, <2>2
<1> HIDE DEF byte, run
<1>3. byte.fifo \o run \in Seq(Byte)
  <2>1. byte.fifo \in Seq(Byte)
    BY <1>1 DEF Writer
  <2> QED BY <1>2, <2>1, ConcatProperties
<1>4. [byte EXCEPT !.fifo = @ \o run] \in Writer
  BY <1>1, <1>3 DEF Writer
<1> QED BY <1>4 DEF Drained, byte, run
\* Registers that are changed within their ranges.
LEMMA RegisterChanged ==
    ASSUME NEW e \in Encoder
    PROVE  /\ \A x \in Nat : [e EXCEPT !.low = x] \in Encoder
           /\ \A x \in Between(256, 510) : [e EXCEPT !.range = x] \in Encoder
           /\ \A x \in Nat : [e EXCEPT !.numBufferedBytes = x] \in Encoder
           /\ \A x \in Byte : [e EXCEPT !.bufferedByte = x] \in Encoder
           /\ \A x \in Writer : [e EXCEPT !.stream = x] \in Encoder
<1>1. ASSUME NEW x \in Nat PROVE [e EXCEPT !.low = x] \in Encoder
  BY DEF Encoder, Registers
<1>2. ASSUME NEW x \in Between(256, 510) PROVE [e EXCEPT !.range = x] \in Encoder
  BY DEF Encoder, Registers
<1>3. ASSUME NEW x \in Nat PROVE [e EXCEPT !.numBufferedBytes = x] \in Encoder
  BY DEF Encoder, Registers
<1>4. ASSUME NEW x \in Byte PROVE [e EXCEPT !.bufferedByte = x] \in Encoder
  BY DEF Encoder, Registers
<1>5. ASSUME NEW x \in Writer PROVE [e EXCEPT !.stream = x] \in Encoder
  BY DEF Encoder, Registers
<1> QED BY <1>1, <1>2, <1>3, <1>4, <1>5

LEMMA CutType ==
    ASSUME NEW e \in Unsettled, NEW r \in Nat, NEW b \in 12..23
    PROVE  [e EXCEPT !.bitsLeft = b, !.low = r] \in Encoder
<1> DEFINE f == [e EXCEPT !.bitsLeft = b]
<1>1. f \in Encoder
  BY DEF Unsettled, Encoder, Registers
<1>2. [e EXCEPT !.bitsLeft = b, !.low = r] = [f EXCEPT !.low = r]
  OBVIOUS
<1> HIDE DEF f
<1> QED BY <1>1, <1>2, RegisterChanged

LEMMA CountedType ==
    ASSUME NEW e \in Encoder
    PROVE  [e EXCEPT !.numBufferedBytes = @ + 1] \in Encoder
BY DEF Encoder, Registers

LEMMA BufferedType ==
    ASSUME NEW e \in Encoder, NEW s \in Writer, NEW b \in Byte
    PROVE  /\ [e EXCEPT !.numBufferedBytes = 1, !.bufferedByte = b] \in Encoder
           /\ [e EXCEPT !.stream = s, !.numBufferedBytes = 1, !.bufferedByte = b] \in Encoder
<1> DEFINE f == [e EXCEPT !.numBufferedBytes = 1]
           g == [e EXCEPT !.stream = s]
           h == [g EXCEPT !.numBufferedBytes = 1]
<1>2. f \in Encoder
  BY RegisterChanged
<1>3. g \in Encoder
  BY RegisterChanged
<1>4. h \in Encoder
  <2> HIDE DEF g
  <2> QED BY <1>3, RegisterChanged
<1>5. [e EXCEPT !.numBufferedBytes = 1, !.bufferedByte = b] = [f EXCEPT !.bufferedByte = b]
  OBVIOUS
<1>6. [e EXCEPT !.stream = s, !.numBufferedBytes = 1, !.bufferedByte = b]
      = [h EXCEPT !.bufferedByte = b]
  OBVIOUS
<1> HIDE DEF f, g, h
<1>7. [f EXCEPT !.bufferedByte = b] \in Encoder /\ [h EXCEPT !.bufferedByte = b] \in Encoder
  BY <1>2, <1>4, RegisterChanged
<1> QED BY <1>5, <1>6, <1>7

\* What a shift leaves above low is one byte and perhaps a carry.
LEMMA LeadBounds ==
    ASSUME NEW e \in Unsettled, Contained(e), e.bitsLeft < 12
    PROVE  LET u == Power(24 - e.bitsLeft)
               lead == e.low \div u
           IN  /\ u \in Nat /\ u > 510 /\ Power(32 - e.bitsLeft) = 256 * u
               /\ lead \in Nat /\ lead <= 511
               /\ e.bufferedByte = 255 => lead <= 255
               /\ e.low % u \in Nat /\ e.low % u < u
               /\ e.low = u * lead + (e.low % u)
<1> DEFINE u == Power(24 - e.bitsLeft)
           lead == e.low \div u
           r == e.low % u
<1>1. e.bitsLeft \in 4..11 /\ e.low \in Nat /\ e.range \in Nat /\ 256 <= e.range /\ e.range <= 510
  BY RegisterValues
<1>2. u \in Nat /\ u > 510
  <2>1. 24 - e.bitsLeft \in 13..20
    BY <1>1
  <2>2. \A k \in 13..20 : Power(k) \in Nat /\ Power(k) > 510
    BY Powers
  <2> QED BY <2>1, <2>2
<1>3. Power(32 - e.bitsLeft) = 256 * u
  <2>1. 24 - e.bitsLeft \in 0..24 /\ 8 \in 0..8 /\ (24 - e.bitsLeft) + 8 = 32 - e.bitsLeft
    BY <1>1
  <2>2. Power((24 - e.bitsLeft) + 8) = Power(8) * Power(24 - e.bitsLeft)
    BY <2>1, PowerShift
  <2> QED BY <2>1, <2>2, Powers
<1> HIDE DEF u
<1>4. r \in 0..(u - 1) /\ e.low = u * lead + r /\ lead \in Int
  <2>1. u \in Nat \ {0} /\ e.low \in Int
    BY <1>1, <1>2
  <2> QED BY <2>1, Division
<1>5. e.low + e.range <= (IF e.bufferedByte = 255 THEN 1 ELSE 2) * (256 * u)
  BY <1>3 DEF Contained, Reach
<1> HIDE DEF lead, r
<1>6. lead >= 0
  <2> SUFFICES ASSUME lead <= -1 PROVE FALSE
    BY <1>4
  <2>1. u * lead <= u * (-1)
    BY <1>2, <1>4, Monotonic
  <2> QED BY <1>1, <1>2, <1>4, <2>1
<1>7. lead <= 511
  <2> SUFFICES ASSUME lead >= 512 PROVE FALSE
    BY <1>4
  <2>1. u * 512 <= u * lead
    BY <1>2, <1>4, Monotonic
  <2> QED BY <1>1, <1>2, <1>4, <1>5, <2>1
<1>8. ASSUME e.bufferedByte = 255 PROVE lead <= 255
  <2> SUFFICES ASSUME lead >= 256 PROVE FALSE
    BY <1>4
  <2>1. u * 256 <= u * lead
    BY <1>2, <1>4, Monotonic
  <2> QED BY <1>1, <1>2, <1>4, <1>5, <1>8, <2>1
<1> QED BY <1>2, <1>3, <1>4, <1>6, <1>7, <1>8 DEF u, lead, r

\* The byte that leaves low is buffered or counted, with what it may still get.
LEMMA WriteOutSound ==
    ASSUME NEW e \in Unsettled, Contained(e), e.bitsLeft < 12
    PROVE  EncoderSound(writeOut(e))
<1> DEFINE u == Power(24 - e.bitsLeft)
           lead == e.low \div u
           r == e.low % u
           f == writeOut(e)
           more == e.bitsLeft + 8
           cut == [e EXCEPT !.bitsLeft = more, !.low = r]
<1>1. /\ u \in Nat /\ u > 510 /\ Power(32 - e.bitsLeft) = 256 * u
      /\ lead \in Nat /\ lead <= 511
      /\ e.bufferedByte = 255 => lead <= 255
      /\ r \in Nat /\ r < u
      /\ e.low = u * lead + r
  BY LeadBounds
<1>2. /\ e.bitsLeft \in 4..11 /\ e.low \in Nat /\ e.range \in Nat /\ 256 <= e.range /\ e.range <= 510
      /\ e.numBufferedBytes \in Nat /\ e.stream \in Writer
  BY RegisterValues
<1>3. /\ e.numBufferedBytes = 0 => e.bufferedByte = 255
      /\ e.low + e.range <= (IF e.bufferedByte = 255 THEN 1 ELSE 2) * (256 * u)
  BY <1>1 DEF Contained, Reach
<1>4. f = CASE lead = 255 -> [cut EXCEPT !.numBufferedBytes = @ + 1]
            [] lead # 255 /\ e.numBufferedBytes = 0 ->
                 [cut EXCEPT !.numBufferedBytes = 1, !.bufferedByte = lead]
            [] OTHER -> [cut EXCEPT !.stream = Drained(e, lead \div 256),
                                    !.numBufferedBytes = 1,
                                    !.bufferedByte = lead % 256]
  BY Zenon DEF writeOut, Power, more
<1> HIDE DEF u, lead, r, f
<1>a. more \in 12..23 /\ r \in Nat
  BY <1>1, <1>2
<1> HIDE DEF more
<1>b. cut \in Encoder
  BY <1>a, CutType
<1>5. /\ cut.low = r /\ cut.bitsLeft = more /\ cut.range = e.range
      /\ cut.bufferedByte = e.bufferedByte /\ cut.numBufferedBytes = e.numBufferedBytes
  BY <1>a DEF Encoder, Unsettled, Registers
<1> HIDE DEF cut
<1>6. Power(32 - more) = u
  <2>1. 32 - more = 24 - e.bitsLeft
    BY <1>2 DEF more
  <2> QED BY <2>1 DEF u
<1>7. CASE lead = 255
  <2>1. f = [cut EXCEPT !.numBufferedBytes = @ + 1]
    BY <1>4, <1>7
  <2>a. f \in Encoder
    BY <1>b, <2>1, CountedType
  <2>2. /\ f.low = r /\ f.range = e.range /\ f.bitsLeft = more
        /\ f.bufferedByte = e.bufferedByte /\ f.numBufferedBytes = e.numBufferedBytes + 1
    BY <1>b, <1>5, <2>1 DEF Encoder, Registers
  <2>3. f.low + f.range <= (IF e.bufferedByte = 255 THEN 1 ELSE 2) * u
    <3>1. CASE e.bufferedByte = 255
      BY <1>1, <1>2, <1>3, <1>7, <2>2, <3>1
    <3>2. CASE e.bufferedByte # 255
      BY <1>1, <1>2, <2>2, <3>2
    <3> QED BY <3>1, <3>2
  <2>4. f.numBufferedBytes # 0
    BY <1>2, <2>2
  <2> QED BY <1>6, <2>a, <2>2, <2>3, <2>4 DEF EncoderSound, Contained, Reach, f
<1>8. CASE lead # 255 /\ e.numBufferedBytes = 0
  <2>1. f = [cut EXCEPT !.numBufferedBytes = 1, !.bufferedByte = lead]
    BY <1>4, <1>8
  <2>2. lead \in Byte
    BY <1>1, <1>3, <1>8, ByteValue
  <2>a. f \in Encoder
    BY <1>2, <1>b, <2>1, <2>2, BufferedType
  <2>3. /\ f.low = r /\ f.range = e.range /\ f.bitsLeft = more
        /\ f.bufferedByte = lead /\ f.numBufferedBytes = 1
    BY <1>b, <1>5, <2>1 DEF Encoder, Registers
  <2>4. f.low + f.range <= 2 * u
    BY <1>1, <1>2, <2>3
  <2> QED BY <1>6, <2>a, <1>8, <2>3, <2>4 DEF EncoderSound, Contained, Reach, f
<1>9. CASE lead # 255 /\ e.numBufferedBytes # 0
  <2> DEFINE s == Drained(e, lead \div 256)
             b == lead % 256
  <2>1. s \in Writer
    <3>1. lead \div 256 \in 0..1
      BY <1>1
    <3> QED BY <1>9, <3>1, DrainedType
  <2>0. b \in Int /\ 0 <= b /\ b <= 255 /\ (b = 255 => lead = 511)
    BY <1>1, <1>9
  <2>2. b \in Byte /\ (b = 255 => lead = 511)
    <3> HIDE DEF b
    <3> QED BY <2>0, ByteValue
  <2>3. f = [cut EXCEPT !.stream = s, !.numBufferedBytes = 1, !.bufferedByte = b]
    BY <1>4, <1>9
  <2> HIDE DEF s, b
  <2>a. f \in Encoder
    BY <1>b, <2>1, <2>2, <2>3, BufferedType
  <2>4. /\ f.low = r /\ f.range = e.range /\ f.bitsLeft = more
        /\ f.bufferedByte = b /\ f.numBufferedBytes = 1
    BY <1>b, <1>5, <2>3 DEF Encoder, Registers
  <2>5. f.low + f.range <= (IF b = 255 THEN 1 ELSE 2) * u
    <3>1. CASE b = 255
      <4>1. e.low = u * 511 + r /\ e.bufferedByte # 255
        BY <1>1, <2>2, <3>1
      <4> QED BY <1>1, <1>2, <1>3, <2>4, <3>1, <4>1
    <3>2. CASE b # 255
      BY <1>1, <1>2, <2>4, <3>2
    <3> QED BY <3>1, <3>2
  <2> QED BY <1>6, <2>a, <2>4, <2>5 DEF EncoderSound, Contained, Reach, f
<1> QED BY <1>7, <1>8, <1>9

LEMMA RenormalisedSound ==
    ASSUME NEW e \in Unsettled, Contained(e)
    PROVE  EncoderSound(Renormalised(e))
<1>1. CASE e.bitsLeft < 12
  BY <1>1, WriteOutSound DEF Renormalised
<1>2. CASE ~(e.bitsLeft < 12)
  <2>1. e \in Encoder
    BY <1>2 DEF Unsettled, Encoder, Registers
  <2> QED BY <1>2, <2>1 DEF Renormalised, EncoderSound
<1> QED BY <1>1, <1>2
-----------------------------------------------------------------------------
(* Operations of the encoder. *)
LEMMA ShiftType ==
    ASSUME NEW e \in Encoder, NEW a \in Nat, NEW b \in 4..23
    PROVE  [e EXCEPT !.low = a, !.bitsLeft = b] \in Unsettled
<1> DEFINE f == [e EXCEPT !.low = a]
           g == [f EXCEPT !.bitsLeft = b]
<1>1. f \in Encoder
  BY RegisterChanged
<1> HIDE DEF f
<1>2. g \in Unsettled
  BY <1>1 DEF Encoder, Unsettled, Registers
<1>3. [e EXCEPT !.low = a, !.bitsLeft = b] = g
  BY DEF f
<1> QED BY <1>2, <1>3

LEMMA ResizeType ==
    ASSUME NEW f \in Unsettled, NEW c \in Between(256, 510)
    PROVE  [f EXCEPT !.range = c] \in Unsettled
BY DEF Unsettled, Registers

\* f is e after n bits were shifted into low, and its interval lies in that of e.
Narrowed(e, f, n) ==
    /\ f \in Unsettled
    /\ f.bitsLeft = e.bitsLeft - n
    /\ f.bufferedByte = e.bufferedByte /\ f.numBufferedBytes = e.numBufferedBytes
    /\ f.low + f.range <= Power(n) * (e.low + e.range)

LEMMA NarrowedSound ==
    ASSUME NEW e, EncoderSound(e), NEW n \in 0..8, NEW f, Narrowed(e, f, n)
    PROVE  f \in Unsettled /\ Contained(f) /\ EncoderSound(Renormalised(f))
<1> DEFINE top == Power(32 - e.bitsLeft)
           factor == Power(n)
           size == e.low + e.range
           reach == Reach(e)
<1>1. e.bitsLeft \in 12..23 /\ e.low \in Nat /\ e.range \in Nat /\ 256 <= e.range /\ e.range <= 510
  BY EncoderValues, RegisterValues DEF EncoderSound
<1>2. factor \in Nat /\ top \in Nat /\ size \in Nat /\ reach \in 1..2
  <2>1. 32 - e.bitsLeft \in 0..32 /\ n \in 0..32
    BY <1>1
  <2> QED BY <1>1, <2>1, PowerType DEF Reach
<1>3. Power(32 - f.bitsLeft) = factor * top
  <2>1. 32 - e.bitsLeft \in 0..24 /\ 32 - f.bitsLeft = (32 - e.bitsLeft) + n
    BY <1>1 DEF Narrowed
  <2> QED BY <2>1, PowerShift
<1>4. f.low + f.range <= factor * size /\ size <= reach * top
  BY DEF Narrowed, EncoderSound, Contained
<1>5. f.low + f.range \in Int
  BY RegisterValues DEF Narrowed
<1>6. reach = Reach(f)
  BY DEF Narrowed, Reach
<1> HIDE DEF top, factor, size, reach
<1>7. reach * top \in Nat /\ factor * top \in Nat /\ reach * (factor * top) = factor * (reach * top)
  BY <1>2
<1>8. factor * size <= factor * (reach * top)
  BY <1>2, <1>4, <1>7, Monotonic
<1>9. f.low + f.range <= reach * (factor * top)
  <2> DEFINE x == f.low + f.range
             y == factor * size
             z == factor * (reach * top)
  <2>1. x \in Int /\ y \in Int /\ z \in Int
    BY <1>2, <1>5, <1>7
  <2>2. x <= y /\ y <= z
    BY <1>4, <1>8
  <2> HIDE DEF x, y, z
  <2>3. x <= z
    BY <2>1, <2>2
  <2> QED BY <1>7, <2>3 DEF x, z
<1>10. Contained(f)
  <2>1. f.numBufferedBytes = 0 => f.bufferedByte = 255
    BY DEF Narrowed, EncoderSound, Contained
  <2> QED BY <1>3, <1>6, <1>9, <2>1 DEF Contained
<1> QED BY <1>10, RenormalisedSound DEF Narrowed

\* Bypass bins: any value of n bits selects a part of the interval.
LEMMA ChunkSound ==
    ASSUME NEW e, EncoderSound(e), NEW n \in 0..8, NEW bins \in Nat, bins < Power(n)
    PROVE  EncoderSound(EncodeChunk(e, bins, n))
<1> DEFINE factor == Power(n)
           low == e.low * factor + e.range * bins
           left == e.bitsLeft - n
           f == [e EXCEPT !.low = low, !.bitsLeft = left]
<1>1. e \in Encoder
  BY DEF EncoderSound
<1>2. e.bitsLeft \in 12..23 /\ e.low \in Nat /\ e.range \in Nat /\ 256 <= e.range /\ e.range <= 510
  BY <1>1, EncoderValues, RegisterValues
<1>3. factor \in Nat
  <2>1. n \in 0..32
    OBVIOUS
  <2> QED BY <2>1, PowerType
<1>4. EncodeChunk(e, bins, n) = Renormalised(f)
  BY Zenon DEF EncodeChunk, Power
<1> HIDE DEF factor
<1>5. low \in Nat /\ left \in 4..23
  BY <1>2, <1>3
<1>6. low + e.range <= factor * (e.low + e.range)
  <2>1. bins + 1 <= factor
    BY <1>3 DEF factor
  <2>2. e.range * (bins + 1) <= e.range * factor
    BY <1>2, <1>3, <2>1, Monotonic
  <2>3. e.range * (bins + 1) = e.range * bins + e.range
    BY <1>2, Distribute
  <2>4. factor * (e.low + e.range) = factor * e.low + factor * e.range
    BY <1>2, <1>3, Distribute
  <2>5. e.low * factor = factor * e.low /\ e.range * factor = factor * e.range
    BY <1>2, <1>3
  <2>6. e.low * factor \in Int /\ e.range * factor \in Int /\ e.range * bins \in Int
    BY <1>2, <1>3
  <2> QED BY <1>2, <2>2, <2>3, <2>4, <2>5, <2>6
<1> HIDE DEF low, left
<1>7. f \in Unsettled
  BY <1>1, <1>5, ShiftType
<1>8. /\ f.low = low /\ f.bitsLeft = left /\ f.range = e.range
      /\ f.bufferedByte = e.bufferedByte /\ f.numBufferedBytes = e.numBufferedBytes
  BY <1>1 DEF Encoder, Registers
<1> HIDE DEF f
<1>9. Narrowed(e, f, n)
  BY <1>6, <1>7, <1>8 DEF Narrowed, factor, left
<1> QED BY <1>4, <1>9, NarrowedSound
\* A part of the interval, moved up until its length has nine bits again.
PartOf(e, n, add, part, range) ==
    /\ n \in 0..8
    /\ add \in Nat /\ part \in Nat /\ add + part <= e.range
    /\ range \in Nat /\ 256 <= range /\ range <= 510 /\ range = part * Power(n)

LEMMA PartSound ==
    ASSUME NEW e, EncoderSound(e), NEW n, NEW add, NEW part, NEW range,
           PartOf(e, n, add, part, range)
    PROVE  EncoderSound(Renormalised([Shifted(e, add, n) EXCEPT !.range = range]))
<1>0. /\ n \in 0..8 /\ add \in Nat /\ part \in Nat /\ add + part <= e.range
      /\ range \in Nat /\ 256 <= range /\ range <= 510 /\ range = part * Power(n)
      /\ range \in Between(256, 510)
  BY InBetween DEF PartOf
<1> DEFINE factor == Power(n)
           low == (e.low + add) * factor
           left == e.bitsLeft - n
           g == [e EXCEPT !.low = low, !.bitsLeft = left]
           f == [g EXCEPT !.range = range]
<1>1. e \in Encoder
  BY DEF EncoderSound
<1>2. e.bitsLeft \in 12..23 /\ e.low \in Nat /\ e.range \in Nat /\ 256 <= e.range /\ e.range <= 510
  BY <1>1, EncoderValues, RegisterValues
<1>3. factor \in Nat
  <2>1. n \in 0..32
    BY <1>0
  <2> QED BY <2>1, PowerType
<1>4. Shifted(e, add, n) = g
  BY Zenon DEF Shifted, Power
<1> HIDE DEF factor
<1>5. low \in Nat /\ left \in 4..23
  BY <1>0, <1>2, <1>3
<1>6. low + range <= factor * (e.low + e.range)
  <2>1. (e.low + add) + part <= e.low + e.range
    BY <1>0, <1>2
  <2>2. factor * ((e.low + add) + part) <= factor * (e.low + e.range)
    BY <1>0, <1>2, <1>3, <2>1, Monotonic
  <2>3. factor * ((e.low + add) + part) = factor * (e.low + add) + factor * part
    BY <1>0, <1>2, <1>3, Distribute
  <2>4. low = factor * (e.low + add) /\ range = factor * part
    BY <1>0, <1>2, <1>3 DEF factor
  <2> QED BY <2>2, <2>3, <2>4
<1> HIDE DEF low, left
<1>7. g \in Unsettled
  BY <1>1, <1>5, ShiftType
<1>8. /\ g.low = low /\ g.bitsLeft = left
      /\ g.bufferedByte = e.bufferedByte /\ g.numBufferedBytes = e.numBufferedBytes
  BY <1>1 DEF Encoder, Registers
<1> HIDE DEF g
<1>9. f \in Unsettled
  BY <1>0, <1>7, ResizeType
<1>10. /\ f.low = low /\ f.bitsLeft = left /\ f.range = range
       /\ f.bufferedByte = e.bufferedByte /\ f.numBufferedBytes = e.numBufferedBytes
  BY <1>7, <1>8 DEF Unsettled, Registers
<1> HIDE DEF f
<1>11. Narrowed(e, f, n)
  BY <1>6, <1>9, <1>10 DEF Narrowed, factor, left
<1> QED BY <1>0, <1>4, <1>11, NarrowedSound DEF f

\* A shorter interval at the same place.
LEMMA ShorterSound ==
    ASSUME NEW e, EncoderSound(e), NEW range \in Nat, 256 <= range, range <= e.range
    PROVE  EncoderSound([e EXCEPT !.range = range])
<1> DEFINE f == [e EXCEPT !.range = range]
<1>1. e \in Encoder
  BY DEF EncoderSound
<1>2. f \in Encoder
  <2>1. range \in Between(256, 510)
    BY <1>1, EncoderValues, RegisterValues, InBetween
  <2> QED BY <1>1, <2>1, RegisterChanged
<1>3. /\ f.low = e.low /\ f.bitsLeft = e.bitsLeft /\ f.range = range
      /\ f.bufferedByte = e.bufferedByte /\ f.numBufferedBytes = e.numBufferedBytes
  BY <1>1 DEF Encoder, Registers
<1> HIDE DEF f
<1>4. e.low \in Nat /\ e.bitsLeft \in 12..23 /\ e.range \in Nat /\ 256 <= e.range /\ e.range <= 510 /\ range \in Nat
  BY <1>1, EncoderValues, RegisterValues
<1>5. Reach(f) * Power(32 - f.bitsLeft) \in Int
  <2>1. 32 - e.bitsLeft \in 0..32
    BY <1>4
  <2>2. Power(32 - f.bitsLeft) \in Int /\ Reach(f) \in Int
    BY <1>3, <2>1, PowerType DEF Reach
  <2> QED BY <2>2
<1>6. /\ e.numBufferedBytes = 0 => e.bufferedByte = 255
      /\ e.low + e.range <= Reach(f) * Power(32 - f.bitsLeft)
  BY <1>3 DEF EncoderSound, Contained, Reach
<1> DEFINE bound == Reach(f) * Power(32 - f.bitsLeft)
<1> HIDE DEF bound
<1>7. f.low + f.range <= bound
  BY <1>3, <1>4, <1>5, <1>6 DEF bound
<1> QED BY <1>2, <1>3, <1>6, <1>7 DEF EncoderSound, Contained, bound, f
LEMMA StartSound == EncoderSound(StartEncoder)
<1>1. EmptyWriter \in Writer
  <2>1. 0 \in Byte
    BY ByteValue
  <2> QED BY <2>1 DEF EmptyWriter, Writer
<1>2. StartEncoder \in Encoder
  <2>1. 510 \in Between(256, 510) /\ 255 \in Byte
    BY InBetween, ByteValue
  <2> QED BY <1>1, <2>1 DEF StartEncoder, Encoder, Registers
<1>3. Contained(StartEncoder)
  BY Powers DEF StartEncoder, Contained, Reach
<1> QED BY <1>2, <1>3 DEF EncoderSound

LEMMA AlignSound == ASSUME NEW e, EncoderSound(e) PROVE EncoderSound(align(e))
<1>1. 256 \in Nat /\ 256 <= 256 /\ 256 <= e.range
  BY EncoderValues, RegisterValues DEF EncoderSound
<1> QED BY <1>1, ShorterSound DEF align

LEMMA TerminatingSound ==
    ASSUME NEW e, EncoderSound(e), NEW bin \in 0..1
    PROVE  EncoderSound(encodeBinTrm(e, bin))
<1> DEFINE rest == e.range - 2
<1>1. e.range \in Nat /\ 256 <= e.range /\ e.range <= 510 /\ rest \in Nat
  BY EncoderValues, RegisterValues DEF EncoderSound
<1>2. CASE bin = 1
  <2>1. encodeBinTrm(e, bin) = Renormalised([Shifted(e, rest, 7) EXCEPT !.range = 256])
    BY <1>2 DEF encodeBinTrm
  <2>2. PartOf(e, 7, rest, 2, 256)
    BY <1>1, Powers DEF PartOf
  <2> HIDE DEF rest
  <2> QED BY <2>1, <2>2, PartSound
<1>3. CASE bin = 0 /\ rest < 256
  <2> DEFINE range == 2 * rest
  <2>1. encodeBinTrm(e, bin) = Renormalised([Shifted(e, 0, 1) EXCEPT !.range = range])
    BY <1>3 DEF encodeBinTrm
  <2>2. rest < 256
    BY <1>3
  <2>3. PartOf(e, 1, 0, rest, range)
    BY <1>1, <2>2, Powers DEF PartOf
  <2> HIDE DEF rest, range
  <2> QED BY <2>1, <2>3, PartSound
<1>4. CASE bin = 0 /\ ~(rest < 256)
  <2>1. encodeBinTrm(e, bin) = [e EXCEPT !.range = rest]
    BY <1>4 DEF encodeBinTrm
  <2>2. rest \in Nat /\ 256 <= rest /\ rest <= e.range
    BY <1>1, <1>4
  <2> HIDE DEF rest
  <2> QED BY <2>1, <2>2, ShorterSound
<1> QED BY <1>2, <1>3, <1>4

-----------------------------------------------------------------------------
(* Probability models. *)
LEMMA EstimateValue == ASSUME NEW x PROVE x \in Estimate <=> x \in Int /\ 0 <= x /\ x <= 32767
<1>1. Estimate = Between(0, 32767)
  BY DEF Estimate, Between
<1>2. 0 \in Int /\ 32767 \in Int
  OBVIOUS
<1> QED BY <1>1, <1>2, InBetween

LEMMA StateType ==
    ASSUME NEW m \in ProbModel
    PROVE  state(m) \in Int /\ 0 <= state(m) /\ state(m) <= 255
<1>1. m.fast \in Estimate /\ m.slow \in Estimate
  BY DEF ProbModel
<1> DEFINE f == m.fast
           g == m.slow
<1>2. f \in Int /\ 0 <= f /\ f <= 32767 /\ g \in Int /\ 0 <= g /\ g <= 32767
  BY <1>1, EstimateValue
<1>3. state(m) = (f + g) \div 256
  BY DEF state
<1> HIDE DEF f, g
<1>4. (f + g) \div 256 \in Int /\ 0 <= (f + g) \div 256 /\ (f + g) \div 256 <= 255
  BY <1>2
<1> QED BY <1>3, <1>4

\* The less probable symbol never takes more than it may of a range.
LEMMA LpsBounds ==
    ASSUME NEW m \in ProbModel, NEW range \in Nat, 256 <= range, range <= 510
    PROVE  /\ getLPS(m, range) \in Nat /\ 4 <= getLPS(m, range) /\ getLPS(m, range) <= 236
           /\ range - getLPS(m, range) >= 128
<1> DEFINE s == state(m)
           q == IF s >= 128 THEN 255 - s ELSE s
           a == q \div 4
           b == range \div 32
           c == (a * b) \div 2
<1>1. q \in Nat /\ q <= 127
  <2>1. s \in Int /\ 0 <= s /\ s <= 255
    BY StateType
  <2> HIDE DEF s
  <2> QED BY <2>1
<1> HIDE DEF q
<1>2. a \in 0..31
  BY <1>1
<1>3. b \in 8..15 /\ range >= 32 * b
  OBVIOUS
<1> HIDE DEF a, b
<1>4. c \in Nat /\ c <= 232 /\ 2 * c <= 31 * b
  <2>1. a * b \in 0..(31 * b)
    <3>1. b * a <= b * 31 /\ a * b = b * a /\ b * a >= 0
      BY <1>2, <1>3, Monotonic
    <3> QED BY <1>2, <1>3, <3>1
  <2> DEFINE d == a * b
  <2>2. d \in Nat /\ d <= 31 * b
    BY <1>3, <2>1
  <2> HIDE DEF d
  <2>3. d \div 2 \in Nat /\ d \div 2 <= 232 /\ 2 * (d \div 2) <= 31 * b
    BY <1>3, <2>2
  <2> QED BY <2>3 DEF d
<1>5. getLPS(m, range) = c + 4
  BY Zenon DEF getLPS, q, s, a, b
<1> HIDE DEF c
<1> QED BY <1>3, <1>4, <1>5

LEMMA RenormBits ==
    ASSUME NEW lps \in Nat, 4 <= lps, lps <= 236
    PROVE  LET size == lps * Power(getRenormBitsLPS(lps)) IN
           /\ getRenormBitsLPS(lps) \in 1..6
           /\ size \in Nat /\ 256 <= size /\ size <= 510
<1> DEFINE Fits(n) == lps * Power(n) \in Between(256, 511)
<1>1. \E n \in 1..6 : Fits(n)
  <2>1. /\ lps < 8 => Fits(6)
        /\ lps >= 8 /\ lps < 16 => Fits(5)
        /\ lps >= 16 /\ lps < 32 => Fits(4)
        /\ lps >= 32 /\ lps < 64 => Fits(3)
        /\ lps >= 64 /\ lps < 128 => Fits(2)
        /\ lps >= 128 => Fits(1)
    BY Powers, InBetween
  <2> HIDE DEF Fits
  <2>2. 1 \in 1..6 /\ 2 \in 1..6 /\ 3 \in 1..6 /\ 4 \in 1..6 /\ 5 \in 1..6 /\ 6 \in 1..6
    OBVIOUS
  <2> QED BY <2>1, <2>2
<1> DEFINE r == getRenormBitsLPS(lps)
<1>2. r = CHOOSE n \in 1..6 : Fits(n)
  BY Zenon DEF getRenormBitsLPS, Power, Between
<1>3. r \in 1..6 /\ Fits(r)
  <2> HIDE DEF Fits, r
  <2> QED BY <1>1, <1>2
<1> HIDE DEF r
<1>4. r = 1 \/ r = 2 \/ r = 3 \/ r = 4 \/ r = 5 \/ r = 6
  BY <1>3
<1>5. lps * Power(r) \in Int /\ 256 <= lps * Power(r) /\ lps * Power(r) <= 511
  BY <1>3, InBetween
<1>6. lps * Power(r) <= 510
  BY <1>4, <1>5, Powers
<1> QED BY <1>3, <1>5, <1>6 DEF r

LEMMA ContextBinSound ==
    ASSUME NEW e, EncoderSound(e), NEW m \in ProbModel, NEW bin \in 0..1
    PROVE  EncoderSound(encodeBin(e, m, bin))
<1> DEFINE lps == getLPS(m, e.range)
           rest == e.range - lps
           n == getRenormBitsLPS(lps)
           small == lps * Power(n)
           double == rest * Power(1)
<1>1. e.range \in Nat /\ 256 <= e.range /\ e.range <= 510
  BY EncoderValues, RegisterValues DEF EncoderSound
<1>2. lps \in Nat /\ 4 <= lps /\ lps <= 236 /\ rest >= 128
  BY <1>1, LpsBounds
<1> HIDE DEF lps
<1>3. n \in 1..6 /\ small \in Nat /\ 256 <= small /\ small <= 510
  BY <1>2, RenormBits
<1> HIDE DEF n
<1>4. encodeBin(e, m, bin) =
        CASE bin # mps(m) -> Renormalised([Shifted(e, rest, n) EXCEPT !.range = small])
          [] bin = mps(m) /\ rest < 256 ->
                Renormalised([Shifted(e, 0, 1) EXCEPT !.range = double])
          [] OTHER -> [e EXCEPT !.range = rest]
  BY Zenon DEF encodeBin, getRenormBitsRange, Power, lps, n
<1> HIDE DEF small, double
<1>5. CASE bin # mps(m)
  <2>1. encodeBin(e, m, bin) = Renormalised([Shifted(e, rest, n) EXCEPT !.range = small])
    BY <1>4, <1>5
  <2>2. PartOf(e, n, rest, lps, small)
    BY <1>1, <1>2, <1>3 DEF PartOf, small
  <2> HIDE DEF rest
  <2> QED BY <2>1, <2>2, PartSound
<1>6. CASE bin = mps(m) /\ rest < 256
  <2>1. encodeBin(e, m, bin) = Renormalised([Shifted(e, 0, 1) EXCEPT !.range = double])
    BY <1>4, <1>6
  <2>2. rest < 256
    BY <1>6
  <2>3. PartOf(e, 1, 0, rest, double)
    BY <1>1, <1>2, <2>2, Powers DEF PartOf, double
  <2> HIDE DEF rest
  <2> QED BY <2>1, <2>3, PartSound
<1>7. CASE bin = mps(m) /\ ~(rest < 256)
  <2>1. encodeBin(e, m, bin) = [e EXCEPT !.range = rest]
    BY <1>4, <1>7
  <2>2. ~(rest < 256)
    BY <1>7
  <2>3. rest \in Nat /\ 256 <= rest /\ rest <= e.range
    BY <1>1, <1>2, <2>2
  <2> HIDE DEF rest
  <2> QED BY <2>1, <2>3, ShorterSound
<1> QED BY <1>5, <1>6, <1>7
-----------------------------------------------------------------------------
(* Values of several bypass bins. *)
LEMMA WidthsType ==
    ASSUME NEW numBins \in 0..32
    PROVE  /\ Widths(numBins) \in Seq(0..8)
           /\ \A i \in 1..Len(Widths(numBins)) :
                 (IF i < Len(Widths(numBins)) THEN numBins - 8 * i ELSE 0) \in 0..32
<1> DEFINE full == IF numBins = 0 THEN 0 ELSE (numBins - 1) \div 8
           last == numBins - 8 * full
           widths == [i \in 1..(full + 1) |-> IF i <= full THEN 8 ELSE last]
<1>1. full \in 0..3 /\ last \in 0..8
  OBVIOUS
<1>2. Widths(numBins) = widths
  BY DEF Widths
<1> HIDE DEF full
<1>3. widths \in [1..(full + 1) -> 0..8]
  <2> HIDE DEF last
  <2>1. \A i \in 1..(full + 1) : (IF i <= full THEN 8 ELSE last) \in 0..8
    BY <1>1
  <2> QED BY <2>1
<1> HIDE DEF widths
<1>4. full + 1 \in Nat
  BY <1>1
<1>5. widths \in Seq(0..8) /\ Len(widths) = full + 1
  BY <1>3, <1>4
<1>6. ASSUME NEW i \in 1..(full + 1)
      PROVE  (IF i < full + 1 THEN numBins - 8 * i ELSE 0) \in 0..32
  BY <1>1, <1>6 DEF last
<1> QED BY <1>2, <1>5, <1>6

\* The bins of a value that are left, up to n of them.
LEMMA BinsOf ==
    ASSUME NEW bins \in Nat, NEW left \in 0..32, NEW n \in 0..8
    PROVE  (bins \div Power(left)) % Power(n) \in Nat /\ (bins \div Power(left)) % Power(n) < Power(n)
<1> DEFINE p == Power(left)
           m == Power(n)
           x == bins \div p
<1>1. p \in Nat \ {0} /\ m \in Nat \ {0}
  <2>1. n \in 0..32
    OBVIOUS
  <2> QED BY <2>1, PowerType
<1> HIDE DEF p, m
<1>2. x \in Int
  BY <1>1, Division
<1> HIDE DEF x
<1>3. x % m \in 0..(m - 1)
  BY <1>1, <1>2, Division
<1>4. x % m \in Nat /\ x % m < m
  BY <1>1, <1>3
<1> QED BY <1>4 DEF x, m, p

LEMMA BinsSound ==
    ASSUME NEW e, EncoderSound(e), NEW bins \in Nat, NEW numBins \in 0..32
    PROVE  EncoderSound(encodeBinsEP(e, bins, numBins))
<1> DEFINE widths == Widths(numBins)
           N == Len(widths)
           Left(i) == IF i < N THEN numBins - 8 * i ELSE 0
           Part(i) == (bins \div Power(Left(i))) % Power(widths[i])
           X == {x \in Encoder : Contained(x)}
           step == [xn \in X \X (1..N) |-> EncodeChunk(xn[1], Part(xn[2]), widths[xn[2]])]
           after[i \in 0..N] ==
               IF i = 0 THEN e ELSE EncodeChunk(after[i - 1], Part(i), widths[i])
<1>1. N \in Nat /\ widths \in Seq(0..8) /\ \A i \in 1..N : widths[i] \in 0..8 /\ Left(i) \in 0..32
  <2>1. widths \in Seq(0..8) /\ \A i \in 1..N : Left(i) \in 0..32
    BY WidthsType, Zenon
  <2> HIDE DEF widths, Left
  <2>2. N \in Nat /\ \A i \in 1..N : widths[i] \in 0..8
    BY <2>1
  <2> QED BY <2>1, <2>2
<1>2. encodeBinsEP(e, bins, numBins) = after[N]
  BY Zenon DEF encodeBinsEP, Power
<1> HIDE DEF widths, N, Left
<1>3. ASSUME NEW i \in 1..N PROVE Part(i) \in Nat /\ Part(i) < Power(widths[i]) /\ widths[i] \in 0..8
  <2>1. widths[i] \in 0..8 /\ Left(i) \in 0..32
    BY <1>1
  <2> QED BY <2>1, BinsOf
<1> HIDE DEF Part
<1>4. \A x : x \in X <=> EncoderSound(x)
  BY DEF EncoderSound
<1> HIDE DEF X
<1>5. ASSUME NEW x \in X, NEW i \in 1..N PROVE EncodeChunk(x, Part(i), widths[i]) \in X
  <2>1. Part(i) \in Nat /\ Part(i) < Power(widths[i]) /\ widths[i] \in 0..8
    BY <1>3
  <2>2. EncoderSound(x)
    BY <1>4
  <2>3. EncoderSound(EncodeChunk(x, Part(i), widths[i]))
    BY <2>1, <2>2, ChunkSound
  <2> QED BY <1>4, <2>3
<1>6. step \in [X \X (1..N) -> X]
  BY <1>5
<1>7. PICK f \in [0..N -> X] : f[0] = e /\ \A n \in 1..N : f[n] = step[<<f[n - 1], n>>]
  <2>1. e \in X
    BY <1>4
  <2> HIDE DEF step
  <2>2. Steppable(N, X, e, step)
    BY <1>1, <1>6, <2>1 DEF Steppable
  <2>3. \E f : Steps(f, N, X, e, step)
    BY <2>2, StepsExist
  <2> QED BY <2>3 DEF Steps
<1>8. ASSUME NEW n \in 1..N PROVE f[n] = EncodeChunk(f[n - 1], Part(n), widths[n])
  <2>1. n - 1 \in 0..N
    BY <1>1
  <2>2. <<f[n - 1], n>> \in X \X (1..N)
    BY <1>7, <2>1
  <2> QED BY <1>7, <2>2
<1>9. f = [n \in 0..N |-> IF n = 0 THEN e ELSE EncodeChunk(f[n - 1], Part(n), widths[n])]
  <2>1. \A n \in 0..N : n = 0 \/ n \in 1..N
    BY <1>1
  <2>2. \A n \in 0..N :
            f[n] = IF n = 0 THEN e ELSE EncodeChunk(f[n - 1], Part(n), widths[n])
    BY <1>1, <1>7, <1>8, <2>1
  <2> QED BY <1>7, <2>2
<1>10. after = [n \in 0..N |-> IF n = 0 THEN e ELSE EncodeChunk(after[n - 1], Part(n), widths[n])]
  BY <1>9
<1> HIDE DEF after, step
<1> DEFINE S == {n \in 0..N : after[n] \in X}
<1>11. 0 \in S
  <2>1. 0 \in 0..N /\ after[0] = e
    BY <1>1, <1>10
  <2> QED BY <1>4, <2>1
<1>12. ASSUME NEW n \in 1..N, n - 1 \in S PROVE n \in S
  <2>1. n \in 0..N /\ n # 0
    BY <1>1
  <2>2. after[n] = EncodeChunk(after[n - 1], Part(n), widths[n])
    BY <1>10, <2>1
  <2>3. after[n - 1] \in X
    BY <1>12
  <2> QED BY <1>5, <2>1, <2>2, <2>3
<1> HIDE DEF S
<1>13. 0..N \subseteq S
  BY <1>1, <1>11, <1>12, InductionTo
<1>14. N \in 0..N
  BY <1>1
<1>15. after[N] \in X
  BY <1>13, <1>14 DEF S
<1> QED BY <1>2, <1>4, <1>15
-----------------------------------------------------------------------------
(* Escape codes. *)
LEMMA PrefixSound ==
    ASSUME NEW codeValue \in Nat
    PROVE  /\ PrefixLength(codeValue) \in 0..12 /\ Power(PrefixLength(codeValue)) - 1 <= codeValue
           /\ PrefixLength(codeValue) < 12 => codeValue <= 2 * Power(PrefixLength(codeValue)) - 2
<1> DEFINE Fits(p) == codeValue <= 2 * Power(p) - 2
           First(p) == Fits(p) /\ \A q \in 0..(p - 1) : codeValue > 2 * Power(q) - 2
           r == PrefixLength(codeValue)
<1>1. r = IF codeValue >= Power(12) - 1 THEN 12 ELSE CHOOSE p \in 0..12 : First(p)
  BY DEF PrefixLength, MaxPrefixLength, Cutoff, MaxLog2TrDynamicRange, Power
<1>2. CASE codeValue >= Power(12) - 1
  <2>1. r = 12
    BY <1>1, <1>2
  <2> HIDE DEF r
  <2> QED BY <1>2, <2>1 DEF r
<1>3. CASE ~(codeValue >= Power(12) - 1)
  <2> DEFINE T == {p \in 0..12 : Fits(p)}
  <2>1. 12 \in T
    BY <1>3, Powers
  <2>2. T \in SUBSET Nat /\ T # {}
    BY <2>1
  <2>3. PICK p \in T : \A q \in T : p <= q
    <3> HIDE DEF T
    <3> QED BY <2>2, LeastNat
  <2>4. p \in 0..12 /\ Fits(p)
    BY <2>3
  <2>5. ASSUME NEW q \in 0..(p - 1) PROVE codeValue > 2 * Power(q) - 2
    <3>1. q \in 0..12 /\ q < p
      BY <2>4
    <3>2. q \notin T
      BY <2>3, <2>4, <3>1
    <3>3. ~Fits(q) /\ Power(q) \in Nat
      BY <3>1, <3>2, PowerType
    <3> QED BY <3>3
  <2>6. First(p)
    BY <2>4, <2>5
  <2>7. r = CHOOSE x \in 0..12 : First(x)
    BY <1>1, <1>3
  <2> HIDE DEF First, r
  <2>8. r \in 0..12 /\ First(r)
    BY <2>4, <2>6, <2>7
  <2>9. ASSUME r = 0 PROVE Power(r) - 1 <= codeValue
    BY <2>9, Powers
  <2>10. ASSUME r \in 1..12 PROVE Power(r) - 1 <= codeValue
    <3>1. r - 1 \in 0..(r - 1) /\ r - 1 \in 0..31
      BY <2>10
    <3>2. codeValue > 2 * Power(r - 1) - 2
      BY <2>8, <3>1 DEF First
    <3>3. Power((r - 1) + 1) = 2 * Power(r - 1) /\ Power(r - 1) \in Nat
      BY <3>1, PowerNext
    <3>4. (r - 1) + 1 = r
      BY <2>8
    <3>5. Power(r) = 2 * Power(r - 1)
      BY <3>3, <3>4
    <3> QED BY <3>2, <3>3, <3>5
  <2>11. r = 0 \/ r \in 1..12
    BY <2>8
  <2>12. codeValue <= 2 * Power(r) - 2
    BY <2>8 DEF First
  <2> QED BY <2>8, <2>9, <2>10, <2>11, <2>12 DEF r
<1> QED BY <1>2, <1>3

LEMMA EscapeSound ==
    ASSUME NEW e, EncoderSound(e), NEW bins \in Nat, NEW rice \in 0..3
    PROVE  EncoderSound(encodeRemAbsEP(e, bins, rice))
<1> DEFINE unit == Power(rice)
           quotient == bins \div unit
           low == bins % unit
           codeValue == quotient - Cutoff
           prefix == PrefixLength(codeValue)
           suffix == (codeValue - (Power(prefix) - 1)) * unit + low
           suffixLength == IF prefix = MaxPrefixLength THEN MaxLog2TrDynamicRange
                           ELSE prefix + rice + 1
           ones == Power(quotient + 1) - 2
           escape == Power(prefix + Cutoff) - 1
           result == IF bins < Cutoff * unit
                     THEN encodeBinsEP(encodeBinsEP(e, ones, quotient + 1), low, rice)
                     ELSE encodeBinsEP(encodeBinsEP(e, escape, prefix + Cutoff),
                                       suffix, suffixLength)
<1>1. encodeRemAbsEP(e, bins, rice) = result
  BY Zenon DEF encodeRemAbsEP, Power
<1>2. unit \in Nat \ {0} /\ rice \in 0..32
  BY PowerType
<1> HIDE DEF unit
<1>3. low \in Nat /\ quotient \in Int /\ bins = unit * quotient + low /\ low < unit
  BY <1>2, Division
<1>4. quotient >= 0
  <2> SUFFICES ASSUME quotient <= -1 PROVE FALSE
    BY <1>3
  <2>1. unit * quotient <= unit * (-1)
    BY <1>2, <1>3, Monotonic
  <2> QED BY <1>2, <1>3, <2>1
<1> HIDE DEF quotient, low
<1>5. CASE bins < Cutoff * unit
  <2>1. quotient <= 4
    <3> SUFFICES ASSUME quotient >= 5 PROVE FALSE
      BY <1>3
    <3>1. unit * 5 <= unit * quotient
      BY <1>2, <1>3, Monotonic
    <3> QED BY <1>2, <1>3, <1>5, <3>1 DEF Cutoff
  <2>2. quotient + 1 \in 1..5 /\ quotient + 1 \in 0..32
    BY <1>3, <1>4, <2>1
  <2>3. ones \in Nat
    <3> DEFINE k == quotient + 1
    <3> HIDE DEF k
    <3>1. k = 1 \/ k = 2 \/ k = 3 \/ k = 4 \/ k = 5
      BY <2>2 DEF k
    <3>2. Power(k) - 2 \in Nat
      BY <3>1, Powers
    <3> QED BY <3>2 DEF k
  <2>4. result = encodeBinsEP(encodeBinsEP(e, ones, quotient + 1), low, rice)
    BY <1>5
  <2> HIDE DEF ones, result
  <2>5. EncoderSound(encodeBinsEP(e, ones, quotient + 1))
    BY <2>2, <2>3, BinsSound
  <2>6. EncoderSound(encodeBinsEP(encodeBinsEP(e, ones, quotient + 1), low, rice))
    BY <1>2, <1>3, <2>5, BinsSound
  <2> QED BY <1>1, <2>4, <2>6
<1>6. CASE ~(bins < Cutoff * unit)
  <2>1. codeValue \in Nat
    <3>1. quotient >= 5
      <4> SUFFICES ASSUME quotient <= 4 PROVE FALSE
        BY <1>3
      <4>1. unit * quotient <= unit * 4
        BY <1>2, <1>3, Monotonic
      <4> QED BY <1>2, <1>3, <1>6, <4>1 DEF Cutoff
    <3> QED BY <1>3, <3>1 DEF Cutoff
  <2> HIDE DEF codeValue
  <2>2. prefix \in 0..12 /\ Power(prefix) - 1 <= codeValue
    BY <2>1, PrefixSound
  <2>3. result = encodeBinsEP(encodeBinsEP(e, escape, prefix + Cutoff), suffix, suffixLength)
    BY <1>6
  <2> HIDE DEF prefix
  <2>4. prefix + Cutoff \in 0..32 /\ suffixLength \in 0..32
    BY <2>2 DEF Cutoff, MaxLog2TrDynamicRange
  <2>5. escape \in Nat
    <3>1. Power(prefix + Cutoff) \in Nat \ {0}
      BY <2>4, PowerType
    <3> QED BY <3>1
  <2>6. suffix \in Nat
    <3> DEFINE x == codeValue - (Power(prefix) - 1)
    <3>1. prefix \in 0..32
      BY <2>2
    <3>2. Power(prefix) \in Nat
      BY <3>1, PowerType
    <3>3. x \in Nat
      BY <2>1, <2>2, <3>2
    <3> HIDE DEF x
    <3>4. x * unit + low \in Nat
      BY <1>2, <1>3, <3>3
    <3> QED BY <3>4, Zenon DEF x
  <2> HIDE DEF escape, suffix, suffixLength, result
  <2>7. EncoderSound(encodeBinsEP(e, escape, prefix + Cutoff))
    BY <2>4, <2>5, BinsSound
  <2>8. EncoderSound(encodeBinsEP(encodeBinsEP(e, escape, prefix + Cutoff), suffix, suffixLength))
    BY <2>4, <2>6, <2>7, BinsSound
  <2> QED BY <1>1, <2>3, <2>8
<1> QED BY <1>5, <1>6

-----------------------------------------------------------------------------
(* Probability models that follow the bins. *)
LEMMA MoveFast ==
    ASSUME NEW x \in Estimate, NEW rate \in 2..5, NEW bin
    PROVE  Move(x, rate, bin, Mask0) \in Estimate
<1> DEFINE r == Move(x, rate, bin, Mask0)
<1>1. x \in Int /\ 0 <= x /\ x <= 32767
  BY EstimateValue
<1>2. r = x - ((x \div Power(rate)) - ((x \div Power(rate)) % 32))
            + (IF bin = 1 THEN (32767 \div Power(rate)) - ((32767 \div Power(rate)) % 32) ELSE 0)
  BY DEF Move, Mask0, Power
<1> HIDE DEF r
<1>3. rate = 2 \/ rate = 3 \/ rate = 4 \/ rate = 5
  OBVIOUS
<1>4. r \in Int /\ 0 <= r /\ r <= 32767
  <2>1. CASE rate = 2
    BY <1>1, <1>2, <2>1, Powers
  <2>2. CASE rate = 3
    BY <1>1, <1>2, <2>2, Powers
  <2>3. CASE rate = 4
    BY <1>1, <1>2, <2>3, Powers
  <2>4. CASE rate = 5
    BY <1>1, <1>2, <2>4, Powers
  <2> QED BY <1>3, <2>1, <2>2, <2>3, <2>4
<1> QED BY <1>4, EstimateValue DEF r

LEMMA MoveSlow ==
    ASSUME NEW x \in Estimate, NEW rate \in 5..9, NEW bin
    PROVE  Move(x, rate, bin, Mask1) \in Estimate
<1> DEFINE r == Move(x, rate, bin, Mask1)
<1>1. x \in Int /\ 0 <= x /\ x <= 32767
  BY EstimateValue
<1>2. r = x - ((x \div Power(rate)) - ((x \div Power(rate)) % 2))
            + (IF bin = 1 THEN (32767 \div Power(rate)) - ((32767 \div Power(rate)) % 2) ELSE 0)
  BY DEF Move, Mask1, Power
<1> HIDE DEF r
<1>3. rate = 5 \/ rate = 6 \/ rate = 7 \/ rate = 8 \/ rate = 9
  OBVIOUS
<1>4. r \in Int /\ 0 <= r /\ r <= 32767
  <2>1. CASE rate = 5
    BY <1>1, <1>2, <2>1, Powers
  <2>2. CASE rate = 6
    BY <1>1, <1>2, <2>2, Powers
  <2>3. CASE rate = 7
    BY <1>1, <1>2, <2>3, Powers
  <2>4. CASE rate = 8
    BY <1>1, <1>2, <2>4, Powers
  <2>5. CASE rate = 9
    BY <1>1, <1>2, <2>5, Powers
  <2> QED BY <1>3, <2>1, <2>2, <2>3, <2>4, <2>5
<1> QED BY <1>4, EstimateValue DEF r

LEMMA UpdateType == ASSUME NEW m \in ProbModel, NEW bin PROVE update(m, bin) \in ProbModel
<1>1. /\ m.fast \in Estimate /\ m.slow \in Estimate /\ m.rate0 \in 2..5 /\ m.rate1 \in 5..9
  BY DEF ProbModel
<1> DEFINE f == Move(m.fast, m.rate0, bin, Mask0)
           g == Move(m.slow, m.rate1, bin, Mask1)
<1>2. f \in Estimate /\ g \in Estimate
  BY <1>1, MoveFast, MoveSlow
<1>3. update(m, bin) = [m EXCEPT !.fast = f, !.slow = g]
  BY DEF update
<1> HIDE DEF f, g
<1> QED BY <1>2, <1>3 DEF ProbModel
-----------------------------------------------------------------------------
(* The end of a substream. *)
LEMMA FinishType == ASSUME NEW e, EncoderSound(e) PROVE finish(e) \in Writer
<1> DEFINE unit == Power(32 - e.bitsLeft)
           carry == e.low \div unit
           before == IF e.numBufferedBytes = 0 THEN e.stream ELSE Drained(e, carry)
           rest == e.low % unit
           bits == rest \div 256
           n == 24 - e.bitsLeft
<1>1. /\ e \in Unsettled /\ e.bitsLeft \in 12..23 /\ e.low \in Nat /\ e.range \in Nat
      /\ 256 <= e.range /\ e.stream \in Writer
  BY EncoderValues, RegisterValues DEF EncoderSound
<1>2. finish(e) = write(before, bits, n)
  BY Zenon DEF finish, Power
<1>3. unit \in Nat \ {0}
  <2>1. 32 - e.bitsLeft \in 0..32
    BY <1>1
  <2> QED BY <2>1, PowerType
<1>4. e.low < 2 * unit
  <2>1. e.low + e.range <= Reach(e) * unit /\ Reach(e) \in {1, 2}
    BY DEF EncoderSound, Contained, Reach
  <2>2. Reach(e) * unit <= 2 * unit
    BY <1>3, <2>1
  <2> HIDE DEF unit
  <2>3. Reach(e) * unit \in Int
    BY <1>3, <2>1
  <2> QED BY <1>1, <1>3, <2>1, <2>2, <2>3
<1> HIDE DEF unit
<1>5. e.low = unit * carry + rest /\ rest \in 0..(unit - 1) /\ carry \in Int
  <2>1. e.low \in Int
    BY <1>1
  <2> HIDE DEF before, bits, n
  <2> QED BY <1>3, <2>1, Division
<1> HIDE DEF carry, rest
<1>6. carry \in 0..1
  <2>1. carry <= 1
    <3> SUFFICES ASSUME carry >= 2 PROVE FALSE
      BY <1>5
    <3>1. unit * 2 <= unit * carry
      BY <1>3, <1>5, Monotonic
    <3> QED BY <1>1, <1>3, <1>4, <1>5, <3>1
  <2>2. carry >= 0
    <3> SUFFICES ASSUME carry <= -1 PROVE FALSE
      BY <1>5
    <3>1. unit * carry <= unit * (-1)
      BY <1>3, <1>5, Monotonic
    <3> QED BY <1>1, <1>3, <1>5, <3>1
  <2> QED BY <1>5, <2>1, <2>2
<1>7. before \in Writer
  BY <1>1, <1>6, DrainedType
<1>8. bits \in Nat /\ n \in 0..12
  <2>1. rest \in Nat
    BY <1>3, <1>5
  <2> QED BY <1>1, <2>1
<1> HIDE DEF before, bits, n
<1> QED BY <1>2, <1>7, <1>8, WriteType

\* What is held after a write are bits of an unfinished byte.
LEMMA WriteHeld ==
    ASSUME NEW w \in Writer, NEW bits \in Nat, NEW n \in 0..12
    PROVE  LET x == write(w, bits, n) IN x.numHeld \in 0..7 /\ x.held < Power(x.numHeld)
<1> DEFINE rest == (w.numHeld + n) % 8
           value == w.held * Power(n) + bits
           x == write(w, bits, n)
<1>1. x.numHeld = rest /\ x.held = value % Power(rest)
  BY DEF write, Power
<1>2. w.held \in Nat /\ w.numHeld \in 0..7
  <2>1. w.held \in Byte /\ w.numHeld \in 0..7
    BY DEF Writer
  <2> QED BY <2>1, ByteValue
<1>3. rest \in 0..7 /\ rest \in 0..32
  <2>1. w.numHeld + n \in Nat
    BY <1>2
  <2> QED BY <2>1
<1>4. value \in Nat
  <2> DEFINE factor == Power(n)
  <2>1. factor \in Nat
    <3>1. n \in 0..32
      OBVIOUS
    <3> QED BY <3>1, PowerType
  <2> HIDE DEF factor
  <2>2. w.held * factor + bits \in Nat
    BY <1>2, <2>1
  <2> QED BY <2>2, Zenon DEF factor
<1> HIDE DEF rest, value, x
<1> DEFINE unit == Power(rest)
<1>5. unit \in Nat \ {0}
  BY <1>3, PowerType
<1> HIDE DEF unit
<1>6. value % unit \in 0..(unit - 1)
  BY <1>4, <1>5, Division
<1>7. value % unit < unit
  BY <1>5, <1>6
<1> QED BY <1>1, <1>3, <1>7 DEF unit, x

LEMMA AlignmentType == ASSUME NEW w \in Writer PROVE writeByteAlignment(w).fifo \in Seq(Byte)
<1> DEFINE x == write(w, 1, 1)
           last == x.held * Power(8 - x.numHeld)
<1>1. 1 \in Nat /\ 1 \in 0..12
  OBVIOUS
<1>2. x \in Writer /\ x.numHeld \in 0..7 /\ x.held < Power(x.numHeld)
  BY <1>1, WriteType, WriteHeld
<1>3. writeByteAlignment(w).fifo = IF x.numHeld = 0 THEN x.fifo ELSE Append(x.fifo, last)
  BY DEF writeByteAlignment, writeAlignZero, Power
<1> HIDE DEF x
<1>4. x.fifo \in Seq(Byte) /\ x.held \in Byte
  BY <1>2 DEF Writer
<1>5. x.held \in Nat
  BY <1>4, ByteValue
<1>6. last \in Int /\ 0 <= last /\ last <= 255
  <2> DEFINE k == x.numHeld
  <2>1. \/ k = 0 \/ k = 1 \/ k = 2 \/ k = 3 \/ k = 4 \/ k = 5 \/ k = 6 \/ k = 7
    BY <1>2
  <2> QED BY <1>2, <1>5, <2>1, Powers
<1>7. last \in Byte
  <2> HIDE DEF last
  <2> QED BY <1>6, ByteValue
<1> HIDE DEF last
<1> QED BY <1>3, <1>4, <1>7

LEMMA SubstreamType == ASSUME NEW e, EncoderSound(e) PROVE Substream(e) \in Seq(Byte)
<1>1. 1 \in 0..1
  OBVIOUS
<1>2. EncoderSound(encodeBinTrm(e, 1))
  BY <1>1, TerminatingSound
<1> QED BY <1>2, FinishType, AlignmentType DEF Substream

-----------------------------------------------------------------------------
(* The channel. *)
Models == [DOMAIN CtxModels -> ProbModel]

CodingInv ==
    /\ EncoderSound(enc)
    /\ encModels \in Models
    /\ slice \in Seq(Byte)

LEMMA StartModels == CtxModels \in Models
BY ChannelAssumption DEF Models

LEMMA SymbolTypes ==
    ASSUME NEW s \in Symbols
    PROVE  /\ s \in [kind : Kinds, arg : Nat, bins : Nat]
           /\ s.kind \in Kinds /\ s.arg \in Nat /\ s.bins \in Nat
BY ChannelAssumption

LEMMA CodedSound ==
    ASSUME NEW e, EncoderSound(e), NEW models \in Models, NEW s \in Symbols
    PROVE  EncoderSound(Coded(e, models, s))
<1>0. s.kind \in Kinds /\ s.arg \in Nat /\ s.bins \in Nat
  BY SymbolTypes
<1>1. CASE s.kind = "ctx"
  <2>1. s.arg \in DOMAIN CtxModels /\ s.bins \in 0..1
    BY <1>1, ChannelAssumption
  <2>2. models[s.arg] \in ProbModel
    BY <2>1 DEF Models
  <2>3. Coded(e, models, s) = encodeBin(e, models[s.arg], s.bins)
    BY <1>1, Zenon DEF Coded
  <2> QED BY <2>1, <2>2, <2>3, ContextBinSound
<1>2. CASE s.kind = "ep"
  <2>0. s.bins \in 0..1
    BY <1>2, ChannelAssumption
  <2>1. s.bins \in Nat /\ s.bins < Power(1) /\ 1 \in 0..8
    BY <2>0, Powers
  <2>2. Coded(e, models, s) = EncodeChunk(e, s.bins, 1)
    BY <1>2 DEF Coded, encodeBinEP
  <2> QED BY <2>1, <2>2, ChunkSound
<1>3. CASE s.kind = "eps"
  <2>1. s.bins \in Nat /\ s.arg \in 0..32
    BY <1>0, <1>3, ChannelAssumption
  <2>2. Coded(e, models, s) = encodeBinsEP(e, s.bins, s.arg)
    BY <1>3 DEF Coded
  <2> QED BY <2>1, <2>2, BinsSound
<1>4. CASE s.kind = "rem"
  <2>1. s.bins \in Nat /\ s.arg \in 0..3
    BY <1>0, <1>4, ChannelAssumption
  <2>2. Coded(e, models, s) = encodeRemAbsEP(e, s.bins, s.arg)
    BY <1>4 DEF Coded
  <2> QED BY <2>1, <2>2, EscapeSound
<1>5. CASE s.kind = "trm"
  <2>1. 0 \in 0..1
    OBVIOUS
  <2>2. Coded(e, models, s) = encodeBinTrm(e, 0)
    BY <1>5 DEF Coded
  <2> QED BY <2>1, <2>2, TerminatingSound
<1>6. CASE s.kind = "align"
  <2>1. Coded(e, models, s) = align(e)
    BY <1>6 DEF Coded
  <2> QED BY <2>1, AlignSound
<1> QED BY <1>0, <1>1, <1>2, <1>3, <1>4, <1>5, <1>6 DEF Kinds

LEMMA LearnedType ==
    ASSUME NEW models \in Models, NEW s \in Symbols, NEW bin
    PROVE  Learned(models, s, bin) \in Models
<1>1. CASE s.kind = "ctx"
  <2>1. s.arg \in DOMAIN CtxModels
    BY <1>1, ChannelAssumption
  <2>2. models[s.arg] \in ProbModel
    BY <2>1 DEF Models
  <2>3. update(models[s.arg], bin) \in ProbModel
    BY <2>2, UpdateType
  <2>4. Learned(models, s, bin) = [models EXCEPT ![s.arg] = update(models[s.arg], bin)]
    BY <1>1 DEF Learned
  <2> QED BY <2>3, <2>4 DEF Models
<1>2. CASE s.kind # "ctx"
  BY <1>2 DEF Learned
<1> QED BY <1>1, <1>2

LEMMA CodingStart == Init => CodingInv
<1>1. <<>> \in Seq(Byte)
  OBVIOUS
<1> QED BY <1>1, StartSound, StartModels DEF Init, CodingInv

LEMMA CodingStep == CodingInv /\ [Next]_vars => CodingInv'
<1> SUFFICES ASSUME CodingInv, [Next]_vars PROVE CodingInv'
  OBVIOUS
<1>1. ASSUME NEW s \in Symbols, Encode(s) PROVE CodingInv'
  <2>0. EncoderSound(enc) /\ encModels \in Models
    BY DEF CodingInv
  <2>1. EncoderSound(enc')
    <3>1. enc' = Coded(enc, encModels, s)
      BY <1>1 DEF Encode
    <3> QED BY <2>0, <3>1, CodedSound
  <2>2. encModels' \in Models
    <3>1. encModels' = Learned(encModels, s, s.bins)
      BY <1>1 DEF Encode
    <3> QED BY <2>0, <3>1, LearnedType
  <2>3. slice' \in Seq(Byte)
    BY <1>1 DEF Encode, CodingInv
  <2> QED BY <2>1, <2>2, <2>3 DEF CodingInv
<1>2. ASSUME EndSubstream PROVE CodingInv'
  <2>1. Substream(enc) \in Seq(Byte) /\ slice \in Seq(Byte)
    BY SubstreamType DEF CodingInv
  <2>2. slice' = slice \o Substream(enc) /\ enc' = StartEncoder /\ encModels' = CtxModels
    BY <1>2 DEF EndSubstream
  <2>3. slice' \in Seq(Byte)
    BY <2>1, <2>2, ConcatProperties
  <2>4. EncoderSound(enc')
    BY <2>2, StartSound
  <2> QED BY <2>2, <2>3, <2>4, StartModels DEF CodingInv
<1>3. ASSUME Decode \/ DecodeEnd \/ UNCHANGED vars PROVE CodingInv'
  <2>1. enc' = enc /\ encModels' = encModels /\ slice' = slice
    BY <1>3 DEF Decode, DecodeEnd, vars
  <2> QED BY <2>1 DEF CodingInv
<1> QED BY <1>1, <1>2, <1>3 DEF Next

LEMMA CodingImplies == CodingInv => CarryContained
<1> SUFFICES ASSUME CodingInv PROVE CarryContained
  OBVIOUS
<1> DEFINE top == Power(32 - enc.bitsLeft)
           end == enc.low + enc.range
<1>1. /\ enc.numBufferedBytes = 0 => enc.bufferedByte = 255
      /\ end <= Reach(enc) * top
  BY DEF CodingInv, EncoderSound, Contained
<1>2. enc.bitsLeft \in 12..23
  BY EncoderValues DEF CodingInv, EncoderSound
<1>3. top \in Nat
  <2>1. 32 - enc.bitsLeft \in 0..32
    BY <1>2
  <2> QED BY <2>1, PowerType
<1>4. CarryContained <=> end <= IF enc.numBufferedBytes = 0 \/ enc.bufferedByte = 255
                                THEN top ELSE 2 * top
  BY Zenon DEF CarryContained, Power
<1> HIDE DEF end, top
<1>5. 1 * top = top
  BY <1>3
<1> QED BY <1>1, <1>4, <1>5 DEF Reach

\* The interval of the encoder never reaches past the byte that is buffered for
\* a carry, whatever is coded: a byte that OutputBitstream has taken is final
\* (writeOut, finish).
THEOREM CarryCorrect == Spec => []CarryContained
<1>1. Spec => []CodingInv
  BY CodingStart, CodingStep, PTL DEF Spec
<1>2. []CodingInv => []CarryContained
  BY CodingImplies, PTL
<1> QED BY <1>1, <1>2, PTL
=============================================================================
