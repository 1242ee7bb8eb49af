----------------------------- MODULE BinEncoder ------------------------------
(***************************************************************************)
(* The arithmetic encoder (Lib/EncoderLib/BinEncoder).  Its interval is    *)
(* [low, low + range), kept in 32 - bitsLeft bits of low.  A byte that     *)
(* leaves low may still get a carry, and so may a run of 0xff bytes behind *)
(* it: the encoder buffers the byte and counts the run.                    *)
(***************************************************************************)
EXTENDS BitStream, ProbModel, SequencesExt

\* COEF_REMAIN_BIN_REDUCTION and the dynamic range of transform coefficients.
Cutoff == 5
MaxLog2TrDynamicRange == 15
MaxPrefixLength == 32 - Cutoff - MaxLog2TrDynamicRange

\* start, on an empty substream.
StartEncoder ==
    [low |-> 0, range |-> 510, bitsLeft |-> 23,
     bufferedByte |-> 255, numBufferedBytes |-> 0, stream |-> EmptyWriter]

\* Mutant: the run behind the buffered byte does not take the carry.
DrainedPlain(e, carry) ==
    LET byte == write(e.stream, e.bufferedByte + carry, 8)
    IN  [byte EXCEPT !.fifo = @ \o [i \in 1..(e.numBufferedBytes - 1) |-> 255]]

\* The stream after the buffered byte and its run have been written.
Drained(e, carry) ==
    LET byte == write(e.stream, e.bufferedByte + carry, 8)
    IN  [byte EXCEPT !.fifo = @ \o [i \in 1..(e.numBufferedBytes - 1) |->
                                        (255 + carry) % 256]]

\* Mutant: a byte of 255 is buffered like any other.
writeOutNoRun(e) ==
    LET leadByte == e.low \div 2^(24 - e.bitsLeft)
    IN  [e EXCEPT !.bitsLeft = @ + 8,
                  !.low = @ % 2^(24 - e.bitsLeft),
                  !.stream = IF e.numBufferedBytes = 0 THEN @
                             ELSE Drained(e, leadByte \div 256),
                  !.numBufferedBytes = 1,
                  !.bufferedByte = leadByte % 256]

writeOut(e) ==
    LET leadByte == e.low \div 2^(24 - e.bitsLeft)
        cut == [e EXCEPT !.bitsLeft = @ + 8,
                         !.low = @ % 2^(24 - e.bitsLeft)]
    IN  CASE leadByte = 255 ->
                [cut EXCEPT !.numBufferedBytes = @ + 1]
          [] leadByte # 255 /\ e.numBufferedBytes = 0 ->
                [cut EXCEPT !.numBufferedBytes = 1, !.bufferedByte = leadByte]
          [] OTHER ->
                [cut EXCEPT !.stream = Drained(e, leadByte \div 256),
                            !.numBufferedBytes = 1,
                            !.bufferedByte = leadByte % 256]

\* Mutant: bytes leave low one bit too late.
RenormalisedLate(e) == IF e.bitsLeft < 11 THEN writeOut(e) ELSE e

\* Every operation ends with this test.
Renormalised(e) == IF e.bitsLeft < 12 THEN writeOut(e) ELSE e

Shifted(e, add, n) ==
    [e EXCEPT !.low = (@ + add) * 2^n, !.bitsLeft = @ - n]

encodeBin(e, m, bin) ==
    LET lps  == getLPS(m, e.range)
        rest == e.range - lps
        n    == getRenormBitsLPS(lps)
        one  == getRenormBitsRange(rest)
    IN  CASE bin # mps(m) ->
                Renormalised([Shifted(e, rest, n) EXCEPT !.range = lps * 2^n])
          [] bin = mps(m) /\ rest < 256 ->
                Renormalised([Shifted(e, 0, one) EXCEPT !.range = rest * 2^one])
          [] OTHER -> [e EXCEPT !.range = rest]

\* Bypass bins of one value, at most eight at a time.  With a range of 256
\* (encodeAlignedBinsEP) the product is a shift and there is nothing else.
EncodeChunk(e, bins, n) ==
    Renormalised([e EXCEPT !.low = @ * 2^n + e.range * bins,
                           !.bitsLeft = @ - n])

encodeBinEP(e, bin) == EncodeChunk(e, bin, 1)

\* The widths that encodeBinsEP and decodeBinsEP cut a value into.
Widths(numBins) ==
    LET full == IF numBins = 0 THEN 0 ELSE (numBins - 1) \div 8
    IN  [i \in 1..(full + 1) |-> IF i <= full THEN 8 ELSE numBins - 8 * full]

encodeBinsEP(e, bins, numBins) ==
    LET widths == Widths(numBins)
        Left(i) == IF i < Len(widths) THEN numBins - 8 * i ELSE 0
        after[i \in 0..Len(widths)] ==
            IF i = 0 THEN e
            ELSE EncodeChunk(after[i - 1], (bins \div 2^Left(i)) % 2^widths[i],
                             widths[i])
    IN  after[Len(widths)]

\* Mutant: a prefix ends one value too late.
PrefixLengthLate(codeValue) ==
    IF codeValue >= 2^MaxPrefixLength - 1 THEN MaxPrefixLength
    ELSE CHOOSE p \in 0..MaxPrefixLength :
            /\ codeValue <= 2 * 2^p - 1
            /\ \A q \in 0..(p - 1) : codeValue > 2 * 2^q - 1

\* The prefix of an escape code: its length beyond the cutoff.
PrefixLength(codeValue) ==
    IF codeValue >= 2^MaxPrefixLength - 1 THEN MaxPrefixLength
    ELSE CHOOSE p \in 0..MaxPrefixLength :
            /\ codeValue <= 2 * 2^p - 2
            /\ \A q \in 0..(p - 1) : codeValue > 2 * 2^q - 2

encodeRemAbsEP(e, bins, rice) ==
    LET quotient  == bins \div 2^rice
        codeValue == quotient - Cutoff
        prefix    == PrefixLength(codeValue)
        suffix    == (codeValue - (2^prefix - 1)) * 2^rice + (bins % 2^rice)
        suffixLength == IF prefix = MaxPrefixLength
                        THEN MaxLog2TrDynamicRange ELSE prefix + rice + 1
    IN  IF bins < Cutoff * 2^rice
        THEN encodeBinsEP(encodeBinsEP(e, 2^(quotient + 1) - 2, quotient + 1),
                          bins % 2^rice, rice)
        ELSE encodeBinsEP(encodeBinsEP(e, 2^(prefix + Cutoff) - 1,
                                       prefix + Cutoff),
                          suffix, suffixLength)

encodeBinTrm(e, bin) ==
    LET rest == e.range - 2
    IN  CASE bin = 1 ->
                Renormalised([Shifted(e, rest, 7) EXCEPT !.range = 256])
          [] bin = 0 /\ rest < 256 ->
                Renormalised([Shifted(e, 0, 1) EXCEPT !.range = 2 * rest])
          [] OTHER -> [e EXCEPT !.range = rest]

align(e) == [e EXCEPT !.range = 256]

\* The last carry and the bits that are left, without those below the interval.
finish(e) ==
    LET unit   == 2^(32 - e.bitsLeft)
        carry  == e.low \div unit
        before == IF e.numBufferedBytes = 0 THEN e.stream ELSE Drained(e, carry)
    IN  write(before, (e.low % unit) \div 256, 24 - e.bitsLeft)

\* Mutant: the substream ends without a stop bit.
SubstreamNoStop(e) == writeAlignZero(finish(encodeBinTrm(e, 1))).fifo

\* end_of_slice of CABACWriter and the byte alignment that encodeSlice adds.
Substream(e) == writeByteAlignment(finish(encodeBinTrm(e, 1))).fifo
=============================================================================
