----------------------------- MODULE BinDecoder ------------------------------
(***************************************************************************)
(* The arithmetic decoder (Lib/DecoderLib/BinDecoder).  value holds the    *)
(* part of the substream above the interval, 16 + bitsNeeded bits of it    *)
(* used; a byte is fetched when bitsNeeded reaches 0.  An operation        *)
(* answers the new decoder and the bins.                                   *)
(***************************************************************************)
EXTENDS Integers, BinEncoder

\* readByte; a read behind the end answers 0 here and is seen in idx.
ByteAt(fifo, i) == IF i < Len(fifo) THEN fifo[i + 1] ELSE 0

Fetch(d, shift) ==
    [d EXCEPT !.value = @ + ByteAt(d.fifo, d.idx) * 2^shift, !.idx = @ + 1]

\* start, at byte idx of the stream.
StartDecoder(fifo, idx) ==
    [value |-> 256 * ByteAt(fifo, idx) + ByteAt(fifo, idx + 1),
     range |-> 510, bitsNeeded |-> -8, fifo |-> fifo, idx |-> idx + 2]

\* value takes n more bits.
Consumed(d, n) ==
    LET next == [d EXCEPT !.value = @ * 2^n, !.bitsNeeded = @ + n]
    IN  IF next.bitsNeeded < 0 THEN next
        ELSE [Fetch(next, next.bitsNeeded) EXCEPT !.bitsNeeded = @ - 8]

decodeBin(d, m) ==
    LET lps  == getLPS(m, d.range)
        rest == d.range - lps
        n    == getRenormBitsLPS(lps)
        one  == getRenormBitsRange(rest)
        less == d.value >= rest * 128
    IN  [bins |-> IF less THEN 1 - mps(m) ELSE mps(m),
         dec  |->
            CASE less ->
                    Consumed([d EXCEPT !.value = @ - rest * 128,
                                       !.range = lps * 2^n], n)
              [] ~less /\ rest < 256 ->
                    Consumed([d EXCEPT !.range = rest * 2^one], one)
              [] OTHER -> [d EXCEPT !.range = rest]]

\* n compare-and-subtract steps: the quotient, at most n bits of it.  With a
\* range of 256 (decodeAlignedBinsEP) the quotient is read off the value.
DecodeChunk(d, n) ==
    LET next == Consumed(d, n)
        quotient == next.value \div (d.range * 128)
        bins == IF quotient < 2^n THEN quotient ELSE 2^n - 1
    IN  [bins |-> bins,
         dec  |-> [next EXCEPT !.value = @ - bins * d.range * 128]]

decodeBinEP(d) == DecodeChunk(d, 1)

\* More bins behind those of r.
Longer(r, n) ==
    LET next == DecodeChunk(r.dec, n)
    IN  [bins |-> r.bins * 2^n + next.bins, dec |-> next.dec]

decodeBinsEP(d, numBins) ==
    LET widths == Widths(numBins)
        after[i \in 0..Len(widths)] ==
            IF i = 0 THEN [bins |-> 0, dec |-> d]
            ELSE Longer(after[i - 1], widths[i])
    IN  after[Len(widths)]

\* The prefix of decodeRemAbsEP: ones up to a zero or the longest prefix.
LongestPrefix == 32 - MaxLog2TrDynamicRange
PrefixBit(r) ==
    LET next == decodeBinEP(r.dec)
    IN  IF r.stopped THEN r
        ELSE [bins |-> r.bins + next.bins, dec |-> next.dec,
              stopped |-> next.bins = 0]
PrefixOf(d) ==
    LET after[i \in 0..LongestPrefix] ==
            IF i = 0 THEN [bins |-> 0, dec |-> d, stopped |-> FALSE]
            ELSE PrefixBit(after[i - 1])
    IN  after[LongestPrefix]

decodeRemAbsEP(d, rice) ==
    LET prefix == PrefixOf(d)
        p      == prefix.bins
        offset == IF p < Cutoff THEN p * 2^rice
                  ELSE (2^(p - Cutoff) + Cutoff - 1) * 2^rice
        length == CASE p < Cutoff -> rice
                    [] p = LongestPrefix -> MaxLog2TrDynamicRange
                    [] OTHER -> rice + p - Cutoff
        rest   == decodeBinsEP(prefix.dec, length)
    IN  [bins |-> offset + rest.bins, dec |-> rest.dec]

decodeBinTrm(d) ==
    LET rest == d.range - 2
    IN  CASE d.value >= rest * 128 ->
                [bins |-> 1, dec |-> [d EXCEPT !.range = rest]]
          [] d.value < rest * 128 /\ rest < 256 ->
                [bins |-> 0, dec |-> Consumed([d EXCEPT !.range = 2 * rest], 1)]
          [] OTHER -> [bins |-> 0, dec |-> [d EXCEPT !.range = rest]]

\* CHECK of finish: the last byte read holds the stop bit where it has to be.
StopPatternPresent(d) ==
    (ByteAt(d.fifo, d.idx - 1) * 2^(8 + d.bitsNeeded)) % 256 = 128
=============================================================================
