------------------------------ MODULE BitStream ------------------------------
(***************************************************************************)
(* OutputBitstream (Lib/CommonLib/BitStream): bits that are collected into *)
(* bytes.  The bits of an unfinished byte are a value of numHeld bits      *)
(* here, where the code keeps them at the upper end of a byte.             *)
(***************************************************************************)
EXTENDS Naturals, Sequences

Byte == 0..255

Writer == [fifo : Seq(Byte), held : Byte, numHeld : 0..7]
EmptyWriter == [fifo |-> <<>>, held |-> 0, numHeld |-> 0]

\* The bytes of a value of n bytes, the most significant first.
Bytes(value, n) == [i \in 1..n |-> (value \div 2^(8 * (n - i))) % 256]

write(w, bits, numberOfBits) ==
    LET total == w.numHeld + numberOfBits
        rest  == total % 8
        value == w.held * 2^numberOfBits + bits
    IN  [fifo    |-> w.fifo \o Bytes(value \div 2^rest, total \div 8),
         held    |-> value % 2^rest,
         numHeld |-> rest]

writeAlignZero(w) ==
    IF w.numHeld = 0 THEN w
    ELSE [fifo    |-> Append(w.fifo, w.held * 2^(8 - w.numHeld)),
          held    |-> 0,
          numHeld |-> 0]

writeByteAlignment(w) == writeAlignZero(write(w, 1, 1))
=============================================================================
