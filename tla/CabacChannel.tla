---------------------------- MODULE CabacChannel -----------------------------
(***************************************************************************)
(* The arithmetic encoder and the arithmetic decoder around the data of    *)
(* one slice.  The encoder codes symbols: bins with a context, bypass bins *)
(* and values, terminating bins that are 0, alignments.  It ends a         *)
(* substream with a terminating bin that is 1 and starts the next one with *)
(* fresh contexts (encodeSlice).  Substreams follow each other in the      *)
(* slice; the decoder is not told where they start, as when                *)
(* sps_entry_point_offsets_present_flag is 0 (decompressSlice), and finds  *)
(* the next one where it stopped reading.  The syntax tells it the kind of *)
(* the next symbol, never its bins.                                        *)
(***************************************************************************)
EXTENDS BinDecoder

CONSTANTS
    Symbols,        \* symbols: [kind, arg, bins]
    CtxModels,      \* initial model of each context
    MaxSymbols,     \* bound: symbols of a slice, ends of substreams included
    MaxSubstreams   \* bound: substreams of a slice

Kinds == {"ctx", "ep", "eps", "rem", "trm", "align"}

ASSUME ChannelAssumption ==
    /\ CtxModels \in Seq(ProbModel)
    /\ MaxSymbols \in Nat /\ MaxSubstreams \in Nat
    /\ Symbols \subseteq [kind : Kinds, arg : Nat, bins : Nat]
    /\ \A s \in Symbols :
          /\ s.kind \in {"ctx", "ep"} => s.bins \in 0..1
          /\ s.kind \in {"trm", "align"} => s.bins = 0
          /\ s.kind = "ctx" => s.arg \in DOMAIN CtxModels
          /\ s.kind = "eps" => s.arg \in 0..32 /\ s.bins < 2^s.arg
          /\ s.kind = "rem" => s.arg \in 0..3 /\ s.bins <= 32768

VARIABLES
    enc, encModels,     \* encoder and its contexts
    slice,              \* bytes of the substreams that are finished
    sizes,              \* their ends in the slice
    dec, decModels,     \* decoder and its contexts
    phase,              \* "code", "decode"
    sent, received      \* symbols coded, symbols decoded

vars == <<enc, encModels, slice, sizes, dec, decModels, phase, sent, received>>

End == [kind |-> "end", arg |-> 0, bins |-> 1]

Init ==
    /\ enc = StartEncoder /\ encModels = CtxModels
    /\ slice = <<>> /\ sizes = <<>>
    /\ dec = StartDecoder(<<>>, 0) /\ decModels = CtxModels
    /\ phase = "code"
    /\ sent = <<>> /\ received = <<>>

-----------------------------------------------------------------------------
\* The encoder after a symbol.
Coded(e, models, s) ==
    CASE s.kind = "ctx"   -> encodeBin(e, models[s.arg], s.bins)
      [] s.kind = "ep"    -> encodeBinEP(e, s.bins)
      [] s.kind = "eps"   -> encodeBinsEP(e, s.bins, s.arg)
      [] s.kind = "rem"   -> encodeRemAbsEP(e, s.bins, s.arg)
      [] s.kind = "trm"   -> encodeBinTrm(e, 0)
      [] s.kind = "align" -> align(e)

\* The context models after a symbol.
Learned(models, s, bin) ==
    IF s.kind = "ctx" THEN [models EXCEPT ![s.arg] = update(@, bin)] ELSE models

Encode(s) ==
    /\ phase = "code"
    /\ Len(sent) < MaxSymbols - 1
    /\ enc' = Coded(enc, encModels, s)
    /\ encModels' = Learned(encModels, s, s.bins)
    /\ sent' = Append(sent, s)
    /\ UNCHANGED <<slice, sizes, dec, decModels, phase, received>>

\* The last CTU of a substream: end_of_slice, byte alignment, and the next
\* substream or the decoder.
EndSubstream ==
    /\ phase = "code"
    /\ Len(sizes) < MaxSubstreams
    /\ slice' = slice \o Substream(enc)
    /\ sizes' = Append(sizes, Len(slice'))
    /\ enc' = StartEncoder
    /\ encModels' = CtxModels
    /\ sent' = Append(sent, End)
    /\ \/ /\ phase' = "code"
          /\ Len(sizes') < MaxSubstreams /\ Len(sent') < MaxSymbols
          /\ UNCHANGED dec
       \/ /\ phase' = "decode"
          /\ dec' = StartDecoder(slice', 0)
    /\ UNCHANGED <<decModels, received>>

-----------------------------------------------------------------------------
Syntax == sent[Len(received) + 1]

Decoded(d, models, s) ==
    CASE s.kind = "ctx"   -> decodeBin(d, models[s.arg])
      [] s.kind = "ep"    -> decodeBinEP(d)
      [] s.kind = "eps"   -> decodeBinsEP(d, s.arg)
      [] s.kind = "rem"   -> decodeRemAbsEP(d, s.arg)
      [] s.kind = "trm"   -> decodeBinTrm(d)
      [] s.kind = "align" -> [bins |-> 0, dec |-> align(d)]
      [] s.kind = "end"   -> decodeBinTrm(d)

Expecting == phase = "decode" /\ Len(received) < Len(sent)

Decode ==
    /\ Expecting /\ Syntax # End
    /\ LET r == Decoded(dec, decModels, Syntax)
       IN  /\ dec' = r.dec
           /\ decModels' = Learned(decModels, Syntax, r.bins)
           /\ received' = Append(received, [Syntax EXCEPT !.bins = r.bins])
    /\ UNCHANGED <<enc, encModels, slice, sizes, phase, sent>>

\* terminating_bit, then the next substream with fresh contexts.
DecodeEnd ==
    /\ Expecting /\ Syntax = End
    /\ LET r == Decoded(dec, decModels, Syntax)
       IN  /\ r.bins = 1
           /\ StopPatternPresent(r.dec)
           /\ received' = Append(received, End)
           /\ dec' = IF Len(received') = Len(sent) THEN r.dec
                     ELSE StartDecoder(slice, r.dec.idx)
    /\ decModels' = CtxModels
    /\ UNCHANGED <<enc, encModels, slice, sizes, phase, sent>>

Next == (\E s \in Symbols : Encode(s)) \/ EndSubstream \/ Decode \/ DecodeEnd

Spec == Init /\ [][Next]_vars

-----------------------------------------------------------------------------
EndsReceived == Cardinality({i \in DOMAIN received : received[i] = End})

\* The registers of both sides keep their ranges (writeOut, encodeBin,
\* decodeBin), and the contexts stay probabilities (update).
TypeOK ==
    /\ enc.range \in 256..510 /\ enc.bitsLeft \in 12..23
    /\ enc.stream.fifo \in Seq(Byte) /\ slice \in Seq(Byte)
    /\ encModels \in [DOMAIN CtxModels -> ProbModel]
    /\ dec.range \in 254..510 /\ dec.bitsNeeded \in -8..-1
    /\ decModels \in [DOMAIN CtxModels -> ProbModel]

\* The interval of the encoder never reaches past the byte that can take a
\* carry: bytes that left the buffer are final, and a carry never meets a
\* buffered byte of 255, which OutputBitstream::write would refuse (writeOut).
CarryContained ==
    LET top == 2^(32 - enc.bitsLeft)
    IN  enc.low + enc.range <=
            IF enc.numBufferedBytes = 0 \/ enc.bufferedByte = 255
            THEN top ELSE 2 * top

\* While symbols remain, the decoder's value lies inside its interval, and its
\* window of two bytes never reaches beyond the slice (BinDecoder::start,
\* readByte's CHECK).
WindowInside ==
    /\ Expecting => dec.value < dec.range * 128
    /\ phase = "decode" => dec.idx <= Len(slice)

\* At the end of a substream the decoder sees the terminating bin and the stop
\* bit, and has read exactly the bytes of the substream, although it reads
\* ahead: the next substream starts at its position (DecSlice, finish).
StopsAtEnd ==
    Expecting /\ Syntax = End =>
        LET r == Decoded(dec, decModels, End)
        IN  /\ r.bins = 1 /\ StopPatternPresent(r.dec)
            /\ r.dec.idx = sizes[EndsReceived + 1]

\* The decoder inverts the encoder: symbols arrive in order and unchanged
\* (BinEncoder.cpp, BinDecoder.cpp).
Channel == INSTANCE LosslessChannel
Lossless == Channel!Safe
=============================================================================
