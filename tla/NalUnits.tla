------------------------------ MODULE NalUnits ------------------------------
(***************************************************************************)
(* NAL units as bytes: emulation prevention (NALwrite, NALread) and the    *)
(* entry points of the substreams of a slice, whose sizes count the        *)
(* emulation prevention bytes (EncSlice, VLCWriter, VLCReader).            *)
(*                                                                         *)
(* A unit has a type, the bytes of its header or payload syntax, and the   *)
(* substreams of a slice.  Syntax ends in a stop bit, so its last byte is  *)
(* not zero, and neither is that of a substream.                           *)
(***************************************************************************)
EXTENDS Naturals, SequencesExt

VclTypes == 0..11
SliceTypes == VclTypes \ {4, 5, 6, 11}             \* without the reserved
IDR == 8
EOS == 21
EOB == 22
PH == 19
ParameterSetTypes == {12, 13, 14, 15, 16, 17, 18}   \* OPI .. SUFFIX_APS

Content(u) == [type |-> u.type, syntax |-> u.syntax, subs |-> u.subs]

-----------------------------------------------------------------------------
\* Mutant: a zero that follows an escape is not counted.
PutUncounted(w, v) ==
    LET escape == w.zeroCount = 2 /\ v <= 3
    IN  [out |-> w.out \o (IF escape THEN <<3, v>> ELSE <<v>>),
         zeroCount |-> IF v # 0 \/ escape THEN 0 ELSE w.zeroCount + 1]

\* A byte of the payload, behind an escape where it needs one.
Put(w, v) ==
    LET escape == w.zeroCount = 2 /\ v <= 3
    IN  [out |-> w.out \o (IF escape THEN <<3, v>> ELSE <<v>>),
         zeroCount |-> IF v # 0 THEN 0
                       ELSE (IF escape THEN 0 ELSE w.zeroCount) + 1]

NothingPut == [out |-> <<>>, zeroCount |-> 0]

\* writeNaluContent
Escaped(rbsp) ==
    LET after[n \in 0..Len(rbsp)] ==
            IF n = 0 THEN NothingPut ELSE Put(after[n - 1], rbsp[n])
        end == after[Len(rbsp)]
    IN  end.out \o (IF end.zeroCount > 0 THEN <<3>> ELSE <<>>)

\* writeNalUnitHeader, layer 0 and temporal layer 0.
NalUnitHeader(type) == <<0, 8 * type + 1>>

\* cabac_zero_word_padding
ZeroWords(n) == [i \in 1..(3 * n) |-> IF i % 3 = 0 THEN 3 ELSE 0]

\* A unit as it is written: writeNaluWithHeader, xAttachSliceDataToNalUnit.
Written(u) ==
    NalUnitHeader(u.type) \o Escaped(u.syntax \o FlattenSeq(u.subs))
                          \o ZeroWords(u.zeroWords)

\* countStartCodeEmulations of a substream: how many there are up to a byte, and
\* from where on the next one is looked for.
EmulationAt(rbsp, j) ==
    j + 2 <= Len(rbsp) /\ rbsp[j] = 0 /\ rbsp[j + 1] = 0 /\ rbsp[j + 2] <= 3
NothingFound == [count |-> 0, from |-> 1]
Find(rbsp, found, j) ==
    IF found.from <= j /\ EmulationAt(rbsp, j)
    THEN [count |-> found.count + 1, from |-> j + 2]
    ELSE found

countStartCodeEmulations(rbsp) ==
    LET found[j \in 0..Len(rbsp)] ==
            IF j = 0 THEN NothingFound ELSE Find(rbsp, found[j - 1], j)
    IN  found[Len(rbsp)].count

\* Mutant: the sizes are those of the RBSP.
EntryPointsPlain(u) == [i \in 1..(Len(u.subs) - 1) |-> Len(u.subs[i])]

\* addSubstreamSize, for all substreams but the last.
EntryPoints(u) ==
    [i \in 1..(Len(u.subs) - 1) |->
        Len(u.subs[i]) + countStartCodeEmulations(u.subs[i])]

-----------------------------------------------------------------------------
\* A byte with emulation prevention: what is known without it, and the CHECKs.
Get(r, v) ==
    IF r.zeroCount = 2 /\ v = 3
    THEN [r EXCEPT !.locations = Append(@, r.pos), !.pos = @ + 1,
                   !.zeroCount = 0, !.escaped = TRUE]
    ELSE [rbsp      |-> Append(r.rbsp, v),
          pos       |-> r.pos + 1,
          locations |-> r.locations,
          zeroCount |-> IF v = 0 THEN r.zeroCount + 1 ELSE 0,
          escaped   |-> FALSE,
          sound     |-> /\ r.sound
                        /\ ~(r.zeroCount >= 2 /\ v < 3)
                        /\ ~(r.escaped /\ v > 3)]

NothingGot == [rbsp |-> <<>>, pos |-> 0, locations |-> <<>>, zeroCount |-> 0,
               escaped |-> FALSE, sound |-> TRUE]

\* convertPayloadToRBSP: the bytes without emulation prevention, where it was,
\* and whether the CHECKs pass.
Unescaped(bytes) ==
    LET after[n \in 0..Len(bytes)] ==
            IF n = 0 THEN NothingGot ELSE Get(after[n - 1], bytes[n])
        end == after[Len(bytes)]
    IN  [end EXCEPT !.sound = @ /\ end.zeroCount = 0]

\* The cabac_zero_words of a slice are dropped.
WithoutZeroWords(rbsp) ==
    LET used == {i \in DOMAIN rbsp : rbsp[i] # 0}
    IN  SubSeq(rbsp, 1, IF used = {} THEN 0 ELSE Max(used))

read(bytes) ==
    LET r == Unescaped(bytes)
        type == r.rbsp[2] \div 8
    IN  [type      |-> type,
         rbsp      |-> IF type \in VclTypes THEN WithoutZeroWords(r.rbsp)
                       ELSE r.rbsp,
         locations |-> r.locations,
         sound     |-> r.sound]

\* The end of the slice header among the bytes with emulation prevention.
EndOfSliceHeader(locations, byteLocation) ==
    LET end[n \in 0..Len(locations)] ==
            IF n = 0 THEN byteLocation
            ELSE end[n - 1] + (IF locations[n] < end[n - 1] THEN 1 ELSE 0)
    IN  end[Len(locations)]

\* The ends of the slice header and of the substreams, with emulation prevention.
SubstreamEnds(offsets, first) ==
    LET ends[n \in 0..Len(offsets)] ==
            IF n = 0 THEN first ELSE ends[n - 1] + offsets[n]
    IN  ends

\* parseSliceHeader: the sizes of the substreams without emulation prevention.
SubstreamSizes(offsets, locations, byteLocation) ==
    LET ends == SubstreamEnds(offsets, EndOfSliceHeader(locations, byteLocation))
        inside(i) == {k \in DOMAIN locations :
                        locations[k] >= ends[i - 1] /\ locations[k] < ends[i]}
    IN  [i \in DOMAIN offsets |-> offsets[i] - Cardinality(inside(i))]

\* How much of the data has been extracted (m_fifo_idx) with each substream.
ExtractedUpTo(data, sizes) ==
    LET idx[n \in 0..Len(sizes)] ==
            IF n = 0 THEN 0 ELSE Min({idx[n - 1] + sizes[n], Len(data)})
    IN  idx

\* extractSubstream of every size, and of the bytes that are left; a size past
\* the end takes what is there, and zeros.
Extracted(data, sizes) ==
    LET idx == ExtractedUpTo(data, sizes)
        N == Len(sizes)
    IN  [n \in 1..(N + 1) |->
            IF n > N THEN SubSeq(data, idx[N] + 1, Len(data))
            ELSE [k \in 1..sizes[n] |-> IF idx[n - 1] + k > Len(data) THEN 0
                                        ELSE data[idx[n - 1] + k]]]

\* A unit parsed: its syntax tells where it ends and what the offsets are.
Parsed(nalu, syntaxLength, offsets) ==
    LET end == Min({2 + syntaxLength, Len(nalu.rbsp)})
        data == SubSeq(nalu.rbsp, end + 1, Len(nalu.rbsp))
    IN  [type   |-> nalu.type,
         syntax |-> SubSeq(nalu.rbsp, 3, end),
         subs   |-> IF nalu.type \in VclTypes
                    THEN Extracted(data, SubstreamSizes(offsets, nalu.locations,
                                                        end))
                    ELSE <<>>]
=============================================================================
