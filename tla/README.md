# A TLA+ model of VTM

VTM 16.0 is the reference software of the VVC video codec: about 190 000 lines
of single-threaded C++ under `src/runVTM/VTM/source`, an encoder, a decoder and
tools that edit bitstreams. This directory holds TLA+ modules that model parts
of it that are neither sample arithmetic nor tables of syntax elements, the TLC
configurations that check them, and proofs that TLAPS checks. They fall into two
groups:

- the decoder's control: the loop over NAL units, parameter sets, reference
  pictures, output;
- channels, where an encoder and a decoder each keep a state that must stay the
  same on both sides: arithmetic coding, NAL units and byte streams, slices and
  CTUs, the coding tree.

Paths below are relative to `src/runVTM/VTM/source`.

## Inventory

| Component | State it keeps | Operations | What makes it correct | Modelled |
|---|---|---|---|---|
| Parameter sets: `ParameterSetManager`, `DecLib::xActivateParameterSets`, `activateAPS` | a map per kind from id to object, payload and changed flag; active ids; the object replaced last | `storePS`, `allocatePS`, `getPS`, activation, clearing of flags, buffered suffix APSs | each object is owned and freed once; a picture never uses an object that changed under it | `ParameterSets` |
| Decoder loop: `DecApp::decode` | `bPicSkipped`, `prevPicSkipped`, `loopFiltered`, `isEosPresentInPu`, `m_newCLVS`, `gdrRecoveryPeriod` | one pass per NAL unit or look-ahead | every picture is finished once, flags describe the right picture | `DecoderLoop`; its look-aheads in `NalChannel` |
| Picture level of the decoder: `DecLib` | `m_cListPic`, `m_pcPic`, first-slice flags, random access POC, prior-picture flags, GDR POCs | `xDecodeSlice`, `xGetNewPicBuffer`, `finishPicture`, `isRandomAccessSkipPicture`, `isNewPicture` | references are present and complete; buffers are not taken too early or lost | `DecoderLoop`, `ReferencePictures`, for one layer |
| Reference pictures: `Slice` | `referenced`, `longTerm` of pictures, reference lists | marking, `constructRefPicList`, the restriction checks | marking keeps exactly what the lists name; an entry leads to the picture the encoder meant | `DecoderLoop` (short-term), `ReferencePictures` (long-term, missing), `CodedStream` (restrictions) |
| POC derivation, lost and unavailable pictures: `VLCReader`, `Slice`, `DecLib` | `m_prevTid0POC` | `parseSliceHeader`, `xUpdatePreviousTid0POC`, `xCreateLostPicture`, `xCreateUnavailablePicture` | POCs survive wrap-around; the search for missing pictures ends | `ReferencePictures` |
| Output: `DecApp::xWriteOutput`, `xFlushOutput` | `m_iPOCLastDisplay`, `neededForOutput`, the output log | bump, flush | each picture is output once, in order, none too early | `DecoderLoop`, abstractly `OutputOrder` |
| Arithmetic coder: `BinEncoder`, `BinDecoder`, `Contexts`, `BitStream` | low, range, outstanding bytes; value, bits needed; probability states | context, bypass, escape and terminating bins, alignment, start, finish | the decoder inverts the encoder and stops where a substream ends | `BinEncoder`, `BinDecoder`, `ProbModel`, `BitStream`, `CabacChannel` |
| Byte stream: `AnnexBread`, `AnnexBwrite`, `NALread`, `NALwrite` | file position, bytes looked at, held bits | start codes, emulation prevention, entry points, two look-aheads | reading inverts writing; looking ahead changes nothing | `NalUnits`, `ByteStream`, `NalChannel` |
| Slices and CTUs: `EncAppCfg`, `EncSlice`, `DecSlice`, `VLCWriter`/`VLCReader` | tiles, slice map; contexts, QP and palette predictors of three walks | configuration, PPS, slice header, `encodeCtus`, `encodeSlice`, `decompressSlice` | the decoder finds the encoder's slices, and is in the same state in every CTU | `SliceLayout`, `SliceData` |
| Partitioning: `UnitPartitioner`, `CABACReader`/`CABACWriter` (`coding_tree`), `CodingStructure` | the stack of parts, depths, the quantization group | split, next part, exit; split flags; modes of small blocks | parts tile the picture once in luma and in chroma; counters match the path | `Partitioner`, `CodingTree` |
| Other syntax: `VLCReader`/`VLCWriter`, `CABACReader`/`CABACWriter` | a cursor | one function per syntax structure | reading inverts writing | no: tables of data |
| HMVP table, dependent quantisation, LMCS: `UnitTools`, `DepQuant`, `Reshape` | a list of motion data; a four-state machine; piecewise maps | insertion; transition; forward and inverse map | both sides share the code | no |
| Encoder scheduling: `EncLib`, `EncGOP` | GOP position, picture list, reference lists | compress a GOP | what it writes is a stream the decoder's rules admit | no, next in the plan |
| Bitstream tools: `Parcat`, `StreamMergeApp`, `SubpicMergeApp`, `BitstreamExtractorApp`, `SEIRemovalApp` | POC offsets, layer ids | rewrite or drop NAL units | the result conforms | no, next in the plan |
| Prediction, transforms, loop filters, SIMD | sample arrays | arithmetic | bit exactness | no: data, not control |
| Searches, mode decision, rate control, filters' encoder side | costs, statistics | heuristics | any choice is correct | no |
| SEI, HRD parameters, profiles | metadata | parse, write | no effect on decoding | no |
| Other configuration, video files, scripts, tracing | options, files | I/O | | no |

Interactions. `DecApp::decode` drives the decoder: it asks `DecLib::isNewPicture`
whether a picture ends (a look-ahead on the file), hands each NAL unit to
`DecLib::decode`, and finishes pictures and writes output when one of the two
says so. The two sides share the picture list by pointer, `m_iPOCLastDisplay` by
reference, and a dozen flags through setters; `Picture` objects share the
parameter sets of the maps by raw pointer. Inside a picture `DecSlice` walks over
CTUs and `CABACReader` over the coding tree of each, with one `QTBTPartitioner`
(or two) that the encoder's writer and search use as well.

There is no concurrency between threads. What is hard in the decoder is that a
picture is decoded in one pass of the loop, finished in another, output in a
third and recycled in a fourth, and that between them NAL units change flags
that were meant for another picture: an end of sequence (EOS), a skipped leading
picture, a dropped temporal layer, a recovery period, a repeated parameter set.
What is hard in the channels is that two or three programs, written apart, must
agree on a state that is never sent: where a substream ends, which bytes are
escapes, what the QP was predicted from, which split flags are implied. A
disagreement shows far behind the place where it arose. `PROJECT.json` lists
these hazards at their lines.

## Modules

| Module | What it is |
|---|---|
| `ParameterSets` | the parameter set maps, activation, and the pointers that pictures keep |
| `MCParameterSets` | its instances for TLC |
| `ParameterSets_proofs` | its type invariant, ownership, the changed flag and the SPS of listed pictures, proved |
| `CodedStream` | the environment of the decoder loop: the pictures a conforming stream may send |
| `DecoderLoop` | `DecApp::decode`, the picture level of `DecLib`, and output |
| `OutputOrder` | what an output log promises; `DecoderLoop` is checked and proved to implement it |
| `DecoderLoop_proofs` | types, references, random access, and the output: complete, in order, not too early, from a bounded list, proved |
| `ReferencePictures` | POCs and reference picture lists from slice headers to pictures, from a random access point on |
| `ReferencePictures_proofs` | that every picture gets its POC, that a list is read as it was written, that its entries lead to the right pictures and that the search for missing ones ends, proved |
| `LosslessChannel` | what a writer and a reader promise together; two channels are checked to implement it |
| `BitStream`, `ProbModel` | operators: the output bitstream, the probability models |
| `BinEncoder`, `BinDecoder` | operators: every operation of the arithmetic coder |
| `CabacChannel`, `MCCabacChannel` | the two around the data of a slice; the instance for TLC |
| `CabacChannel_proofs` | that the encoder never loses a carry, proved |
| `CabacDecoding_proofs` | that the decoder undoes the encoder and finds the ends of substreams, proved |
| `NalUnits`, `ByteStream` | operators: emulation prevention and entry points; start codes and their reader |
| `NalChannel`, `MCNalChannel` | from the encoder's units through a file and the decoder's look-aheads; the instance |
| `NalChannel_proofs` | start codes, emulation prevention, the reader's position, entry points, delivery and picture boundaries, proved |
| `SliceLayout` | operators: tiles and slices in the configuration, the PPS and the slice map |
| `SliceData`, `MCSliceData` | search, writer and reader of the CTUs of a picture; the instance |
| `Partitioner` | operators: `QTBTPartitioner` |
| `CodingTree`, `MCCodingTree` | the walk of `coding_tree` through a CTU; the instance |
| `CodingTree_proofs` | that split flags are read as meant, counters match the path, a group's QP is predicted where all sides think, every sample is coded once and no CHECK fails, proved |
| `IntegerFacts` | lemmas for the proofs: division, least numbers, induction over steps |

### ParameterSets

Each parameter set object is an address with a status: fresh, live or deleted.
`storePS` is the disjunction of its three outcomes: `KeepPS` (the payload is
known and the flag clear: the new object is deleted), `ReplacePS` (an object is
deleted: the entry's own, or, when the id is active, the one that
`m_lastActiveParameterSet` gives up in the swap) and `AddPS`. `FirstSlice` is
the first branch of `xActivateParameterSets` and what comes with it: the flush of
the list before an IDR, activation, the inferred VPS 0, and the pointers of the
new picture. `NextSlice` is the second branch, which gives up (`exited`) when a
flag is set. `BufferSuffixAps` and `ProcessSuffixAps` are the queue that
`finishPicture` empties. A payload is opaque; only equality and the ids inside
it matter. APS ids stand for the pair of id and type that keys the real map.
The suffix APS of a skipped picture, which is stored at once, is a
`DecodeParameterSet` between pictures here.

### CodedStream

The bitstream is what the decoder may be given, so its rules decide what the
checks mean. They are the ones that the code enforces with `CHECK`
(`checkLeadingPictureRestrictions`, `checkRPL`) or reads from the SPS. The
limits of the picture buffer are read as VVC's C.5.2: a stream respects them if
a decoder that outputs a picture only when it must always has a free buffer, and
never meets a picture that precedes one already output. The module keeps that
ideal decoder's `waiting` set and its `horizon` (the highest POC output) and
admits the pictures that fit. `expected` collects what has to be output.

### DecoderLoop

A pass of the `while` loop is split at its three blocks, `pc` = `look`,
`finish`, `output`:

| Code | Model |
|---|---|
| `isNewPicture` answers TRUE | `LookAhead` |
| a slice: flush, `m_newCLVS`, `xDecodeSlice` to the end | `DecodeFirstSlice`, `DecodeNextSlice` |
| a slice that random access skips | `SkipFirstSlice`, `SkipNextSlice` |
| a slice above the temporal layer of `-t` | `DropSlice` |
| an EOS NAL unit | `DecodeEos` |
| `executeLoopFilters`, `finishPicture`, GDR state | `FinishBlock` |
| suppression, `xWriteOutput`, reset of the EOS flags | `OutputBlock` |
| the final `xFlushOutput` | `Flush` |

A slice action is the whole handler: the flush of `xFlushOutput` (`FlushedLog`,
`FlushedDisplay`), the prior-picture flags (consumed before they are derived
again, as in the code), the random access decision, the marking, the buffer and
the flags of DecApp after the call. A picture carries the three booleans of
`Picture`; its id is (CVS, POC), of which the program sees only the POC, so that
a match with a picture of another sequence shows as an error.

Not in the model: field pairs, layers, subpictures, long-term references,
`-s`, mixed NAL unit types, lost and unavailable pictures, POC LSBs. The last
three are in `ReferencePictures`.

### ReferencePictures

The stream (`Send`) knows the true POCs and writes slice headers of them: POC
LSBs, differences for short-term entries, LSBs and MSB cycles for long-term
ones. The decoder tunes in before any picture (`TuneIn`). `ReadSlice` derives the
POC from the LSBs and `m_prevTid0POC` and decides on skipping; `InsertMissing` is
one round of the `while` loop that makes up missing pictures; `Activate` is what
follows it: marking, the new picture, `constructRefPicList`, `checkRPL`.
`EndSlice` returns. In a sequence entered at a CRA or GDR picture all POCs of the
decoder are lower than the stream's by `offset`, a multiple of the LSB range.

The stream is kept to what works, by these rules:

- A picture that counts as lost always ends the program: the comment at
  `DecLib.cpp:2744` announces a copy of an earlier frame, but
  `xCreateLostPicture` looks at the slices of the fresh picture with a CHECK.
- A RASL picture follows, in output order, every IRAP or GDR picture in front of
  its CRA (`InOrder`, `before`; a CHECK of `checkLeadingPictureRestrictions`).
  Without the rule a RASL picture before the point where the decoder entered is
  decoded and its references are missing, which takes five pictures to happen.
- A missing picture of POC 0 or below is not noticed (`Generable`), since the
  POC is the answer and is tested with `> 0`.
- A long-term entry with an MSB is generated under its LSBs only, and the search
  for it would not end.
- A GDR picture whose first slice is intra and whose second slice misses a
  picture ends the program.
- The picture made up last replaces `m_prevTid0POC`; one that is half an LSB
  range away would shift all later POCs (`Certain`, `Generable`).
- The POC MSB that a picture header may give (`ph_poc_msb_cycle_val`) is not
  used, nor by the encoder.
- The writer sends the MSB cycles that the list holds (`VLCWriter.cpp:2361`), the
  reader accumulates them (`VLCReader.cpp:3848`). The stream has increases
  (`Rising`), as the reader expects; VTM's own encoder never sends one.

L1 goes through the same code as L0 and is left out, as are an EOS and inter-layer
references.

### The arithmetic coder

The registers keep their widths and every operation its arithmetic: bytes leave
`low` when 12 bits are left, a byte and a run of 0xff bytes wait for a carry, the
decoder's window holds 16 + `bitsNeeded` bits. `Estimate`s keep 10 and 14 bits.
`CabacChannel` codes symbols, each with a kind and an argument that the syntax
knows, and bins that only the channel carries. The decoder is not told the sizes
of the substreams and must find each where it stopped reading.

`MCSymbols` are few but sit at edges: the longest bypass runs, both sides of the
switch of the escape code to a fixed length, a value that makes the interval
straddle a carry, contexts at the ends of their range. Five symbols are enough
to fill the buffer of the encoder, to let a carry pass a run and to begin a
second substream.

Not modelled: the bit counters and bin stores that the search uses instead of a
bitstream.

### NAL units and the byte stream

Units are bytes, with zeros wherever escapes are decided: at the ends of syntax
and substreams, in front of each byte up to 4, and before `cabac_zero_word`s. The
writer's and the reader's counts of escape bytes (two different scans) are both
modelled. The file position has two parts, as in `InputByteStream`: where the
stream stands, and up to four bytes that were taken and not consumed. An action
of the decoder is a turn of the loop: look for a new picture, look for a new
access unit, finish, read a unit. Streams have one layer.

Assumed of the units, as VTM's encoder writes them: syntax and substreams end in
a stop bit (`xWriteRbspTrailingBits`, `writeByteAlignment`), a slice has a header
and at least one substream, only slices have `cabac_zero_word`s, and there is no
end of bitstream unit, which no call of the encoder makes. The order of units
(`Follows`) is that of an access unit: prefix units, slices, suffix units (filler
data among them), an EOS.

### SliceLayout and SliceData

`SliceLayout` is the way of tiles and slices from the options of the encoder
application through the PPS to `m_ctuAddrInSlice`: rectangular slices (listed,
one per tile, fixed by size) and raster slices; each field that the PPS leaves
out is inferred by the reader's rule. `SliceData` puts CTUs into it. A CTU is one
quantization group, codes a delta QP or not, and a palette or not. Contexts are
the list of CTUs coded since they were initialised, so two sides have the same
contexts exactly if these lists are equal. Three walks are modelled, each with
its own resets: the search (`CompressCtu`), the writer (`EncodeSlice`), the
reader (`ReadSlice`).

Preconditions of the layout: slices are listed so that everything left of and
above a slice is listed before it. Raster slices in one tile are left out:
`VLCWriter.cpp:337-345` omits the rectangular slice flag with what depends on
it, `VLCReader.cpp:522-531` infers it as one and reads a number of slices.

### Partitioner and CodingTree

`Partitioner` has one operator per method of `QTBTPartitioner`, on a record: the
levels, the depths counted beside them, the position of the quantization group.
`CodingTree` is the reader's `coding_tree`: the call stack is `calls`, with what
each call recovers when it returns; `waiting` is the other partitioner where the
trees of luma and chroma alternate in a CTU of 128. Splits and mode constraints
are chosen freely among those the writer may send, through the bins of
`split_cu_mode`. Only the path to the current node is state, and which samples
were coded: what went before a node in other subtrees does not matter otherwise,
so all combinations of subtrees need not be enumerated. Search and writer use the
same partitioner.

`Configs` are what the reader accepts in an SPS (`Accepted`): all combinations of
split limits for CTUs of 32 with units of 4 and 8 and for CTUs of 128 with units
of 32, in pictures that end at several places inside the CTU, and a few richer
trees. A CTU is at most 128, so the branch of the alternation for blocks above
64 inside a split (`CABACReader.cpp:517`) is never taken.

Not modelled: transform splits (`TU_MAX_TR_SPLIT`, SBT, ISP); the chroma QP
offset groups; the start of the group in the chroma context of a dual tree, whose
prediction is overwritten by the QP of the luma unit. The contexts of the split
bins are derived by one function for both sides.

## Checks

All runs but `coding_tree` set `CHECK_DEADLOCK FALSE`: streams and object stores
are bounded, and a decoder at the end of its stream stops. `coding_tree` ends in
a step that changes nothing (`Ended`), so a walk that stops anywhere else is a
deadlock and reported.

| Run | States | Shows |
|---|---|---|
| `ps_store` | 95 000 | all kinds of parameter sets, repeated and changed, around slices. `Ownership`: every live object is owned exactly once and no map holds a deleted one. `ChangedFlagSound`: a slice that passes the check of `xActivateParameterSets` uses current objects |
| `ps_sps_live` | 10 000 | `ListSpsLive`: the SPS that the output code dereferences through the list is live, if sequences start with IDR pictures and no SPS is repeated before one |
| `loop_order` | 760 000 | IDR, CRA, RADL, RASL and trailing pictures with two reordered: `RefsPresent`, `LogComplete`, `NeverAhead`, `ListBounded` (one picture above the limit), and `InOutputOrder`, the refinement of `OutputOrder` |
| `loop_eos` | 890 000 | two EOSs, also after skipped pictures, a picture that `-t` drops, pictures that are not output: `RefsPresent`, `LogComplete` |
| `loop_gdr` | 510 000 | GDR starts and recovery, two slices, an EOS: `TypeOK`, `LogComplete`, `InOutputOrder` |
| `ref_pictures` | 1 600 000 | POCs come back from two bits of LSBs (`PocRecovered`), every active entry leads to the picture the encoder used or to one made up for it (`RefsResolved`), nothing ends the program (`NeverGivesUp`), and each round of the search for missing pictures gets closer to its end (`SearchAdvances`) |
| `cabac_channel` | 600 000 | carries stay where they can be taken (`CarryContained`), the decoder's window in its bounds (`WindowInside`), substreams end where they should (`StopsAtEnd`), and the channel is lossless (`Lossless`, the safety of `LosslessChannel`) |
| `nal_channel` | 49 000 | start codes are where units begin and nowhere else (`StartCodesMarkUnits`), looking ahead leaves the reader where it was (`ReaderAtNextUnit`), pictures are finished at their boundaries (`PictureBoundaries`), and all units arrive, unchanged, with their substreams (`Delivered`, safety and liveness of `LosslessChannel`) |
| `slice_data` | 950 000 | the decoder recovers every layout of up to nine CTUs (`LayoutRecovered`), three counts of substreams agree (`EntryPointsMatch`); in pictures of up to four CTUs reader and writer agree on contexts and ends (`ParsedInStep`), QPs and palettes are those of the search (`QpRecovered`, `PalettesRecovered`) |
| `coding_tree` | 360 000 | no CHECK fails (`ChecksHold`), every sample is coded once in luma and in chroma (`CodedOnce`), depths match the path (`CountersMatchPath`), chroma blocks are large enough to predict (`SmallBlocks`), blocks of 64 are finished one after the other (`PipelineUnits`), the quantization group starts where all sides think it does (`FirstOfGroup`), and split flags are read as meant (`BinsParsed`) |

Bounds. For `DecoderLoop`, five pictures with two reordered, or four with an
EOS, are enough for each pair of features to meet: a leading picture behind a CRA
behind another sequence, a recycled buffer while one picture waits and another is
referenced, a second sequence with the same POCs. Two slices are enough because
the second slice is where flags are derived again, and a third repeats it. Two
payloads and five to seven objects let a parameter set be replaced, kept and
replaced again while pictures hold the older ones. `MinusInf` and `PlusInf` stand
for `-MAX_INT` and `MAX_INT`; the bounds keep all POCs strictly between them.
For `ReferencePictures`, POCs up to 7 wrap two bits of LSBs once, four pictures
let the decoder enter at a picture whose references it lacks, with others behind
it, and IDR pictures have POC 0 or 1. Layouts of nine CTUs hold three rows and columns of
tiles, the smallest with a tile inside others; data of four CTUs cover two
slices of two tiles or of two rows. QPs are the ends of the range, where the
wrap of the delta counts.

The constant `Allow` names situations in which the program does not keep its
promise. The passing runs exclude them, except where they say so. Two runs show a
violation:

| Run | Situation, and what happens |
|---|---|
| `loop_lone_last` | `loneLastPicture`: one picture between an EOS and the end of the file is never finished and never output (`DecApp.cpp:339`) |
| `slice_qp` | `tilesInSlice`: in a slice of several tiles the search and the reader reset the QP predictor at each tile, the writer only at the slice (`EncSlice.cpp:2018`), and the reader reconstructs another QP |

Further values can be tried by adding them to `Allow`; each makes TLC report a
violation within seconds or minutes.

| Module | Value | What happens |
|---|---|---|
| `DecoderLoop` | `raslBeforeEos` | the EOS sets `m_newCLVS` before the RASL picture in front of it is finished, and it is not output (`DecLib.cpp:877`) |
| | `gdrAfterEos` | the list is not flushed for a GDR picture behind an EOS, and the pictures that wait are discarded (`DecApp.cpp:208`); `RefsPresent` fails too |
| | `droppedBeforeGdr` | with `MaxDrops = 1`: a GDR picture behind a dropped picture starts a recovery period, and pictures that wait are suppressed |
| | `recoveringBeforeIdr` | an IDR picture before a GDR picture has recovered is suppressed too |
| | `lateRecovering` | with `MaxRecovery = 2` and no EOS: a picture in front of the recovery point of a GDR picture, decoded behind one that is not, is output although it should not be; decoded order decides (`gdrRecoveryPeriod`), not the POC |
| | `recoveringBeforeEos` | the EOS resets the recovery POC before the picture in front of it is finished, and a picture before the recovery point is output |
| `ReferencePictures` | `inactive` | `NeverGivesUp`: `checkRPL` uses the null pointer of a missing long-term entry (`Slice.cpp:667`) in front of the test and the comment that inactive entries may be missing (`Slice.cpp:669`) |
| `SliceData` | `sliceInTile` | `PalettesRecovered`: the reader resets the palette predictor at a slice inside a tile (`DecSlice.cpp:97`), the search does not |

`loop_eos` includes `skippedBeforeEos`: behind a skipped or dropped picture an
EOS does not call `setFirstSliceInSequence`, and `LogComplete` holds all the
same. In `ParameterSets`, a repetition is not dropped while the changed flag is
pending: it replaces the stored object again, which is why `ps_sps_live` needs
its condition.

Fairness and liveness. `NalChannel` is the one module with fairness, and the one
where something waits: the decoder for units, the sender's file for its end. The
encoder's input is finite, so it closes the file (`WF` of `CloseFile`); each turn
of the decoder's loop runs to the next, so every turn that can be taken is taken
(`WF` of `DecoderTurn`, for steps that change `mode`). Under both, `Delivered`
includes that all units arrive. A decoder that reads a finite file has nothing
else to wait for: what must eventually happen, the output of every picture, is
stated at the end of the program (`LogComplete` when `pc` is `done`), and the end
of the search for missing pictures as an action property (`SearchAdvances`): a
number that falls in every round.

## Proofs

TLAPS proves, for every value of the constants that satisfies the assumptions of
the modules:

| Theorem | Says |
|---|---|
| `ParameterSets_proofs!TypeCorrect` | `Spec => []TypeOK` |
| `ParameterSets_proofs!OwnershipCorrect` | `Spec => []Ownership` |
| `ParameterSets_proofs!Invariant` | the inductive invariant behind both |
| `ParameterSets_proofs!ChangedFlagCorrect` | `Spec => []ChangedFlagSound` |
| `ParameterSets_proofs!ListSpsCorrect` | `Spec => []ListSpsLive`, if no sequence starts with a GDR picture and no SPS is repeated before an IDR |
| `DecoderLoop_proofs!ReferencesPresent` | `Spec => []RefsPresent`, if no GDR picture follows an EOS |
| `DecoderLoop_proofs!SkipsOnlyUndecodable` | random access skips a picture exactly if its references are not there, under the same condition |
| `DecoderLoop_proofs!TypeCorrect` | `Spec => []TypeOK` |
| `DecoderLoop_proofs!LogIsComplete` | `Spec => []LogComplete`, if `Orderly` |
| `DecoderLoop_proofs!WritesNotAhead` | `Spec => []NeverAhead`, if `Orderly` |
| `DecoderLoop_proofs!ListIsBounded` | `Spec => []ListBounded`, if `Orderly` |
| `DecoderLoop_proofs!OutputsInOrder` | `Spec => InOutputOrder`, if `Orderly`: `DecoderLoop` refines `OutputOrder` |
| `ReferencePictures_proofs!PocCorrect` | `Spec => []PocRecovered` |
| `ReferencePictures_proofs!ReferencesResolved` | `Spec => []RefsResolved`, if inactive entries name pictures the decoder has |
| `ReferencePictures_proofs!DecoderGoesOn` | `Spec => []NeverGivesUp`, under the same condition |
| `ReferencePictures_proofs!SearchEnds` | `Spec => SearchAdvances`, under the same condition |
| `ReferencePictures_proofs!ReferenceTypes` | `Spec => []TypeOK`, under the same condition |
| `ReferencePictures_proofs!ListReadRight` | `parseSliceHeader` reads the reference picture list that was written |
| `CodingTree_proofs!SplitsRecovered` | `Spec => []BinsParsed`: the reader infers the split the writer meant |
| `CodingTree_proofs!CountersFollow` | `Spec => []CountersMatchPath` |
| `CodingTree_proofs!GroupsAgree` | `Spec => []FirstOfGroup` |
| `CodingTree_proofs!NoCheckFails` | `Spec => []ChecksHold` |
| `CodingTree_proofs!EverythingOnce` | `Spec => []CodedOnce`: what is coded of a CTU is what the picture shows of it, once in luma and once in chroma |
| `CabacChannel_proofs!CarryCorrect` | `Spec => []CarryContained` |
| `CabacDecoding_proofs!CabacLossless` | `Spec => Lossless`: the decoder gives the symbols that were coded, and `CabacChannel` refines `LosslessChannel` |
| `CabacDecoding_proofs!StopsCorrect` | `Spec => []StopsAtEnd` |
| `CabacDecoding_proofs!WindowCorrect` | `Spec => []WindowInside` |
| `CabacDecoding_proofs!CabacTypes` | `Spec => []TypeOK` |
| `NalChannel_proofs!StartCodesCorrect` | `Spec => []StartCodesMarkUnits` |
| `NalChannel_proofs!UnitsRead` | `read` returns what a unit was before emulation prevention and zero words |
| `NalChannel_proofs!ReaderCorrect` | `Spec => []ReaderAtNextUnit` |
| `NalChannel_proofs!UnitsParsed` | the type, syntax and substreams of a unit come back byte for byte |
| `NalChannel_proofs!DeliveredSafely` | the safety half of `Delivered`: `NalChannel` refines `LosslessChannel`, and no CHECK of the reader fails |
| `NalChannel_proofs!BoundariesCorrect` | `Spec => []PictureBoundaries` |

`Orderly` is `Allow \subseteq {"skippedBeforeEos"}`: none of the other situations
that the table above lists for `DecoderLoop`, nor `loneLastPicture`, occurs in
the stream. For each of them TLC has a stream in which a theorem under `Orderly`
fails, so none of the exclusions can be left out. The passing runs exclude them too.

The condition of `ReferencePictures` is `"inactive" \notin Allow`. With inactive
entries that name missing pictures, `checkRPL` uses a null pointer: this is the
run `ref_inactive`, and the finding.

Assumptions on constants. `ConstantsAssumption`, `StreamAssumption`,
`LoopAssumption` and `ConfigsAssumption` are types. The others say what the source fixes:

- `ReferenceAssumption`: `BitsForPOC` is in 1..16. `VLCReader.cpp` reads the
  number of LSBs as four bits plus one, and an IDR picture's POC is below that
  range.
- `ChannelAssumption`: the argument and the bins of each symbol fit its kind. A
  bypass run has up to 32 bins, a value of an escape code is at most 32768
  (coefficients have 16 bits), a context is one of the models, and a terminating
  bin inside a substream is 0.
- `NalAssumption`, `StopBitsAssumption`: bytes are bytes, and units end as the
  writer ends them (see NAL units above). Without stop bits a substream that
  ends in zeros would lose them to the trailing zeros of the byte stream.

Each inductive invariant was checked by TLC, as an invariant of the run of its
module, before it was proved.

**Ownership.** `Ownership` is a conjunction of facts about who holds an object: the
map entries, the objects replaced last, nobody twice, no live object without a
holder. It needs the types of the maps and `StoredData`, that only the inferred
VPS has no payload: otherwise the ids that activation reads from a PPS and an
SPS could be undefined. One lemma per outcome of `storePS` and one per action
show that the conjunction is kept; `AddedObject` and `SameObjects` are the two
ways an owner can change.

**The changed flag.** `ChangedFlagSound` speaks of slices that pass the check.
`FlagsTell` is the inductive form: while a picture is decoded, each of its
parameter sets is still in its map or the flag of the entry is set; for APSs this
can only be said of all of them together, since the check asks for any. `ListSpsLive`
needs `ListHeld` and `PicHeld`: the SPS of every listed picture is still in the
map, or an SPS with other contents arrived and it is the object replaced last.
It survives one replacement and not a second, which is why repetitions of an SPS
before an IDR are excluded.

**References.** `RefsPresent` speaks of the picture that is being decoded, and
nothing in it survives a step. The inductive invariant `RefsInv` adds:

- `EosKnown`: an EOS is recorded in `isEosPresentInPu`, moves to
  `isEosPresentInLastPu` when the look-ahead has passed, and is gone when the
  next picture has been read. This is why the list is emptied before the first
  picture of a sequence and never inside one.
- `AccessKnown`: `m_pocRandomAccess` is the POC of the picture that starts the
  sequence, or `-MAX_INT`. With the order of leading pictures it follows that the
  decoder skips exactly the pictures without references; one skipped too few
  would clear the marks of the others.
- `InProgress`: a current picture that is not complete will be finished before
  the next first slice is read.
- `ListKnown`: the list holds pictures of the current sequence only, with POCs
  the stream has used, and all its reference pictures, marked and complete
  unless current. A new picture has a POC that is not used, so the search by POC
  finds one picture.
- `HeaderKnown`: the header refers to reference pictures other than itself.

The rest are lemmas about the list: `checkNoOutputPriorPics`, the marking,
`xGetNewPicBuffer`, `finishPicture` and `xWriteOutput` each keep a complete,
marked picture (`AfterPriorPicsKeeps`, `MarkedKeeps`, `NewPictureKeeps`,
`FinishedKeeps`, `WrittenKeeps`). The condition about GDR pictures is needed:
behind an EOS a GDR picture does not empty the list, and pictures of the former
sequence stay under POCs that the next one uses: with `gdrAfterEos` in `Allow`
TLC finds `RefsPresent` violated.

**Output.** `LogComplete` speaks of the end of the program, and `InOutputOrder` of a
step; what makes both true is an account, kept from the first slice to the flush,
of where each picture is that the stream expects to be output. `OutputInv` is
that account, in layers that are proved one over the other:

- `TypeInv`: the types, and that no two pictures of the list have one id. The
  rows of a set of pictures are defined by rank (`Ranked`), and only under this
  condition does each rank have exactly one picture (`RankedOnce`).
- `FlowKnown`: in which passes a current picture exists that is not finished
  (`Unfinished`), so that each picture is finished, and once. `loopFiltered` can
  only be a remainder of an EOS, and then matters only for a lone last picture.
- `StreamOk`: what the bumping decoder of `CodedStream` promises: what waits
  there are the expected pictures behind its horizon, and they fit the reordering
  limit and, with the reference pictures, the buffer.
- `CurrentKnown`: `PicOutputFlag` and `m_newCLVS` say of the current picture what
  the stream says; flags of an earlier anchor are consumed where they do no
  harm; and while `gdrRecoveryPeriod` is set, every picture of the sequence but
  the current one is in front of the recovery point.
- `ListOwn`: the list holds pictures of the sequence only, the current one among
  them.
- `RowsKnown`: the expected pictures are those in the log, those in the list
  that are marked for output, and the current one; no picture is in two of
  these, and what is written comes first. This is where the counts of `xWriteOutput` are
  used. A picture is written only if more pictures than a limit admits are at or
  behind it; behind a current picture there never are (the last conjunct), so
  that nothing is written over its head, and what is written is at most the
  horizon.
- `DisplayKnown`: `m_iPOCLastDisplay` is the POC written last or lower than all of
  them, also when slices that random access skipped have counted it up: there
  are at most `SkippedSlices` of them.
- `BoundKnown`: the pictures that keep their buffers (`Live`) fit the limit when a
  picture starts. Otherwise the output would have to write one.

`LogComplete` is `RowsKnown` with an empty list and no current picture. For the
refinement each action is a step of `OutputOrder`: the output block and the
flushes write pictures of least rank, and a slice codes a picture that follows
the horizon. The situation `lateRecovering` was found by this proof: the conjunct
of `CurrentKnown` about the recovery point is not inductive without it, and TLC,
with a recovery point two POCs away, has the stream in which the output is wrong.

**POCs.** `PocInv` ties `m_prevTid0POC` to the POC that the stream's next LSBs are
relative to, less the offset of the entry point, while pictures may be skipped,
dropped or made up. The step is one lemma of arithmetic: a POC within half an LSB
range of a known one is determined by its LSBs, in the form the code computes it.
The stream's rules (`Certain`) are used at a picture made up last.

**Entries and pictures.** `RefsResolved` holds between `Activate` and the end of a
slice and says nothing of a picture before. What carries it from one
picture to the next is `RefsInv` of `ReferencePictures_proofs`:

- `DpbKnown`, `HeaderKnown`: the stream's reference pictures have POCs of their own that
  are still in use, and the entries of the header name some of them, one
  each; an entry that is named by LSBs alone shares them with no other recent picture.
- `AccessKnown`: the random access point of the stream is where the decoder
  entered, or begins later; `isRandomAccessSkipPicture` therefore skips the RASL
  pictures of the CRA picture that was entered at and no others (`SkipsRight`).
- `PicsKnown`: the pictures in the list are those of the stream, less `offset`, no
  two with one POC, and one that was made up stands for no picture that may
  still be referred to with certainty.
- `AsideKnown`: between pictures, each reference picture of the stream that the
  decoder was bound to have decoded (`Available`) is in the list and marked.
- `FreshKnown`: a header has been read. The references are there and decoded; or the
  decoder enters here, and the list is empty or holds what has been made up.
- `BegunKnown`: the first slice has marked the pictures. The marked ones are the
  entries' and the current one, with the entries' long-term marks.

An entry leads to at most one picture of a list in which LSBs tell the marked pictures
apart (`Clear`, `NamesOnly`). The code marks pictures as long-term entry by
entry, in two functions and in each slice; `Lengthen` says what the first `n`
entries have done to a picture, and `Lengthened` that `MarkLongTerms` does that,
in any order of the list, because no entry takes a picture that another means.
`Remark` then leaves exactly the named pictures marked (`RemarkSettles`), and
`constructRefPicList` changes no mark any more (`ListFilled`). A picture is
missing only in a GDR picture that the decoder enters at (`OnlyEntering`).
What is made up has the POC of the entry it was made for, so that each round
leaves one entry less to find (`Lacking`, `RoundShrinks`). The proof found that
the rule for RASL pictures, stated over all anchors, was not the code's: see the rules in
ReferencePictures above.

The types need one more fact, that the cycles of a list rise (`Rising`):
`ParsedType` follows the sum that the reader keeps.

**Arithmetic coder.** `CodingInv` says how much of the interval is outside `low`:
`EncoderSound` relates `low`, `range`, `bitsLeft` and the bytes that wait, so
that a carry out of `low` meets a buffered byte below 0xff or a run behind one
that is. Each operation (`encodeBin`, bypass runs of up to 32 bins in pieces of
eight, the escape code, alignment, terminating bins, `finish`) preserves it.
The runs are a recursive function, and the bound goes through them by induction.

**Decoding.** The decoder reads ahead: what it gives at a symbol depends on bytes
that the encoder writes many symbols later, and a carry may still change. So
nothing about it can be said of the encoder's state at that symbol; the argument
is about numbers. A sequence of bytes is a number (`Number`), and so are its
first `q` bits (`First`). The code of an encoder (`Code`) is a number, all that
it has shifted out with `low` behind it, the number of its bits, and `range`:
where the bytes are, which of them wait for a carry, is not in it. For each kind of symbol
there are two lemmas: the encoder's operation takes the code to the code that the
symbol narrows it to (`SymbolCoded`: `Bypass`, `ContextCode`, `EscapeCode`,
`TrmCode`, `AlignCode`); and a decoder whose first bits lie in the interval of
the code after the symbol returns the symbol's bins, and is the decoder at that
code (`SymbolDecoded`, `Tracker`). `finish` writes out a number that lies in the
last interval, with the stop bit (`EndPlaced`).

`ChannelInv` holds a history of the codes at all symbols of the slice, which no
variable keeps: it is quantified in the invariant. While a substream is coded the
history grows; when it ends, its first bits lie in the last interval, intervals
are nested, and so they lie in the interval of each symbol, by induction from the
last symbol back (`HistoryWithin`). From then on the bytes are final, and each
step of the decoder is `SymbolDecoded` at the next code of the history. The
theorems are readings of `ChannelInv`: the window stays inside the slice because
the interval needs no bits behind the substream, and the decoder ends at the byte
where the encoder did because the stop bit is the last bit of the last code.

**Start codes and emulation prevention.** `FileInv` says that start codes stand
where they were recorded and nowhere else, and that the file ends in a byte other
than zero, so that no code can form across the next unit. That none forms inside
a unit is a property of `Escaped`: no three bytes 0, 0, x with x up to 2.
`UnitsRead` runs the reader's scan over the writer's output: after each written byte the reader has the bytes before it, with
the same count of zeros.

**Delivery.** The encoder counts the escapes of a substream before anything is
escaped, and the reader finds them in the escaped unit. `WrittenSteps` says at
which positions a byte is inserted, `Placed` and `Beyond` that the two counts
include the same bytes, `Spans` and `SizesRead` that the sizes in the entry
points lead back to the sizes of the substreams, and `SubstreamsRead` that the
cuts fall where substreams were joined. `StreamInv` and
`ReaderInv` say that the bytes looked ahead at are put back, so that the decoder
always stands in front of unit `Len(received) + 1`.

**Picture boundaries.** Four pieces of state decide that a slice starts a picture:
the look-ahead, `m_bFirstSliceInPicture`, the EOS and what was finished.
`PicturesInv` is the order of the units that were written, with the number of
each unit's picture; a look-ahead, which stops at the first unit that tells,
finds one that starts a picture exactly if the next slice does; `PictureInv` says
for each place in the loop where the decoder stands in its picture (`AtFirst`, `Inside`, `Closed`, `Trailing`). The last two are
needed: an EOS finishes a picture and clears the flags with units of the next
one not yet read, and prefix units of the next picture follow slices without any
slice behind them when the file ends.

**Coding tree.** The path of a partitioner is a sequence of levels, and what is kept
beside it is a function of that sequence (`Tally`, `GroupedAt`). Each operation
changes the end of the path: it adds a level, changes the last one or removes
it. `TallyAppend`, `GroupPush` and `GroupPop` say what one more level adds;
`DividesPath`, `NextsPath` and `ExitsPath` what `splitCurrArea`, `nextPart` and
`exitCurrSplit` do to levels and counters, so that an exit undoes what the
split and the steps to its last part added (`PathInv`). `implicitBt` is counted up
by one condition (the split is the forced one) and down by another (a split was
forced): `ForcedIsTaken` is why they agree. For the groups, `Tree` says in
addition what is known of the prediction in each phase (`Predicted`): before the
first unit of a group the block at hand begins where the group does (`Begun`),
behind it the group's first unit is at `qgPos` (`Known`), also while the other of
two alternating trees is walked or a local chroma tree; and that trees, calls and
levels agree (`LevelCount`, `Trees`, `Waits`), without which an exit could leave the
wrong path.

`CodedOnce` and `ChecksHold` need the geometry. All areas lie on the grid of
smallest units with sides that are powers of two (`OnGrid`), and the parts of a
split tile the block (`PartsSplit`); the samples of an area are the units that it
`Hits`. `Geo` says of every level where its parts lie, what of the CTU is in
front of the current one, and what a block that the picture's edge crosses looks
like (`CutSound`): it and all blocks around it were divided because of the edge,
so its depth counts only implicit splits, it is dyadic and at least 8 long, and
the next forced split is always possible (`ForcedFit`); a
block that is not crossed is divided only as `canSplit` allows. That is why no CHECK fails
(`SplitSound`), for every size of picture, CTU and unit. `Covered` says which units
have been coded: those in parts before the current ones of the path, and the
current block if the walk has left it. The chroma of a local tree lags behind at
the level that `chromaNotSplit` stands at, the two trees of a CTU of 128 at the
level of the blocks of 64 (`CoversAlone`, `CoversPair`).

**Induction.** The library's induction theorems take an operator as a parameter,
which none of the installed provers can instantiate. `IntegerFacts` has first-order forms
instead: `StepsExist` (a function defined by steps exists and satisfies its
equation) and `InductionTo` (a set of numbers that is closed under steps holds
all numbers up to a bound). Recursion that a proof needs is written as a
recursive function for that reason (`encodeBinsEP`, `Escaped`, `Unescaped`,
`ExtractedUpTo` and others).

Model-checked only:

- `NalChannel`: that all units arrive, the liveness half of `Delivered`. Liveness
  under fairness and ENABLED are out of the prover's reach.
- `CodingTree`: `SmallBlocks` and `PipelineUnits`; `SliceData`: everything.

## Not modelled

Sample arithmetic (prediction, transforms, filters, quantisation) is data, and
the searches choose among correct streams; rate control and the encoder's filters
are floating point. SEI, HRD and profile syntax have no effect on decoding. The
bulk of `VLCReader` and `CABACReader` are tables of syntax elements whose reading
has no state. Layers, subpictures and field pairs add a dimension to every module
here and are left out throughout. These make up most of the lines of the
repository, in particular its longest files.

Seen while modelling and outside the models:

- `EncCu.cpp:1360-1412` revises the luma QPs of a local dual tree to one predicted
  QP, also if its units are quantization groups of their own.
- `EncAppCfg.cpp:3442` takes a remainder by `max(8, m_log2MinCuSize)`, a
  logarithm, where the message speaks of the size; the reader's own check
  (`VLCReader.cpp:1605`) has the size.
- Pictures that nothing references any more and that were not output stay in the
  list until an IDR picture.

## Plan

1. Done: decoder loop, output, parameter sets, reference pictures; arithmetic
   coder, NAL units and byte stream, slices and CTUs, coding tree; the proofs
   above.
2. Proofs: the parsing of `SliceData`.
3. Encoder scheduling (`EncLib`, `EncGOP`) as a producer of `CodedStream`, and
   `Parcat`'s renumbering of POCs as a producer of `ReferencePictures`' streams.
4. The HMVP table and its reset at CTU rows, in `SliceData`; transform splits in
   `Partitioner`.
