------------------------------ MODULE SliceData ------------------------------
(***************************************************************************)
(* One picture cut into tiles and slices, from the encoder's configuration *)
(* to the CTUs of the decoder: the search (EncSlice::encodeCtus) chooses   *)
(* QPs and palettes, the writer (EncSlice::encodeSlice) puts the CTUs into *)
(* substreams, and the reader (DecSlice::decompressSlice) takes them out.  *)
(* Each of the three walks over the CTUs with state of its own: the QP     *)
(* before, the entropy coding contexts, the palette predictor; each resets *)
(* and synchronises it by rules of its own.                                *)
(*                                                                         *)
(* A CTU is one quantization group with one coding unit.  Contexts are the *)
(* CTUs coded since they were initialised.  A palette is a sequence of     *)
(* colours, a colour the CTU that first used it.                           *)
(***************************************************************************)
EXTENDS SliceLayout

CONSTANTS MaxSize,      \* of a picture in CTUs, both ways
          MaxCtus,      \* in a picture
          MaxExplicit,  \* tile columns and rows that the configuration lists
          MaxDataCtus,  \* pictures whose data is coded have at most so many
          MaxCoded,     \* CTUs that are not skipped
          SliceQp, Qps, \* of the slices, and those the search chooses from
          Allow         \* what the search may use, see MayCode

Sizes == 1..MaxSize
Listed == SeqOf(Sizes, MaxExplicit) \ {<<>>}
MaxQp == 63
QpBdOffset == 12              \* of ten bits
MaxPltPredSize == 3           \* stands for MAXPLTPREDSIZE
Garbage == <<-1>>             \* what a buffer holds that was never stored

VARIABLES
    phase,      \* "layout", "pps", "sent", "search", "write", "read"
    tiles,      \* of the picture
    corners,    \* of the rectangular slices configured so far
    pps,        \* of the encoder, and as the decoder has parsed it
    parsedPps,
    sliceMap,   \* the CTUs of each slice
    received,   \* the same, in the decoder
    sps,        \* entropy_coding_sync_enabled, entry_points_present
    search,     \* of the search: QP before, palette predictor and its copy
    ctus,       \* of the search: the CTUs coded
    slices,     \* the slices written
    parsed      \* of the reader: the CTUs, and whether all could be parsed

config == <<tiles, corners, pps, parsedPps>>
maps == <<sliceMap, received>>
vars == <<phase, config, maps, sps, search, ctus, slices, parsed>>

-----------------------------------------------------------------------------
Start == [qp |-> SliceQp, plt |-> <<>>, pltSync |-> Garbage]

Init ==
    /\ \E w, h \in Sizes, cols, rows \in Listed :
            /\ w * h <= MaxCtus
            /\ tiles = Tiles(w, h, Fitted(Trimmed(cols), w),
                                   Fitted(Trimmed(rows), h))
    /\ phase = "layout" /\ corners = <<>>
    /\ pps = <<>> /\ parsedPps = <<>>
    /\ sliceMap = <<>> /\ received = <<>>
    /\ sps = [wpp |-> FALSE, entryPoints |-> FALSE]
    /\ search = Start /\ ctus = <<>>
    /\ slices = <<>> /\ parsed = [ctus |-> <<>>, inStep |-> TRUE]

Range0(s) == {s[i] : i \in DOMAIN s}
NumCtus == tiles.width * tiles.height
Rectangle(c) ==
    {y * tiles.width + x : x \in (c.start % tiles.width)..(c.stop % tiles.width),
                           y \in (c.start \div tiles.width)
                                    ..(c.stop \div tiles.width)}
Covered == UNION {Rectangle(corners[i]) : i \in DOMAIN corners}

\* A rectangle of what is not covered yet, where everything left of it and
\* above is covered.
Fits(c, covered) ==
    LET inside == Rectangle(c)
        below  == covered \cup inside
    IN  /\ inside \cap covered = {}
        /\ \A ctu \in inside :
              /\ ctu % tiles.width = 0 \/ ctu - 1 \in below
              /\ ctu < tiles.width \/ ctu - tiles.width \in below

Corners(left, right, top, bottom) ==
    [start |-> top * tiles.width + left,
     stop  |-> (bottom - 1) * tiles.width + right - 1]

\* m_rectSlicePos: a slice of whole tiles.
AddSlice ==
    /\ phase = "layout"
    /\ LET covered == Covered IN
       \E w \in 1..tiles.numCols, h \in 1..tiles.numRows :
       \E x \in 0..(w - 1), y \in 0..(h - 1) :
        LET c == Corners(tiles.colBd[x], tiles.colBd[w],
                         tiles.rowBd[y], tiles.rowBd[h])
        IN  /\ Fits(c, covered)
            /\ corners' = Append(corners, c)
    /\ UNCHANGED <<phase, tiles, pps, parsedPps, maps, sps, search, ctus, slices, parsed>>

\* m_rectSlicePos: the slices that divide a tile.
AddSlicesInTile ==
    /\ phase = "layout"
    /\ \E x \in 0..(tiles.numCols - 1), y \in 0..(tiles.numRows - 1) :
       LET top    == tiles.rowBd[y]
           bottom == tiles.rowBd[y + 1]
       IN  \E cuts \in SUBSET ((top + 1)..(bottom - 1)) \ {{}} :
            LET bd == SetToSortSeq(cuts \cup {top, bottom}, <)
                Part(from, to) == Corners(tiles.colBd[x], tiles.colBd[x + 1],
                                          from, to)
            IN  /\ Fits(Part(top, bottom), Covered)
                /\ corners' = corners
                        \o [j \in 1..(Len(bd) - 1) |-> Part(bd[j], bd[j + 1])]
    /\ UNCHANGED <<phase, tiles, pps, parsedPps, maps, sps, search, ctus, slices, parsed>>

\* The PPS and the CTUs of its slices, and what the decoder reads.
Send(p, map) ==
    /\ phase' = "pps"
    /\ pps' = p
    /\ parsedPps' = ParsedPps(tiles.width, tiles.height, PpsSyntax(p))
    /\ sliceMap' = map
    /\ UNCHANGED <<tiles, corners, received, sps, search, ctus, slices, parsed>>

SendRect(positions) ==
    LET rects == RectSlices(tiles, positions)
    IN  Send([tiles |-> tiles, rect |-> TRUE, slices |-> rects, sizes |-> <<>>,
              delta |-> NeedsTileIdxDelta(tiles, rects)],
             initRectSliceMap(tiles, rects))

SendConfigured ==
    /\ phase = "layout"
    /\ Cardinality(Covered) = NumCtus
    /\ SendRect(corners)

\* m_rectSliceFixedWidth, m_rectSliceFixedHeight
SendFixed ==
    /\ phase = "layout" /\ corners = <<>>
    /\ \E w, h \in Sizes : SendRect(FixedSlices(tiles, w, h))

\* m_rasterSliceFlag, m_rasterSliceSize; with one tile the PPS has no room
\* to say that its slices are not rectangles.
SendRaster ==
    /\ phase = "layout" /\ corners = <<>>
    /\ NumTiles(tiles) > 1
    /\ \E listed \in Listed :
        LET sizes == RasterSlices(tiles, listed)
        IN  Send([tiles |-> tiles, rect |-> FALSE, slices |-> <<>>,
                  sizes |-> sizes, delta |-> FALSE],
                 initRasterSliceMap(tiles, sizes))

\* The slice headers, and the CTUs of the slice the decoder finds for each.
SendHeaders ==
    /\ phase = "pps"
    /\ phase' = "sent"
    /\ LET map == IF parsedPps.rect
                  THEN initRectSliceMap(parsedPps.tiles, parsedPps.slices)
                  ELSE <<>>
       IN  received' = [i \in DOMAIN sliceMap |->
                ParsedSlice(parsedPps, map, SliceAddressSyntax(pps, i))]
    /\ UNCHANGED <<config, sliceMap, sps, search, ctus, slices, parsed>>

-----------------------------------------------------------------------------
StartsRow(c) == ctuIsTileColBd(tiles, c)
StartsTile(c) == ctuIsTileColBd(tiles, c) /\ ctuIsTileRowBd(tiles, c)
SameTile(c, d) == TileIdx(tiles, c) = TileIdx(tiles, d)
Above(c) == c - tiles.width

\* getCURestricted: the CTU above is of the same slice and tile.
AboveAvailable(slice, c) ==
    /\ Above(c) \in Range0(slice)
    /\ SameTile(Above(c), c)

\* In the first column of a tile the QP above comes first.
predictQP(slice, c, qp, prevQP) ==
    IF StartsRow(c) /\ AboveAvailable(slice, c) THEN qp[Above(c)] ELSE prevQP

\* The palette of a CU: colours it reuses and those that are new.
Palette(plt, reuse, new) ==
    LET kept == SetToSortSeq(reuse \cap DOMAIN plt, <)
    IN  [i \in DOMAIN kept |-> plt[kept[i]]] \o new

\* The predictor: the palette and then what it did not reuse, as far as it fits.
reorderPrevPLT(plt, reuse, new) ==
    LET cur  == Palette(plt, reuse, new)
        rest == SetToSortSeq(DOMAIN plt \ reuse, <)
        room == Min({MaxPltPredSize - Len(cur), Len(rest)})
    IN  cur \o [i \in 1..room |-> plt[rest[i]]]

-----------------------------------------------------------------------------
Order == FlattenSeq(sliceMap)
SliceOf(c) == CHOOSE i \in DOMAIN sliceMap : c \in Range0(sliceMap[i])

\* SPS flags; only small pictures are coded.
StartPicture ==
    /\ phase = "sent"
    /\ NumCtus <= MaxDataCtus
    /\ phase' = "search"
    /\ sps' \in [wpp : BOOLEAN, entryPoints : BOOLEAN]
    /\ UNCHANGED <<config, maps, search, ctus, slices, parsed>>

\* encodeCtus: the search at the start of a CTU.
EnteredBySearch(s, slice, c) ==
    CASE StartsTile(c) -> [s EXCEPT !.qp = SliceQp, !.plt = <<>>]
      [] StartsRow(c) /\ ~StartsTile(c) /\ sps.wpp ->
            [s EXCEPT !.qp = SliceQp,
                      !.plt = IF AboveAvailable(slice, c) THEN s.pltSync
                              ELSE <<>>]
      [] OTHER -> [s EXCEPT !.qp = IF c = slice[1] THEN SliceQp ELSE s.qp]

Skip == [residual |-> FALSE, qp |-> SliceQp, reuse |-> {}, new |-> <<>>]

\* What a CTU may be coded as.  Two combinations are left out unless Allow
\* has them, since the search and the writer or the reader disagree there.
MayCode(slice, c, plt) ==
    {Skip} \cup
    IF Cardinality({d \in DOMAIN ctus : ctus[d].coded}) >= MaxCoded THEN {}
    ELSE (IF \/ "tilesInSlice" \in Allow
             \/ \A d \in Range0(slice) : SameTile(d, c)
          THEN {[Skip EXCEPT !.residual = TRUE, !.qp = q] : q \in Qps} ELSE {})
         \cup
         (IF \/ "sliceInTile" \in Allow
             \/ sps.wpp
             \/ \A i \in DOMAIN sliceMap : StartsTile(sliceMap[i][1])
          THEN {[Skip EXCEPT !.reuse = r, !.new = <<c>>] : r \in SUBSET DOMAIN plt}
          ELSE {})

\* encodeCtus, compressCtu, xCheckDQP: a CTU without residual has the
\* predicted QP.
CompressCtu ==
    /\ phase = "search"
    /\ Cardinality(DOMAIN ctus) < NumCtus
    /\ LET c     == Order[Cardinality(DOMAIN ctus) + 1]
           slice == sliceMap[SliceOf(c)]
           s     == EnteredBySearch(search, slice, c)
           pred  == predictQP(slice, c, [d \in DOMAIN ctus |-> ctus[d].qp], s.qp)
       IN  \E kind \in MayCode(slice, c, s.plt) :
            LET qp  == IF kind.residual THEN kind.qp ELSE pred
                plt == reorderPrevPLT(s.plt, kind.reuse, kind.new)
            IN  /\ ctus' = [d \in DOMAIN ctus \cup {c} |->
                              IF d # c THEN ctus[d]
                              ELSE [qp |-> qp, residual |-> kind.residual,
                                    reuse |-> kind.reuse, new |-> kind.new,
                                    lastPLTSize |-> Len(s.plt),
                                    colours |-> Palette(s.plt, kind.reuse, kind.new),
                                    coded |-> kind # Skip]]
                /\ search' = [qp |-> qp, plt |-> plt,
                              pltSync |-> IF StartsRow(c) /\ sps.wpp THEN plt
                                          ELSE s.pltSync]
    /\ UNCHANGED <<phase, config, maps, sps, slices, parsed>>

EndSearch ==
    /\ phase = "search"
    /\ DOMAIN ctus = 0..(NumCtus - 1)
    /\ phase' = "write"
    /\ UNCHANGED <<config, maps, sps, search, ctus, slices, parsed>>
-----------------------------------------------------------------------------
\* cu_qp_delta of the writer: the difference, wrapped to its range.
QpDelta(qp, pred) ==
    LET half == (MaxQp + 1) \div 2 + QpBdOffset \div 2
    IN  ((qp - pred + MaxQp + 1 + QpBdOffset + half)
             % (MaxQp + 1 + QpBdOffset)) - half

\* Mutant: one bit depth offset is not enough for the smallest sum.
QpFromOnce(delta, pred) ==
    IF delta = 0 THEN pred
    ELSE ((pred + delta + MaxQp + 1) % (MaxQp + 1 + QpBdOffset)) - QpBdOffset

\* cu_qp_delta of the reader.
QpFrom(delta, pred) ==
    IF delta = 0 THEN pred
    ELSE ((pred + delta + MaxQp + 1 + 2 * QpBdOffset)
              % (MaxQp + 1 + QpBdOffset)) - QpBdOffset

End == [ctx |-> <<>>, dqp |-> 0, lastPLTSize |-> 0, reuse |-> {}, new |-> <<>>,
        end |-> TRUE]

\* Mutant: rows with contexts of their own are in the substream of the tile.
EndsSubstreamAtTiles(slice, k) ==
    k = Len(slice) \/ ~SameTile(slice[k], slice[k + 1])

\* encodeSlice: isLastCTUsinSlice, isLastCTUinTile, isLastCTUinWPP.
EndsSubstream(slice, k) ==
    \/ k = Len(slice)
    \/ ~SameTile(slice[k], slice[k + 1])
    \/ sps.wpp /\ StartsRow(slice[k + 1])

\* encodeSlice: the contexts at the start of a CTU.  The QP is not reset.
EnteredByWriter(w, slice, k) ==
    LET c == slice[k]
    IN  CASE StartsTile(c) -> [w EXCEPT !.ctx = <<>>]
          [] ~StartsTile(c) /\ StartsRow(c) /\ sps.wpp ->
                [w EXCEPT !.ctx = IF AboveAvailable(slice, c) THEN w.ctxSync
                                  ELSE <<>>]
          [] OTHER -> w

\* encodeSlice: the substreams of a slice.
Substreams(slice) ==
    LET Put(s, k) ==
            LET c    == slice[k]
                w    == EnteredByWriter(s, slice, k)
                pred == predictQP(slice, c, [d \in DOMAIN ctus |-> ctus[d].qp],
                                  w.qp)
                item == [ctx |-> w.ctx, lastPLTSize |-> ctus[c].lastPLTSize,
                         reuse |-> ctus[c].reuse, new |-> ctus[c].new,
                         end |-> FALSE,
                         dqp |-> IF ctus[c].residual
                                 THEN QpDelta(ctus[c].qp, pred) ELSE 0]
                ctx  == Append(w.ctx, c)
                ends == EndsSubstream(slice, k)
                open == Append(w.open, item)
            IN  [qp   |-> IF ctus[c].residual THEN ctus[c].qp ELSE pred,
                 ctx  |-> ctx,
                 ctxSync |-> IF StartsRow(c) /\ sps.wpp THEN ctx ELSE w.ctxSync,
                 open |-> IF ends THEN <<>> ELSE open,
                 subs |-> IF ends THEN Append(w.subs, Append(open, End))
                          ELSE w.subs]
    IN  FoldLeft(Put, [qp |-> SliceQp, ctx |-> <<>>, ctxSync |-> Garbage,
                       open |-> <<>>, subs |-> <<>>],
                 [k \in 1..Len(slice) |-> k]).subs

\* Mutant: tiles only.
setNumEntryPointsOfTiles(slice) ==
    IF ~sps.entryPoints THEN 0
    ELSE Cardinality({k \in 2..Len(slice) : ~SameTile(slice[k - 1], slice[k])})

setNumEntryPoints(slice) ==
    IF ~sps.entryPoints THEN 0
    ELSE Cardinality({k \in 2..Len(slice) :
            \/ ~SameTile(slice[k - 1], slice[k])
            \/ sps.wpp /\ slice[k - 1] \div tiles.width # slice[k] \div tiles.width})

setNumSubstream(slice) ==
    Cardinality({k \in 2..Len(slice) :
        StartsTile(slice[k]) \/ (sps.wpp /\ StartsRow(slice[k]))})

\* The substreams allocated for a picture.
AllocatedSubstreams ==
    Max({tiles.numCols * (IF sps.wpp THEN tiles.height ELSE tiles.numRows),
         Len(sliceMap)})

\* encodeSlice, codeTilesWPPEntryPoint: a slice with the number of entry
\* points in its header.
EncodeSlice ==
    /\ phase = "write"
    /\ Len(slices) < Len(sliceMap)
    /\ LET slice == sliceMap[Len(slices) + 1]
           subs  == Substreams(slice)
           sizes == IF sps.entryPoints THEN Len(subs) - 1 ELSE 0
       IN  slices' = Append(slices,
                [subs |-> subs,
                 sizes |-> IF setNumEntryPoints(slice) = 0 THEN 0 ELSE sizes])
    /\ UNCHANGED <<phase, config, maps, sps, search, ctus, parsed>>

EndWrite ==
    /\ phase = "write"
    /\ Len(slices) = Len(sliceMap)
    /\ phase' = "read"
    /\ UNCHANGED <<config, maps, sps, search, ctus, slices, parsed>>

-----------------------------------------------------------------------------
\* extractSubstream: as many substreams as there are entry points, and the rest.
Extracted(subs, numEntryPoints) ==
    LET n == Min({numEntryPoints, Len(subs)})
    IN  Append(SubSeq(subs, 1, n), FlattenSeq(SubSeq(subs, n + 1, Len(subs))))

\* Mutant: the predictor of a row is not that of the row above.
EnteredByReaderEmpty(r, slice, k) ==
    LET c == slice[k]
    IN  CASE StartsTile(c) -> [r EXCEPT !.ctx = <<>>, !.plt = <<>>, !.qp = SliceQp]
          [] ~StartsTile(c) /\ StartsRow(c) /\ sps.wpp ->
                [r EXCEPT !.ctx = IF AboveAvailable(slice, c) THEN r.ctxSync
                                  ELSE <<>>,
                          !.plt = <<>>, !.qp = SliceQp]
          [] OTHER -> r

\* decompressSlice: contexts, predictor and QP at the start of a CTU.
EnteredByReader(r, slice, k) ==
    LET c == slice[k]
    IN  CASE StartsTile(c) -> [r EXCEPT !.ctx = <<>>, !.plt = <<>>, !.qp = SliceQp]
          [] ~StartsTile(c) /\ StartsRow(c) /\ sps.wpp ->
                IF AboveAvailable(slice, c)
                THEN [r EXCEPT !.ctx = r.ctxSync, !.plt = r.pltSync, !.qp = SliceQp]
                ELSE [r EXCEPT !.ctx = <<>>, !.plt = <<>>, !.qp = SliceQp]
          [] OTHER -> r

\* decompressSlice: the CTU is the last of its tile, or of its row in it.
LastInTile(c) ==
    LET x == c % tiles.width
        y == c \div tiles.width
    IN  /\ x + 1 = tiles.colBd[ctuToTileCol(tiles, x) + 1]
        /\ y + 1 = tiles.rowBd[ctuToTileRow(tiles, y) + 1] \/ sps.wpp

\* decompressSlice: the CTUs of a slice, and whether what was read was what
\* the writer wrote there, with the same contexts, to the end of each stream.
ReadSlice(slice, subs, numEntryPoints) ==
    LET streams == Extracted(subs, numEntryPoints)
        At(strm, pos) == IF strm \in DOMAIN streams /\ pos \in DOMAIN streams[strm]
                         THEN streams[strm][pos] ELSE End
        Get(s, k) ==
            LET c    == slice[k]
                r    == EnteredByReader(s, slice, k)
                item == At(r.strm, r.pos)
                pred == predictQP(slice, c, [d \in DOMAIN r.ctus |-> r.ctus[d].qp],
                                  r.qp)
                qp   == QpFrom(item.dqp, pred)
                ctu  == [qp |-> qp, colours |-> Palette(r.plt, item.reuse, item.new)]
                ctx  == Append(r.ctx, c)
                plt  == reorderPrevPLT(r.plt, item.reuse, item.new)
                last == k = Len(slice)
                ends == last \/ LastInTile(c)
                next == ends /\ ~last /\ sps.entryPoints
            IN  [qp |-> qp, plt |-> plt, ctx |-> ctx,
                 ctxSync |-> IF StartsRow(c) /\ sps.wpp THEN ctx ELSE r.ctxSync,
                 pltSync |-> IF StartsRow(c) /\ sps.wpp THEN plt ELSE r.pltSync,
                 ctus |-> [d \in DOMAIN r.ctus \cup {c} |->
                             IF d = c THEN ctu ELSE r.ctus[d]],
                 strm |-> IF next THEN r.strm + 1 ELSE r.strm,
                 pos  |-> CASE next -> 1
                            [] ends /\ ~next -> r.pos + 2
                            [] OTHER -> r.pos + 1,
                 inStep |-> /\ r.inStep /\ ~item.end /\ item.ctx = r.ctx
                            /\ item.new # <<>> => item.lastPLTSize = Len(r.plt)
                            /\ ends => At(r.strm, r.pos + 1).end]
        end == FoldLeft(Get, [qp |-> SliceQp, plt |-> <<>>, ctx |-> <<>>,
                              ctxSync |-> Garbage, pltSync |-> Garbage,
                              ctus |-> parsed.ctus, strm |-> 1, pos |-> 1,
                              inStep |-> parsed.inStep],
                        [k \in 1..Len(slice) |-> k])
    IN  [ctus |-> end.ctus,
         inStep |-> /\ end.inStep
                    /\ end.strm = Len(streams)
                    /\ end.pos > Len(streams[end.strm])]

\* The reader takes the slices as they come.
DecodeSlice ==
    /\ phase = "read"
    /\ slices # <<>>
    /\ LET i     == Len(sliceMap) - Len(slices) + 1
           slice == received[i]
       IN  parsed' = ReadSlice(slice, slices[1].subs, setNumEntryPoints(slice))
    /\ slices' = Tail(slices)
    /\ UNCHANGED <<phase, config, maps, sps, search, ctus>>

Next ==
    \/ AddSlice \/ AddSlicesInTile \/ SendConfigured \/ SendFixed \/ SendRaster
    \/ SendHeaders \/ StartPicture \/ CompressCtu \/ EndSearch
    \/ EncodeSlice \/ EndWrite \/ DecodeSlice

Spec == Init /\ [][Next]_vars

-----------------------------------------------------------------------------
\* Slices divide the picture, and the decoder finds in the PPS and the slice
\* headers the slices the encoder was configured with (HLSWriter::codePPS,
\* HLSyntaxReader::parsePPS, PPS::initRectSliceMap, parseSliceHeader).
LayoutRecovered ==
    phase = "sent" => /\ received = sliceMap
                      /\ checkSliceMap(tiles, sliceMap)

\* Three counts of the substreams of a slice agree: what the encoder writes,
\* what it announces as entry points, and what the decoder expects; and there
\* was room for them (encodeSlice, setNumEntryPoints, setNumSubstream).
EntryPointsMatch ==
    phase = "write" =>
        \A i \in DOMAIN slices :
            /\ slices[i].sizes = setNumEntryPoints(sliceMap[i])
            /\ Len(slices[i].subs) = setNumSubstream(sliceMap[i]) + 1
            /\ sps.entryPoints => Len(slices[i].subs) = slices[i].sizes + 1
            /\ Len(slices[i].subs) <= AllocatedSubstreams

\* The reader is in every CTU where the writer was, with the same contexts,
\* and finds the end of a substream where there is one (decompressSlice,
\* CABACReader::terminating_bit).
ParsedInStep == parsed.inStep

\* The QP of every CTU read is the one the search quantised with (predictQP,
\* cu_qp_delta).
QpRecovered == \A c \in DOMAIN parsed.ctus : parsed.ctus[c].qp = ctus[c].qp

\* So are the colours of its palette (reorderPrevPLT, cu_palette_info).
PalettesRecovered ==
    \A c \in DOMAIN parsed.ctus : parsed.ctus[c].colours = ctus[c].colours
=============================================================================
