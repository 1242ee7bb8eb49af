----------------------------- MODULE SliceLayout -----------------------------
(***************************************************************************)
(* How a picture is cut into tiles and slices: the encoder's configuration *)
(* (EncAppCfg), its way through the PPS (VLCWriter, VLCReader), and the    *)
(* CTUs of each slice (PPS::initTiles, initRectSliceMap,                   *)
(* initRasterSliceMap).  CTUs and tiles are numbered from 0 in raster      *)
(* order, sequences from 1.                                                *)
(***************************************************************************)
EXTENDS Integers, SequencesExt

Total(sizes) == FoldLeft(+, 0, sizes)
Bounds(sizes) == [i \in 0..Len(sizes) |-> Total(SubSeq(sizes, 1, i))]
MinusOnes(sizes) == [i \in DOMAIN sizes |-> sizes[i] - 1]
PlusOnes(codes) == [i \in DOMAIN codes |-> codes[i] + 1]

-----------------------------------------------------------------------------
\* Tile sizes that repeat the one before them are not sent.
Trimmed(sizes) ==
    SubSeq(sizes, 1, Min({i \in DOMAIN sizes :
                            \A j \in i..Len(sizes) : sizes[j] = sizes[i]}))

\* Tile sizes end at the edge of the picture.
Fitted(sizes, total) ==
    LET bd == Bounds(sizes)
    IN  [i \in {k \in DOMAIN sizes : bd[k - 1] < total} |->
            Min({sizes[i], total - bd[i - 1]})]

\* initTiles: the last explicit size repeats, and the rest is the last tile.
initTiles(explicit, total) ==
    LET uniform == explicit[Len(explicit)]
        left    == total - Total(explicit)
    IN  explicit \o [i \in 1..(left \div uniform) |-> uniform]
                 \o (IF left % uniform = 0 THEN <<>> ELSE <<left % uniform>>)

\* The tile of each position between bounds.
TileAt(bd, num, total) ==
    [x \in 0..(total - 1) |->
        CHOOSE c \in 0..(num - 1) : x \in bd[c]..(bd[c + 1] - 1)]

\* The tiles of a picture of width times height CTUs.
Tiles(width, height, cols, rows) ==
    LET widths  == initTiles(cols, width)
        heights == initTiles(rows, height)
    IN  [width  |-> width, height |-> height, expCols |-> cols, expRows |-> rows,
         numCols |-> Len(widths), numRows |-> Len(heights),
         colBd  |-> Bounds(widths), rowBd |-> Bounds(heights),
         col |-> TileAt(Bounds(widths), Len(widths), width),
         row |-> TileAt(Bounds(heights), Len(heights), height)]

NumTiles(t) == t.numCols * t.numRows
ctuToTileCol(t, x) == t.col[x]
ctuToTileRow(t, y) == t.row[y]
TileRowHeight(t, r) == t.rowBd[r + 1] - t.rowBd[r]
TileIdx(t, ctu) ==
    ctuToTileRow(t, ctu \div t.width) * t.numCols
        + ctuToTileCol(t, (ctu % t.width))
ctuIsTileColBd(t, ctu) ==
    LET x == ctu % t.width IN x = t.colBd[ctuToTileCol(t, x)]
ctuIsTileRowBd(t, ctu) ==
    LET y == ctu \div t.width IN y = t.rowBd[ctuToTileRow(t, y)]

\* addCtusToSlice: the CTUs of a rectangle, in raster order.
CtusOf(t, startX, stopX, startY, stopY) ==
    LET w == stopX - startX
    IN  [k \in 1..(w * (stopY - startY)) |->
            (startY + (k - 1) \div w) * t.width + startX + ((k - 1) % w)]

CtusOfTile(t, tile) ==
    LET x == tile % t.numCols
        y == tile \div t.numCols
    IN  CtusOf(t, t.colBd[x], t.colBd[x + 1], t.rowBd[y], t.rowBd[y + 1])

-----------------------------------------------------------------------------
\* The tile that follows a slice unless an offset says otherwise.
NextTileIdx(t, s) ==
    LET next == s.tileIdx + s.width
    IN  IF next % t.numCols = 0 THEN next + (s.height - 1) * t.numCols ELSE next

\* The corners of slices of width times height tiles, cut at the edges.
FixedSlices(t, width, height) ==
    LET Put(w, tile) ==
            LET x == tile % t.numCols
                y == tile \div t.numCols
                right  == Min({x + width, t.numCols})
                bottom == Min({y + height, t.numRows})
            IN  IF tile < w.next THEN w
                ELSE [corners |-> Append(w.corners,
                          [start |-> t.rowBd[y] * t.width + t.colBd[x],
                           stop  |-> (t.rowBd[bottom] - 1) * t.width
                                       + t.colBd[right] - 1]),
                      next |-> NextTileIdx(t, [tileIdx |-> tile,
                                               width   |-> right - x,
                                               height  |-> bottom - y])]
    IN  FoldLeft(Put, [corners |-> <<>>, next |-> 0],
                 [i \in 1..NumTiles(t) |-> i - 1]).corners

\* Rectangular slices from the CTUs at their corners (m_rectSlicePos).
RectSlices(t, corners) ==
    LET TileX(ctu) == ctuToTileCol(t, ctu % t.width)
        TileY(ctu) == ctuToTileRow(t, ctu \div t.width)
        Size(c) == [tileIdx |-> TileIdx(t, c.start),
                    width   |-> TileX(c.stop) - TileX(c.start) + 1,
                    height  |-> TileY(c.stop) - TileY(c.start) + 1]
        sizes == [i \in DOMAIN corners |-> Size(corners[i])]
        OneTile(i) == sizes[i].width = 1 /\ sizes[i].height = 1
        InTile(i) == {j \in DOMAIN sizes : sizes[j] = sizes[i]}
    IN  [i \in DOMAIN corners |->
            [tileIdx |-> sizes[i].tileIdx,
             width   |-> sizes[i].width,
             height  |-> sizes[i].height,
             numInTile |-> IF OneTile(i) /\ i = Min(InTile(i))
                           THEN Cardinality(InTile(i)) ELSE 0,
             heightInCtu |-> IF OneTile(i)
                             THEN (corners[i].stop \div t.width)
                                    - (corners[i].start \div t.width) + 1
                             ELSE 0]]

\* needTileIdxDelta; the slices of one tile count as one.
NeedsTileIdxDelta(t, slices) ==
    \E i \in 2..Len(slices) :
        /\ slices[i].tileIdx # slices[i - 1].tileIdx
        /\ slices[i].tileIdx # NextTileIdx(t, slices[i - 1])

\* Raster slices: a number of tiles each; the last size repeats.
RasterSlices(t, sizes) == initTiles(Fitted(sizes, NumTiles(t)), NumTiles(t))

-----------------------------------------------------------------------------
\* Mutant: the last height is never sent.
NumExpSlicesButLast(heights) ==
    LET n == Len(heights)
    IN  IF n = 1 THEN 0
        ELSE Min({k \in 1..(n - 1) :
                    \A j \in k..(n - 2) : heights[j] = heights[j + 1]})

\* The slice heights in a tile that the reader cannot infer: the last one if
\* it is not larger than the one before, and then those that repeat.
NumExpSlices(heights) ==
    LET n == Len(heights)
        equal == {k \in 1..(n - 1) :
                    \A j \in k..(n - 2) : heights[j] = heights[j + 1]}
    IN  CASE n = 1 -> 0
          [] n > 1 /\ heights[n - 1] >= heights[n] -> Min(equal)
          [] OTHER -> n

HeightsInTile(slices, i) ==
    [j \in 1..slices[i].numInTile |-> slices[i + j - 1].heightInCtu]

\* The rectangular slices in the PPS.
SliceSyntax(t, slices, delta) ==
    LET n == Len(slices)
        Put(w, i) ==
            LET s == slices[i]
                splits == /\ s.width = 1 /\ s.height = 1
                          /\ TileRowHeight(t, s.tileIdx \div t.numCols) > 1
                heights == HeightsInTile(slices, i)
                expNum == NumExpSlices(heights)
                last == IF splits THEN i + s.numInTile - 1 ELSE i
            IN  IF i < w.next THEN w
                ELSE [next |-> last + 1,
                      out |-> w.out
                        \o (IF s.tileIdx % t.numCols # t.numCols - 1
                            THEN <<s.width - 1>> ELSE <<>>)
                        \o (IF /\ s.tileIdx \div t.numCols # t.numRows - 1
                               /\ (delta \/ s.tileIdx % t.numCols = 0)
                            THEN <<s.height - 1>> ELSE <<>>)
                        \o (IF splits
                            THEN <<expNum>>
                                 \o MinusOnes(SubSeq(heights, 1, expNum))
                            ELSE <<>>)
                        \o (IF delta /\ last < n
                            THEN <<slices[last + 1].tileIdx - s.tileIdx>>
                            ELSE <<>>)]
    IN  <<n - 1>>
        \o (IF n > 2 THEN <<IF delta THEN 1 ELSE 0>> ELSE <<>>)
        \o FoldLeft(Put, [out |-> <<>>, next |-> 1],
                    [i \in 1..(n - 1) |-> i]).out

\* The tiles and slices of a PPS.
PpsSyntax(pps) ==
    LET t == pps.tiles
    IN  <<Len(t.expCols) - 1, Len(t.expRows) - 1>>
        \o MinusOnes(t.expCols) \o MinusOnes(t.expRows)
        \o (IF NumTiles(t) > 1 THEN <<IF pps.rect THEN 1 ELSE 0>> ELSE <<>>)
        \o (IF pps.rect THEN <<0>> \o SliceSyntax(t, pps.slices, pps.delta)
            ELSE <<>>)

-----------------------------------------------------------------------------
\* The slices in a PPS; code beyond its end reads as 0.
ReadSlices(t, code) ==
    LET At(pos) == IF pos \in DOMAIN code THEN code[pos] ELSE 0
        n     == code[1] + 1
        delta == n > 2 /\ code[2] = 1
        Get(r, i) ==
            LET row  == r.tileIdx \div t.numCols
                col  == r.tileIdx % t.numCols
                tall == TileRowHeight(t, row)
                hasWidth  == col # t.numCols - 1
                hasHeight == row # t.numRows - 1 /\ (delta \/ col = 0)
                atHeight  == IF hasWidth THEN r.pos + 1 ELSE r.pos
                atSplit   == IF hasHeight THEN atHeight + 1 ELSE atHeight
                width  == IF hasWidth THEN At(r.pos) + 1 ELSE 1
                height == CASE hasHeight -> At(atHeight) + 1
                            [] row = t.numRows - 1 -> 1
                            [] OTHER -> Last(r.slices).height
                oneTile == width = 1 /\ height = 1
                splits  == oneTile /\ tall > 1
                numExp  == IF splits THEN At(atSplit) ELSE 0
                explicit == [j \in 1..numExp |-> At(atSplit + j) + 1]
                heights == IF numExp = 0 THEN <<tall>>
                           ELSE initTiles(explicit, tall)
                atDelta == IF splits THEN atSplit + 1 + numExp ELSE atSplit
                new == [j \in DOMAIN heights |->
                           [tileIdx |-> r.tileIdx, width |-> width,
                            height |-> height,
                            numInTile |-> Len(heights),
                            heightInCtu |-> heights[j]]]
                more == delta /\ Len(r.slices) + Len(new) < n
            IN  IF Len(r.slices) >= i THEN r
                ELSE [slices  |-> r.slices \o new,
                      pos     |-> IF more THEN atDelta + 1 ELSE atDelta,
                      tileIdx |-> IF delta
                                  THEN r.tileIdx
                                         + (IF more THEN At(atDelta) ELSE 0)
                                  ELSE NextTileIdx(t, Last(new))]
        read == FoldLeft(Get, [slices |-> <<>>, tileIdx |-> 0,
                               pos |-> IF n > 2 THEN 3 ELSE 2],
                         [i \in 1..(n - 1) |-> i])
    IN  IF Len(read.slices) >= n THEN read.slices
        ELSE Append(read.slices,
                    [tileIdx |-> read.tileIdx, width |-> 1, height |-> 1,
                     numInTile |-> 1, heightInCtu |-> 0])

\* A PPS read in a picture of width times height CTUs.
ParsedPps(width, height, code) ==
    LET numCols == code[1] + 1
        numRows == code[2] + 1
        cols  == PlusOnes(SubSeq(code, 3, numCols + 2))
        rows  == PlusOnes(SubSeq(code, numCols + 3, numCols + numRows + 2))
        tiles == Tiles(width, height, cols, rows)
        rest  == SubSeq(code, numCols + numRows + 3, Len(code))
        hasRect == NumTiles(tiles) > 1
        rect  == hasRect => rest[1] = 1
        slicesAt == IF hasRect THEN 3 ELSE 2
    IN  [tiles  |-> tiles, rect |-> rect,
         slices |-> IF rect
                    THEN ReadSlices(tiles, SubSeq(rest, slicesAt, Len(rest)))
                    ELSE <<>>]

-----------------------------------------------------------------------------
\* initRectSliceMap: the CTUs of each slice; the last slice takes the rest
\* of the picture, and the last slice of a tile the rest of the tile.
initRectSliceMap(t, slices) ==
    LET n == Len(slices)
        Row(i) == slices[i].tileIdx \div t.numCols
        Col(i) == slices[i].tileIdx % t.numCols
        FirstInTile(i) == Min({j \in 1..i : slices[j].tileIdx = slices[i].tileIdx})
        Sized(i) == IF i = n /\ FirstInTile(i) = i
                    THEN [slices[i] EXCEPT !.width  = t.numCols - Col(i),
                                           !.height = t.numRows - Row(i),
                                           !.numInTile = 1]
                    ELSE slices[i]
        WholeTiles(s) ==
            FlattenSeq([k \in 1..(s.width * s.height) |->
                CtusOfTile(t, s.tileIdx + ((k - 1) \div s.width) * t.numCols
                                        + ((k - 1) % s.width))])
        PartOfTile(i) ==
            LET first == FirstInTile(i)
                top(j) == t.rowBd[Row(i)]
                            + Total([k \in 1..(j - first) |->
                                        slices[first + k - 1].heightInCtu])
                isLast == i = first + Sized(first).numInTile - 1
            IN  CtusOf(t, t.colBd[Col(i)], t.colBd[Col(i) + 1], top(i),
                       IF isLast THEN t.rowBd[Row(i) + 1] ELSE top(i + 1))
    IN  [i \in 1..n |->
            IF Sized(i).width > 1 \/ Sized(i).height > 1
            THEN WholeTiles(Sized(i)) ELSE PartOfTile(i)]

\* The CTUs of num tiles in raster order.
RasterSlice(t, first, num) ==
    FlattenSeq([k \in 1..num |-> CtusOfTile(t, first + k - 1)])

initRasterSliceMap(t, sizes) ==
    [i \in DOMAIN sizes |-> RasterSlice(t, Bounds(sizes)[i - 1], sizes[i])]

checkSliceMap(t, sliceMap) ==
    LET ctus == FlattenSeq(sliceMap)
    IN  /\ Len(ctus) = t.width * t.height
        /\ {ctus[k] : k \in DOMAIN ctus} = 0..(t.width * t.height - 1)

-----------------------------------------------------------------------------
\* The address in the header of slice i, and the tiles of a raster slice.
SliceAddressSyntax(pps, i) ==
    LET first == Bounds(pps.sizes)[i - 1]
    IN  IF pps.rect THEN IF Len(pps.slices) > 1 THEN <<i - 1>> ELSE <<>>
        ELSE <<first>> \o (IF NumTiles(pps.tiles) - first > 1
                            THEN <<pps.sizes[i] - 1>> ELSE <<>>)

\* The CTUs of the slice whose header the reader has before it.
ParsedSlice(pps, sliceMap, code) ==
    LET address == IF code = <<>> THEN 0 ELSE code[1]
        hasNum  == NumTiles(pps.tiles) - address > 1
    IN  IF pps.rect THEN sliceMap[address + 1]
        ELSE RasterSlice(pps.tiles, address, IF hasNum THEN code[2] + 1 ELSE 1)

=============================================================================
