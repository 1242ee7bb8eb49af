----------------------------- MODULE Partitioner -----------------------------
(***************************************************************************)
(* QTBTPartitioner: the path from a CTU to one of its coding units.  A     *)
(* level holds the parts of a split and which of them is current; depths   *)
(* and the position of the quantization group are kept beside the levels,  *)
(* and changed along with them.                                            *)
(*                                                                         *)
(* cs is what does not change in a CTU: its size, the size minCu of the    *)
(* smallest coding unit, the picture that may end inside the CTU, chroma   *)
(* format, slice type, dual tree flag, split limits and the depth of       *)
(* quantization groups.  Areas are in luma samples.                        *)
(***************************************************************************)
EXTENDS Integers, SequencesExt

Bt == {"bh", "bv"}      \* in two, horizontally or vertically
Tt == {"th", "tv"}      \* in three: a quarter, a half, a quarter
Btt == Bt \cup Tt
Splits == {"no", "qt"} \cup Btt
MaxTb == 64             \* MAX_TB_SIZEY
MinTb == 4              \* MIN_TB_SIZEY

Larger(a, b) == IF a > b THEN a ELSE b

\* getComponentScaleX, getComponentScaleY
ScaleX(cs) == IF cs.format \in {"420", "422"} THEN 2 ELSE 1
ScaleY(cs) == IF cs.format = "420" THEN 2 ELSE 1
ChromaWidth(cs, a) == a.w \div ScaleX(cs)
ChromaSize(cs, a) == (a.w * a.h) \div (ScaleX(cs) * ScaleY(cs))

isDualITree(cs) == cs.intra /\ cs.dual
Limits(cs, chType) ==
    cs.limits[IF ~cs.intra THEN "inter"
              ELSE IF cs.dual THEN chType ELSE "luma"]

-----------------------------------------------------------------------------
PartLevel(split, parts, qg) ==
    [split |-> split, parts |-> parts, idx |-> 0, implicit |-> "unknown",
     qg |-> qg]

initCtu(cs, chType) ==
    LET ctu == [x |-> 0, y |-> 0, w |-> cs.ctu, h |-> cs.ctu] IN
    [levels |-> <<PartLevel("ctu", <<ctu>>, TRUE)>>,
     chType |-> chType, treeType |-> "D", modeType |-> "all",
     qt |-> 0, bt |-> 0, mt |-> 0, implicitBt |-> 0, subdiv |-> 0,
     qgPos |-> <<0, 0>>]

Level(p) == Last(p.levels)
currArea(p) == Level(p).parts[Level(p).idx + 1]
Pos(a) == <<a.x, a.y>>

HasBottomLeft(cs, a) == a.y + a.h <= cs.height
HasTopRight(cs, a) == a.x + a.w <= cs.width
InPicture(cs, a) == a.x < cs.width /\ a.y < cs.height

\* Mutant: the splits forced by the boundary use up the depth.
ShallowCounting(cs, p) == p.mt < Limits(cs, p.chType).maxMtt

\* currMtDepth against the limit, which the implicit splits do not count in.
Shallow(cs, p) == p.mt < Limits(cs, p.chType).maxMtt + p.implicitBt

\* The split that the picture's boundary forces upon a block, or "no".
ForcedSplit(cs, p) ==
    LET a   == currArea(p)
        lim == Limits(cs, p.chType)
        bl  == HasBottomLeft(cs, a)
        tr  == HasTopRight(cs, a)
        btAllowed == Larger(a.w, a.h) <= lim.maxBt /\ Shallow(cs, p)
        qtAllowed == a.w > lim.minQt /\ a.h > lim.minQt /\ p.bt = 0
    IN  IF isDualITree(cs) /\ Larger(a.w, a.h) > 64 THEN "qt"
        ELSE IF ~bl /\ ~tr /\ qtAllowed THEN "qt"
        ELSE IF ~bl /\ btAllowed /\ a.w <= MaxTb THEN "bh"
        ELSE IF ~tr /\ btAllowed /\ a.h <= MaxTb THEN "bv"
        ELSE IF ~bl \/ ~tr THEN "qt"
        ELSE "no"

getImplicitSplit(cs, p) ==
    IF Level(p).implicit # "unknown" THEN Level(p).implicit
    ELSE ForcedSplit(cs, p)

\* What the node remembers once it was asked for its implicit split.
Checked(cs, p) ==
    [p EXCEPT !.levels[Len(p.levels)].implicit = getImplicitSplit(cs, p)]

\* Sides of an area: the one that a split divides, and the other.
Divided(split, a) == IF split \in {"bh", "th"} THEN a.h ELSE a.w
Kept(split, a) == IF split \in {"bh", "th"} THEN a.w ELSE a.h
MiddleOf(p, split) == Level(p).split = split /\ Level(p).idx = 1

\* Mutant: off by one.
DividesAbove64(split, a) == ~(Kept(split, a) > MaxTb /\ Divided(split, a) < MaxTb)

\* A block longer than 64 is not made thinner than 64.
DividesAlong64(split, a) == ~(Kept(split, a) > MaxTb /\ Divided(split, a) <= MaxTb)

QtAllowed(cs, p) ==
    LET a == currArea(p) IN
    /\ Level(p).split \in {"ctu", "qt"}
    /\ a.w > Limits(cs, p.chType).minQt
    /\ p.chType = "chroma" => ChromaWidth(cs, a) > 4

BtAllowed(cs, p, split) ==
    LET a == currArea(p) IN
    /\ ~MiddleOf(p, IF split = "bh" THEN "th" ELSE "tv")
    /\ Larger(a.w, a.h) <= Limits(cs, p.chType).maxBt
    /\ Divided(split, a) > cs.minCu
    /\ DividesAlong64(split, a)
    /\ p.chType = "chroma" => /\ ChromaSize(cs, a) > 16
                              /\ split = "bv" => ChromaWidth(cs, a) # 4
    /\ ~(p.modeType = "inter" /\ a.w * a.h = 32)

TtAllowed(cs, p, split) ==
    LET a == currArea(p) IN
    /\ Divided(split, a) > 2 * cs.minCu
    /\ Larger(a.w, a.h) <= Limits(cs, p.chType).maxTt
    /\ Larger(a.w, a.h) <= MaxTb
    /\ p.chType = "chroma" => /\ ChromaSize(cs, a) > 32
                              /\ split = "tv" => ChromaWidth(cs, a) # 8
    /\ ~(p.modeType = "inter" /\ a.w * a.h = 64)

ImplicitChoice(cs, p, split) ==
    LET thinChroma == p.chType = "chroma" /\ ChromaWidth(cs, currArea(p)) = 4
        halves == {split} \cap (IF thinChroma THEN {"bh"} ELSE Bt)
    IN  IF halves = {} \/ QtAllowed(cs, p) THEN halves \cup {"qt"} ELSE halves

\* The splits of the current area that may be signalled.
canSplit(cs, p) ==
    LET implicit == getImplicitSplit(cs, p) IN
    IF p.treeType = "C" THEN {"no"}
    ELSE IF implicit # "no" THEN ImplicitChoice(cs, p, implicit)
    ELSE {s \in Splits :
            \/ s = "no"
            \/ s = "qt" /\ QtAllowed(cs, p)
            \/ s \in Bt /\ Shallow(cs, p) /\ BtAllowed(cs, p, s)
            \/ s \in Tt /\ Shallow(cs, p) /\ TtAllowed(cs, p, s)}

-----------------------------------------------------------------------------
\* Mutant: the last part begins inside the middle one.
CutsOverlapping(split, side) ==
    IF split \in Tt
    THEN <<<<0, side \div 4>>, <<side \div 4, side \div 2>>,
           <<side \div 2, side \div 4>>>>
    ELSE <<<<0, side \div 2>>, <<side \div 2, side \div 2>>>>

\* getCUSubPartitions: where the parts of a side begin and how long they are.
Cuts(split, side) ==
    IF split \in Tt
    THEN <<<<0, side \div 4>>, <<side \div 4, side \div 2>>,
           <<3 * (side \div 4), side \div 4>>>>
    ELSE <<<<0, side \div 2>>, <<side \div 2, side \div 2>>>>

Across(a, cut) == [a EXCEPT !.y = a.y + cut[1], !.h = cut[2]]
Along(a, cut) == [a EXCEPT !.x = a.x + cut[1], !.w = cut[2]]

Parts(a, split) ==
    LET across == Cuts(split, a.h)
        along  == Cuts(split, a.w)
    IN  IF split = "qt"
        THEN [i \in 1..4 |-> Along(Across(a, across[1 + ((i - 1) \div 2)]),
                                   along[1 + ((i - 1) % 2)])]
        ELSE IF split \in {"bh", "th"}
        THEN [i \in DOMAIN across |-> Across(a, across[i])]
        ELSE [i \in DOMAIN along |-> Along(a, along[i])]

\* What splitCurrArea, getCUSubPartitions and exitCurrSplit CHECK.
MaySplit(cs, p, split) ==
    /\ split \in canSplit(cs, p)
    /\ split = "qt" => p.bt = 0 /\ p.mt = 0
    /\ \A i \in DOMAIN Parts(currArea(p), split) :
          LET a == Parts(currArea(p), split)[i] IN a.w >= MinTb /\ a.h >= MinTb

\* Mutant: every block counts as a group.
AtBlock(p) == [p EXCEPT !.qgPos = Pos(currArea(p))]

\* A block with a group of its own (currQgEnable) moves currQgPos.
AtGroup(p) == IF Level(p).qg THEN [p EXCEPT !.qgPos = Pos(currArea(p))] ELSE p

splitCurrArea(cs, p, split) ==
    LET q      == Checked(cs, p)
        subdiv == p.subdiv + (IF split \in Bt THEN 1 ELSE 2)
        child  == PartLevel(split, Parts(currArea(p), split),
                            Level(p).qg /\ subdiv <= cs.qpSubdiv)
        deeper == [q EXCEPT !.levels = Append(@, child), !.subdiv = subdiv]
    IN  AtGroup(
          IF split = "qt"
          THEN [deeper EXCEPT !.qt = @ + 1, !.bt = 0, !.mt = 0]
          ELSE [deeper EXCEPT !.bt = @ + (IF split \in Tt THEN 2 ELSE 1),
                              !.mt = @ + 1,
                              !.implicitBt = @ + (IF getImplicitSplit(cs, p) = split
                                                  THEN 1 ELSE 0)])

hasNextPart(p) == Level(p).idx + 1 < Len(Level(p).parts)

\* Mutant: the last part keeps the count of the middle one.
AdaptedOnce(p) ==
    LET step == IF Level(p).split \in Tt /\ Level(p).idx = 1 THEN -1 ELSE 0
    IN  [p EXCEPT !.bt = @ + step, !.subdiv = @ + step]

\* The middle part of three counts as one split less than those beside it.
Adapted(p) ==
    LET step == IF Level(p).split \notin Tt THEN 0
                ELSE IF Level(p).idx = 1 THEN -1 ELSE 1
    IN  [p EXCEPT !.bt = @ + step, !.subdiv = @ + step]

nextPart(p) ==
    LET last == Len(p.levels) IN
    AtGroup(Adapted([p EXCEPT !.levels[last].idx = @ + 1,
                              !.levels[last].implicit = "unknown"]))

exitCurrSplit(p) ==
    LET split == Level(p).split
        q     == AtGroup([p EXCEPT !.levels = Front(@)])
        taken == IF split \in Bt THEN 1 ELSE 2
    IN  IF split = "qt"
        THEN [q EXCEPT !.qt = @ - 1, !.subdiv = @ - taken]
        ELSE [q EXCEPT !.bt = @ - taken, !.subdiv = @ - taken, !.mt = @ - 1,
                       !.implicitBt = @ - (IF Level(q).implicit # "no"
                                           THEN 1 ELSE 0)]

MayExit(p) ==
    IF Level(p).split = "qt" THEN p.qt > 0
    ELSE /\ Last(Front(p.levels)).implicit # "unknown"
         /\ p.bt >= (IF Level(p).split \in Tt THEN 2 ELSE 1)
         /\ p.mt > 0
=============================================================================
