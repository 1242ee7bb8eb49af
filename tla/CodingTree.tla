------------------------------ MODULE CodingTree ------------------------------
(***************************************************************************)
(* The coding tree of one CTU as coding_tree of the reader walks it, with  *)
(* every split and mode constraint that the writer may send.  The state is *)
(* the path to the node at hand: the partitioner, the calls of coding_tree *)
(* that have not returned, and a second partitioner where the trees of     *)
(* luma and chroma alternate.  How the nodes before it were divided is     *)
(* not kept, only which samples were coded.                                *)
(***************************************************************************)
EXTENDS Partitioner, FiniteSets

CONSTANT Configs        \* what encoder configurations make of cs

Formats == {"400", "420", "422", "444"}
SplitLimits == [minQt : Nat, maxBt : Nat, maxTt : Nat, maxMtt : Nat]
ASSUME ConfigsAssumption ==
    Configs \subseteq [ctu : Nat, minCu : Nat, width : Nat \ {0}, height : Nat \ {0},
                       format : Formats, intra : BOOLEAN, dual : BOOLEAN,
                       limits : [{"luma", "inter", "chroma"} -> SplitLimits],
                       qpSubdiv : Nat]

VARIABLES
    cs,
    phase,      \* "tree" (coding_tree begins), "unit", "return", "done",
                \* "failed" (a CHECK)
    p,          \* the partitioner at work
    waiting,    \* the other one, or NoPartitioner
    calls,      \* of coding_tree, with what they recover when they return
    qg,         \* CUCtx::qgStart, and where the QP was last predicted
    coded       \* units of luma and chroma, as numbers of minCu blocks

vars == <<cs, phase, p, waiting, calls, qg, coded>>

NoPartitioner == <<>>
Both == [mode |-> "all", chromaNotSplit |-> FALSE, both |-> TRUE]
Nowhere == <<-1, -1>>

-----------------------------------------------------------------------------
\* What the reader of the SPS accepts, in luma samples; parseCfg lets less pass.
AcceptedLimits(c, lim) ==
    /\ c.minCu <= lim.minQt /\ lim.minQt <= c.ctu /\ lim.minQt <= 64
    /\ lim.minQt <= lim.maxBt /\ lim.maxBt <= c.ctu
    /\ lim.minQt <= lim.maxTt /\ lim.maxTt <= c.ctu /\ lim.maxTt <= 64
    /\ lim.maxMtt = 0 => lim.maxBt = lim.minQt /\ lim.maxTt = lim.minQt
    /\ c.minCu * c.minCu * 2^lim.maxMtt <= c.ctu * c.ctu

Accepted(c) ==
    /\ c.ctu \in {32, 64, 128}
    /\ c.minCu \in {4, 8, 16, 32, 64}
    /\ c.width % Larger(8, c.minCu) = 0 /\ c.height % Larger(8, c.minCu) = 0
    /\ c.dual => c.format # "400"
    /\ \A t \in DOMAIN c.limits : AcceptedLimits(c, c.limits[t])
    /\ c.dual => c.limits["chroma"].maxBt <= 64

Interleaved(c) == isDualITree(c) /\ c.format # "400" /\ c.ctu > 64

\* coding_tree_unit
Init ==
    /\ cs \in {c \in Configs : Accepted(c)}
    /\ phase = "tree"
    /\ p = initCtu(cs, "luma")
    /\ waiting = IF Interleaved(cs) THEN initCtu(cs, "chroma")
                 ELSE NoPartitioner
    /\ calls = <<>>
    /\ qg = [start |-> FALSE, first |-> Nowhere]
    /\ coded = [luma |-> {}, chroma |-> {}]

UnitsOf(a) ==
    LET perRow == cs.ctu \div cs.minCu
        First(n) == n \div cs.minCu
        Final(n) == (n - 1) \div cs.minCu
    IN  {y * perRow + x : x \in First(a.x)..Final(a.x + a.w),
                          y \in First(a.y)..Final(a.y + a.h)}

\* CS::getArea
Channels ==
    IF cs.format = "400" THEN {"luma"}
    ELSE IF isDualITree(cs) \/ p.treeType # "D" THEN {p.chType}
    ELSE {"luma", "chroma"}

-----------------------------------------------------------------------------
\* Mutant: the direction is sent if both halvings are possible.
SplitBinsOfHalves(can, split) ==
    LET ver == can \cap {"bv", "tv"}
        hor == can \cap {"bh", "th"}
        dir == IF split \in ver THEN ver ELSE hor
    IN  (IF "no" \in can /\ can # {"no"} THEN <<split # "no">> ELSE <<>>)
        \o (IF split # "no" /\ "qt" \in can /\ can \cap Btt # {}
            THEN <<split = "qt">> ELSE <<>>)
        \o (IF split \in Btt /\ Bt \subseteq can
            THEN <<split \in ver>> ELSE <<>>)
        \o (IF split \in Btt /\ dir \cap Bt # {} /\ dir \cap Tt # {}
            THEN <<split \in Bt>> ELSE <<>>)

\* The bins of a split: the writer leaves out what canSplit implies.
SplitBins(can, split) ==
    LET ver == can \cap {"bv", "tv"}
        hor == can \cap {"bh", "th"}
        dir == IF split \in ver THEN ver ELSE hor
    IN  (IF "no" \in can /\ can # {"no"} THEN <<split # "no">> ELSE <<>>)
        \o (IF split # "no" /\ "qt" \in can /\ can \cap Btt # {}
            THEN <<split = "qt">> ELSE <<>>)
        \o (IF split \in Btt /\ ver # {} /\ hor # {}
            THEN <<split \in ver>> ELSE <<>>)
        \o (IF split \in Btt /\ dir \cap Bt # {} /\ dir \cap Tt # {}
            THEN <<split \in Bt>> ELSE <<>>)

\* The bins that follow those of a split, whatever they say.
Following == <<TRUE, FALSE, TRUE, FALSE>>

\* A bin that is not read stands for what is possible.
HeadOr(read, bins, else) == IF read THEN Head(bins) ELSE else
TailIf(read, bins) == IF read THEN Tail(bins) ELSE bins

\* split_cu_mode of the reader: the split, and the bins it leaves.
ParsedSplit(can, bins) ==
    LET hor == can \cap {"bh", "th"}
        ver == can \cap {"bv", "tv"}
        readSplit == "no" \in can /\ can # {"no"}
        isSplit   == HeadOr(readSplit, bins, can # {"no"})
        afterSplit == TailIf(readSplit, bins)
        readQt  == "qt" \in can /\ hor \cup ver # {}
        isQt    == HeadOr(readQt, afterSplit, "qt" \in can)
        afterQt == TailIf(readQt, afterSplit)
        readVer == ver # {} /\ hor # {}
        isVer   == HeadOr(readVer, afterQt, ver # {})
        afterVer == TailIf(readVer, afterQt)
        dir     == IF isVer THEN ver ELSE hor
        read12  == dir \cap Bt # {} /\ dir \cap Tt # {}
        is12    == HeadOr(read12, afterVer, dir \cap Bt # {})
    IN  IF ~isSplit THEN [split |-> "no", rest |-> afterSplit]
        ELSE IF isQt THEN [split |-> "qt", rest |-> afterQt]
        ELSE [split |-> IF isVer THEN (IF is12 THEN "bv" ELSE "tv")
                        ELSE (IF is12 THEN "bh" ELSE "th"),
              rest |-> TailIf(read12, afterVer)]

Sent(can, split) == ParsedSplit(can, SplitBins(can, split) \o Following)

\* Mutant: only the size of the chroma blocks counts.
ModesBySize(split) ==
    LET a      == currArea(p)
        luma   == (a.w * a.h) \div (IF split \in Bt THEN 2 ELSE 4)
        chroma == luma \div (ScaleX(cs) * ScaleY(cs))
    IN  IF \/ isDualITree(cs) \/ p.modeType # "all"
           \/ cs.format \in {"444", "400"} \/ chroma >= 16
        THEN {p.modeType}
        ELSE IF luma < 32 \/ cs.intra THEN {"intra"}
        ELSE {"intra", "inter"}

\* CodingStructure::signalModeCons: the modes that the parts may be limited to.
Modes(split) ==
    LET a       == currArea(p)
        luma    == (a.w * a.h) \div (IF split \in Bt THEN 2 ELSE 4)
        chroma  == luma \div (ScaleX(cs) * ScaleY(cs))
        thin    == \/ ChromaWidth(cs, a) = 4 /\ split = "bv"
                   \/ ChromaWidth(cs, a) = 8 /\ split = "tv"
    IN  IF \/ isDualITree(cs) \/ p.modeType # "all"
           \/ cs.format \in {"444", "400"}
           \/ chroma >= 16 /\ ~thin
        THEN {p.modeType}
        ELSE IF luma < 32 \/ cs.intra THEN {"intra"}
        ELSE {"intra", "inter"}

\* At the start of a quantization group the next unit predicts its QP.
GroupStarts == Level(p).qg /\ p.chType = "luma"
StartOfGroup == IF GroupStarts THEN [start |-> TRUE, first |-> Nowhere] ELSE qg

Begin(q) == IF InPicture(cs, currArea(q)) THEN "tree" ELSE "return"

\* Both trees of a CTU of 128 are divided in four.
SplitBoth ==
    /\ phase = "tree" /\ waiting # NoPartitioner /\ calls = <<>>
    /\ qg' = StartOfGroup
    /\ IF MaySplit(cs, p, "qt") /\ MaySplit(cs, waiting, "qt")
       THEN /\ p' = splitCurrArea(cs, p, "qt")
            /\ waiting' = splitCurrArea(cs, waiting, "qt")
            /\ calls' = <<Both>>
            /\ UNCHANGED phase
       ELSE phase' = "failed" /\ UNCHANGED <<p, waiting, calls>>
    /\ UNCHANGED <<cs, coded>>

Split ==
    /\ phase = "tree" /\ (waiting = NoPartitioner \/ calls # <<>>)
    /\ qg' = StartOfGroup
    /\ \E choice \in canSplit(cs, p) \ {"no"} :
       LET can   == canSplit(cs, p)
           split == Sent(can, choice).split
       IN  \E mode \in Modes(split) :
           LET alone == p.modeType = "all" /\ mode = "intra"
               tree  == IF p.treeType = "D" /\ alone THEN "L" ELSE p.treeType
           IN  IF MaySplit(cs, p, split) /\ (alone => p.chType = "luma")
               THEN /\ p' = splitCurrArea(cs, [p EXCEPT !.modeType = mode,
                                                        !.treeType = tree],
                                          split)
                    /\ calls' = Append(calls, [mode |-> p.modeType,
                                               chromaNotSplit |-> alone,
                                               both |-> FALSE])
                    /\ UNCHANGED phase
               ELSE phase' = "failed" /\ UNCHANGED <<p, calls>>
    /\ UNCHANGED <<cs, waiting, coded>>

\* A chroma unit takes its QP from the luma unit at its centre, if chroma has a
\* tree of its own.
HasLuma ==
    LET a == currArea(p) IN
    Channels = {"chroma"} =>
        UnitsOf([x |-> a.x + a.w \div 2, y |-> a.y + a.h \div 2, w |-> 1, h |-> 1])
            \subseteq coded["luma"]

\* A coding unit; chroma of a dual tree has a context of its own.
DontSplit ==
    /\ phase = "tree"
    /\ "no" \in canSplit(cs, p)
    /\ p' = Checked(cs, p)
    /\ qg' = IF StartOfGroup.start /\ ~(isDualITree(cs) /\ p.chType = "chroma")
             THEN [start |-> FALSE, first |-> Pos(currArea(p))]
             ELSE StartOfGroup
    /\ phase' = IF HasLuma THEN "unit" ELSE "failed"
    /\ UNCHANGED <<cs, waiting, calls, coded>>

CodeUnit ==
    /\ phase = "unit"
    /\ coded' = [c \in {"luma", "chroma"} |->
                    IF c \in Channels THEN coded[c] \cup UnitsOf(currArea(p))
                    ELSE coded[c]]
    /\ phase' = "return"
    /\ UNCHANGED <<cs, p, waiting, calls, qg>>

-----------------------------------------------------------------------------
InSplit == phase = "return" /\ calls # <<>> /\ Last(calls) # Both

NextPart ==
    /\ InSplit /\ p.treeType # "C"
    /\ hasNextPart(p)
    /\ p' = nextPart(p)
    /\ phase' = Begin(nextPart(p))
    /\ UNCHANGED <<cs, waiting, calls, qg, coded>>

\* Behind the last part, the chroma of all parts if it was not split.
ExitSplit ==
    /\ InSplit /\ p.treeType # "C"
    /\ ~hasNextPart(p)
    /\ LET q == exitCurrSplit(p) IN
       IF ~MayExit(p) THEN phase' = "failed" /\ UNCHANGED <<p, calls>>
       ELSE IF Last(calls).chromaNotSplit
       THEN /\ p' = [q EXCEPT !.chType = "chroma", !.treeType = "C"]
            /\ phase' = "tree"
            /\ UNCHANGED calls
       ELSE /\ p' = [q EXCEPT !.modeType = Last(calls).mode]
            /\ calls' = Front(calls)
            /\ UNCHANGED phase
    /\ UNCHANGED <<cs, waiting, qg, coded>>

EndChroma ==
    /\ InSplit /\ p.treeType = "C"
    /\ p' = [p EXCEPT !.chType = "luma", !.treeType = "D",
                      !.modeType = Last(calls).mode]
    /\ calls' = Front(calls)
    /\ UNCHANGED <<cs, phase, waiting, qg, coded>>

\* The luma tree of a block of 64, then its chroma tree, then the next block.
Alternate ==
    /\ phase = "return" /\ calls = <<Both>>
    /\ IF p.chType = "luma"
       THEN /\ p' = waiting /\ waiting' = p
            /\ phase' = Begin(waiting)
            /\ UNCHANGED calls
       ELSE IF hasNextPart(p) # hasNextPart(waiting)
       THEN phase' = "failed" /\ UNCHANGED <<p, waiting, calls>>
       ELSE IF hasNextPart(p)
       THEN /\ p' = nextPart(waiting) /\ waiting' = nextPart(p)
            /\ phase' = Begin(nextPart(waiting))
            /\ UNCHANGED calls
       ELSE /\ p' = exitCurrSplit(waiting) /\ waiting' = exitCurrSplit(p)
            /\ calls' = <<>>
            /\ UNCHANGED phase
    /\ UNCHANGED <<cs, qg, coded>>

\* The chroma tree of a smaller CTU follows its luma tree.
BeginChroma ==
    /\ phase = "return" /\ calls = <<>>
    /\ isDualITree(cs) /\ waiting = NoPartitioner /\ p.chType = "luma"
    /\ p' = initCtu(cs, "chroma")
    /\ qg' = [start |-> FALSE, first |-> Nowhere]
    /\ phase' = "tree"
    /\ UNCHANGED <<cs, waiting, calls, coded>>

EndCtu ==
    /\ phase = "return" /\ calls = <<>>
    /\ isDualITree(cs) => waiting # NoPartitioner \/ p.chType = "chroma"
    /\ phase' = "done"
    /\ UNCHANGED <<cs, p, waiting, calls, qg, coded>>

Ended == phase \in {"done", "failed"} /\ UNCHANGED vars

Next ==
    \/ SplitBoth \/ Split \/ DontSplit \/ CodeUnit
    \/ NextPart \/ ExitSplit \/ EndChroma \/ Alternate
    \/ BeginChroma \/ EndCtu \/ Ended

Spec == Init /\ [][Next]_vars

-----------------------------------------------------------------------------
\* The units of an area that are in the picture.
UnitsInPicture(a) ==
    LET perRow == cs.ctu \div cs.minCu IN
    {u \in UnitsOf(a) : /\ (u % perRow) * cs.minCu < cs.width
                       /\ (u \div perRow) * cs.minCu < cs.height}
Ctu == [x |-> 0, y |-> 0, w |-> cs.ctu, h |-> cs.ctu]
Chroma == IF cs.format = "400" THEN "luma" ELSE "chroma"

\* No CHECK of the walk fails: wherever the picture ends, the splits forced upon
\* the blocks at its boundary are splits that may be applied, and depths never
\* go below zero (splitCurrArea, exitCurrSplit, coding_tree).
ChecksHold == phase # "failed"

\* Every sample of the picture is coded once, in luma and in chroma: by trees
\* of both, by two trees, or by luma trees under which chroma is not split; and
\* no unit reaches beyond the picture (getImplicitSplit, coding_tree).
CodedOnce ==
    /\ phase = "unit" =>
          LET a == currArea(p) IN
          /\ HasBottomLeft(cs, a) /\ HasTopRight(cs, a)
          /\ \A c \in Channels : UnitsOf(a) \cap coded[c] = {}
    /\ phase = "done" =>
          /\ coded["luma"] = UnitsInPicture(Ctu)
          /\ coded[Chroma] = UnitsInPicture(Ctu)

\* The depths that are counted up and down along the way are those of the path
\* (nextPart and exitCurrSplit against splitCurrArea).
Taken(i) ==
    LET level == p.levels[i] IN
    IF level.split = "ctu" THEN 0
    ELSE IF level.split \in Bt \/ (level.split \in Tt /\ level.idx = 1)
    THEN 1 ELSE 2
Total(f) ==
    LET sum[n \in 0..Len(f)] == IF n = 0 THEN 0 ELSE sum[n - 1] + f[n]
    IN  sum[Len(f)]
Multi == {i \in DOMAIN p.levels : p.levels[i].split \in Btt}
CountersMatchPath ==
    phase # "failed" =>
        LET took == [i \in DOMAIN p.levels |-> Taken(i)] IN
        /\ p.qt = Cardinality({i \in DOMAIN p.levels : p.levels[i].split = "qt"})
        /\ p.mt = Cardinality(Multi)
        /\ p.bt = Total([i \in DOMAIN took |-> IF i \in Multi THEN took[i] ELSE 0])
        /\ p.subdiv = Total(took)
        /\ p.implicitBt = Cardinality({i \in Multi : p.levels[i - 1].implicit # "no"})

\* No chroma block that may be predicted from its neighbours has less than 16
\* samples or a width of two, and blocks under a constraint to inter prediction
\* are larger than 4x4 (signalModeCons, canSplit).
SmallBlocks ==
    phase = "unit" =>
        LET a == currArea(p) IN
        /\ "chroma" \in Channels /\ p.modeType # "inter" =>
              ChromaSize(cs, a) >= 16 /\ ChromaWidth(cs, a) >= 4
        /\ p.modeType = "inter" => a.w * a.h > 16

\* Of the blocks of 64 in a CTU, luma and chroma together, one at most is begun
\* and not finished (canSplit, the alternation of coding_tree).
Blocks64 ==
    LET n    == Larger(1, cs.ctu \div 64)
        side == cs.ctu \div n
    IN  {[x |-> x * side, y |-> y * side, w |-> side, h |-> side] :
            x \in 0..(n - 1), y \in 0..(n - 1)}
PipelineUnits ==
    Cardinality({b \in Blocks64 :
        /\ UnitsOf(b) \cap (coded["luma"] \cup coded["chroma"]) # {}
        /\ ~(UnitsInPicture(b) \subseteq coded["luma"] \cap coded[Chroma])}) <= 1

\* What the search takes for the first unit of the quantization group
\* (currQgPos) is the unit where writer and reader predicted the group's QP;
\* and from a local chroma tree it is found by going up the path, as the search
\* does (EncCu::xCheckModeSplit).
FirstOfGroup ==
    phase = "unit" =>
        IF p.chType = "luma" THEN ~qg.start /\ qg.first = p.qgPos
        ELSE \E i \in DOMAIN p.levels :
                LET level == p.levels[i] IN
                Pos(level.parts[level.idx + 1]) = p.qgPos

\* The reader takes every split from its bins as the writer meant it, and no
\* bin of what follows (split_cu_mode).
BinsParsed ==
    phase = "tree" =>
        LET can == canSplit(cs, p) IN
        \A split \in can : Sent(can, split) = [split |-> split, rest |-> Following]
=============================================================================
