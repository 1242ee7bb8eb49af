---------------------------- MODULE MCCodingTree ----------------------------
(***************************************************************************)
(* Configurations of CodingTree for TLC.                                   *)
(***************************************************************************)
EXTENDS CodingTree

Limit(minQt, maxBt, maxTt, maxMtt) ==
    [minQt |-> minQt, maxBt |-> maxBt, maxTt |-> maxTt, maxMtt |-> maxMtt]

Same(limit) == [luma |-> limit, inter |-> limit, chroma |-> limit]

\* The same, up to where the trees of luma and chroma alternate.
SameTo64(limit) ==
    [Same(limit) EXCEPT !["chroma"].maxBt = IF @ > 64 THEN 64 ELSE @]

Configuration(ctu, minCu, width, height, format, intra, dual, limits, subdiv) ==
    [ctu |-> ctu, minCu |-> minCu, width |-> width, height |-> height,
     format |-> format, intra |-> intra, dual |-> dual, limits |-> limits,
     qpSubdiv |-> subdiv]

P2(from, to) == {2^n : n \in from..to}

\* Of a CTU of 2^ctu and units of 2^minCu, limits that parseCfg may accept.
LimitsOf(ctu, minCu, depths) ==
    {Limit(minQt, maxBt, maxTt, depth) :
        minQt \in P2(minCu, 6), maxBt \in P2(minCu, ctu),
        maxTt \in P2(minCu, 6), depth \in depths}

Mixed == [luma |-> Limit(16, 32, 32, 3), inter |-> Limit(8, 32, 16, 2),
          chroma |-> Limit(8, 32, 32, 2)]
Large == [luma |-> Limit(16, 128, 64, 2), inter |-> Limit(16, 128, 64, 3),
          chroma |-> Limit(16, 64, 64, 2)]

\* Wherever the picture ends, under all limits.
Boundaries ==
    {Configuration(32, 4, w, h, f, TRUE, TRUE, Same(l), 2) :
        w, h \in {8, 24}, f \in {"420", "422"}, l \in LimitsOf(5, 2, {0, 1, 2})}
    \cup {Configuration(32, 8, w, h, "420", TRUE, FALSE, Same(l), 1) :
        w, h \in {8, 24, 32}, l \in LimitsOf(5, 3, 0..4)}
    \cup {Configuration(128, 32, w, h, "420", x, TRUE, SameTo64(l), 2) :
        w, h \in {32, 96, 128}, x \in BOOLEAN, l \in LimitsOf(7, 5, 0..4)}

\* Small units and large CTUs under a few limits.
Trees ==
    {Configuration(32, 4, w, h, "420", x, FALSE, Mixed, 3) :
        w, h \in {8, 16, 24, 32}, x \in BOOLEAN}
    \cup {Configuration(32, 4, w, h, f, TRUE, TRUE, Mixed, 2) :
        w, h \in {24, 32}, f \in {"420", "422", "444"}}
    \cup {Configuration(32, 4, w, 32, f, x, FALSE, Same(Limit(8, 32, 32, 3)), 4) :
        w \in {8, 32}, f \in {"400", "422", "444"}, x \in BOOLEAN}
    \cup {Configuration(128, 16, w, h, "420", x, TRUE, Large, 2) :
        w, h \in {80, 128}, x \in BOOLEAN}

MCConfigs == Boundaries \cup Trees
=============================================================================
