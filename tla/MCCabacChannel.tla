--------------------------- MODULE MCCabacChannel ----------------------------
(***************************************************************************)
(* An instance of CabacChannel for TLC: symbols whose values sit at the    *)
(* edges of the binarisations, and two contexts, one of them as skewed as  *)
(* a model can start.                                                      *)
(***************************************************************************)
EXTENDS CabacChannel

Sym(kind, arg, bins) == [kind |-> kind, arg |-> arg, bins |-> bins]

\* 8421504 * 510 is just below 2^32: the interval straddles a carry through a
\* run of 0xff bytes.
MCSymbols ==
    {Sym("ctx", c, b) : c \in 1..2, b \in 0..1}
    \cup {Sym("ep", 0, 1), Sym("align", 0, 0), Sym("trm", 0, 0)}
    \cup {Sym("eps", 8, 255), Sym("eps", 13, 8191), Sym("eps", 24, 8421504)}
    \cup {Sym("rem", 1, b) : b \in {9, 10, 8199}}
    \cup {Sym("rem", 0, b) : b \in {12, 4100, 32767}}

MCCtxModels == <<InitModel(127, 8), InitModel(60, 5)>>
=============================================================================
