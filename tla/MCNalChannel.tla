---------------------------- MODULE MCNalChannel ----------------------------
(***************************************************************************)
(* An instance of NalChannel for TLC.  Zeros are at the ends and in the    *)
(* middle of syntax and substreams, in front of every byte up to 4.        *)
(***************************************************************************)
EXTENDS NalChannel

Unit(type, syntax) ==
    [type |-> type, syntax |-> syntax, subs |-> <<>>, zeroWords |-> 0]
Slice(syntax, subs, zeroWords) ==
    [type |-> IDR, syntax |-> syntax, subs |-> subs, zeroWords |-> zeroWords]

MCUnits ==
    {Unit(20, <<128>>), Unit(15, <<0, 0, 0, 0, 1, 128>>), Unit(17, <<0, 0, 1>>),
     Unit(PH, <<4, 0, 0, 3>>), Unit(24, <<0, 0, 4>>), Unit(EOS, <<>>)}
    \cup
    {Slice(<<128, 0, 0, 2>>, <<<<0, 0, 0, 128>>, <<1>>, <<0, 0, 3, 0, 0, 1>>>>, 2),
     Slice(<<0, 0, 1>>, <<<<1, 0, 0, 0, 0, 0, 3>>, <<0, 128>>>>, 1)}
=============================================================================
