------------------------------ MODULE ProbModel ------------------------------
(***************************************************************************)
(* BinProbModel_Std (Lib/CommonLib/Contexts): the probability of a context *)
(* is the mean of two estimates of 10 and 14 bits that follow the bins at  *)
(* two rates.  Both are kept as 15-bit numbers whose low bits are zero     *)
(* (MASK_0, MASK_1).                                                       *)
(***************************************************************************)
EXTENDS Naturals

Estimate == 0..32767
ProbModel == [fast : Estimate, slow : Estimate, rate0 : 2..5, rate1 : 5..9]

Mask0(x) == x - (x % 32)
Mask1(x) == x - (x % 2)

\* setLog2WindowSize
Rate0(log2WindowSize) == 2 + ((log2WindowSize \div 4) % 4)
Rate1(log2WindowSize) == 3 + Rate0(log2WindowSize) + (log2WindowSize % 4)

\* init, from the clipped state of the slice QP and the initial value.
InitModel(clippedState, log2WindowSize) ==
    [fast  |-> Mask0(256 * clippedState),
     slow  |-> Mask1(256 * clippedState),
     rate0 |-> Rate0(log2WindowSize),
     rate1 |-> Rate1(log2WindowSize)]

state(m) == (m.fast + m.slow) \div 256
mps(m) == state(m) \div 128

\* The width of the less probable symbol in a range.
getLPS(m, range) ==
    LET q == IF state(m) >= 128 THEN 255 - state(m) ELSE state(m)
    IN  ((q \div 4) * (range \div 32)) \div 2 + 4

\* m_RenormTable_32: the shift that brings an LPS range back to 256..511.
getRenormBitsLPS(lps) ==
    CHOOSE n \in 1..6 : lps * 2^n \in 256..511

getRenormBitsRange(range) == 1

Move(estimate, rate, bin, Mask(_)) ==
    estimate - Mask(estimate \div 2^rate)
             + (IF bin = 1 THEN Mask(32767 \div 2^rate) ELSE 0)

update(m, bin) ==
    [m EXCEPT !.fast = Move(@, m.rate0, bin, Mask0),
              !.slow = Move(@, m.rate1, bin, Mask1)]
=============================================================================
