---------------------------- MODULE MCSliceData ----------------------------
(***************************************************************************)
(* An instance of SliceData for TLC: QPs at both ends of their range.      *)
(***************************************************************************)
EXTENDS SliceData

MCQps == {-12, 63}
=============================================================================
