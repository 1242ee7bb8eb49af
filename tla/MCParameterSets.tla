--------------------------- MODULE MCParameterSets ---------------------------
(***************************************************************************)
(* ParameterSets on small instances: one id of each kind besides the VPS   *)
(* id 0, two payloads, up to six parameter set objects.                    *)
(***************************************************************************)
EXTENDS ParameterSets, TLC

CONSTANTS a, b, MaxObj

MCObjs == 1..MaxObj
MCIds  == {0, 1}
MCData == {a, b}
MCSpsOf == [d \in MCData |-> 0]
MCVpsOf == (a :> 0) @@ (b :> 1)
MCVps0 == [d \in MCData |-> 0]

\* SPS and PPS change and repeat; VPS 0 is inferred.
SpsPpsNals == {"SPS", "PPS"} \X {0} \X MCData
\* All kinds: an SPS of payload a refers to VPS 0, which is inferred, one of b
\* to VPS 1.
AllNals == ({"SPS", "PPS", "APS"} \X {0} \X MCData) \cup ({"VPS"} \X {1} \X {a})
=============================================================================
