----------------------------- MODULE CodedStream -----------------------------
(***************************************************************************)
(* The bitstream that the decoder is given: which picture may come next.   *)
(* It is the environment of DecoderLoop.  Its rules are the ones that      *)
(* Slice::checkLeadingPictureRestrictions and Slice::checkRPL enforce with *)
(* CHECK, and the limits dpb_max_num_reorder_pics and                      *)
(* dpb_max_dec_pic_buffering that DecApp::xWriteOutput reads from the SPS: *)
(* a stream respects them when a decoder that outputs ("bumps") pictures   *)
(* only when it has to never meets a picture it should have output before. *)
(*                                                                         *)
(* A coded video sequence (CVS) is numbered; inside it a picture is known  *)
(* by its POC.  The state of a stream is a record:                         *)
(*   cvs       number of the current CVS                                   *)
(*   fresh     the next picture is the first of a CVS (start, EOS)         *)
(*   anchor    kind of the last IRAP or GDR picture                        *)
(*   starts    that picture is the first of its CVS                        *)
(*   pics      <<poc, class>> of the pictures of the CVS                   *)
(*   dpb       POCs of its reference pictures                              *)
(*   waiting   POCs that a bumping decoder has not output                  *)
(*   horizon   highest POC that it has output                              *)
(*   recovery  first POC that is output after a GDR picture starts a CVS   *)
(*   expected  <<cvs, poc>> of the pictures to output, over all CVSs       *)
(***************************************************************************)
EXTENDS Integers, FiniteSets

CONSTANTS
    MaxPoc,             \* bound: POCs are 0..MaxPoc
    MaxNumReorder,      \* SPS: dpb_max_num_reorder_pics of the highest sublayer
    MaxDecPicBuffering, \* SPS: dpb_max_dec_pic_buffering_minus1 + 1
    Kinds,              \* NAL unit types of the slices of the stream
    Outputs,            \* values that ph_pic_output_flag may take
    MaxRecovery         \* bound: recovery_poc_cnt of a GDR picture

ASSUME StreamAssumption ==
    /\ MaxPoc \in Nat
    /\ MaxNumReorder \in Nat
    /\ MaxDecPicBuffering \in Nat \ {0}
    /\ Kinds \subseteq {"IDR", "CRA", "GDR", "TRAIL", "RADL", "RASL"}
    /\ Outputs \subseteq BOOLEAN
    /\ MaxRecovery \in Nat

Poc == 0..MaxPoc
Anchors == {"IDR", "CRA", "GDR"}
Classes == {"anchor", "trail", "radl", "rasl", "oldAnchor", "old"}

\* A picture header: keep lists the POCs of the reference picture lists.
Header == [kind : Kinds, poc : Poc, output : BOOLEAN, keep : SUBSET Poc,
           recoveryPocCnt : 0..MaxRecovery]

Stream == [cvs : Nat, fresh : BOOLEAN, anchor : Anchors, starts : BOOLEAN,
           pics : SUBSET (Poc \X Classes), dpb : SUBSET Poc,
           waiting : SUBSET Poc, horizon : Poc \cup {-1}, recovery : Nat,
           expected : SUBSET (Nat \X Poc)]

EmptyStream == [cvs |-> 0, fresh |-> TRUE, anchor |-> "IDR", starts |-> TRUE,
                pics |-> {}, dpb |-> {}, waiting |-> {}, horizon |-> -1,
                recovery |-> 0, expected |-> {}]

-----------------------------------------------------------------------------
Of(s, classes) == {pic[1] : pic \in {x \in s.pics : x[2] \in classes}}
Used(s) == Of(s, Classes)

Above(S, T) == \A x \in S, y \in T : x > y

\* No picture has reached the recovery point of the GDR that starts the CVS.
Recovering(s) == \A poc \in Used(s) : poc < s.recovery

StartsCvs(s, h) == h.kind = "IDR" \/ s.fresh

\* The RASL pictures of a CRA picture that starts a CVS refer to pictures that
\* are not there.
Undecodable(s, h) == h.kind = "RASL" /\ s.starts

\* Reference pictures that a picture may use; the others of keep are inactive
\* entries of its lists.
Usable(s, h) ==
    CASE h.kind \in Anchors -> {}
      [] h.kind = "TRAIL"   -> Of(s, {"anchor", "trail"})
      [] h.kind = "RADL"    -> Of(s, {"anchor", "radl"})
      [] h.kind = "RASL"    -> Of(s, {"anchor", "rasl", "old", "oldAnchor"})

\* Output order and associated pictures (checkLeadingPictureRestrictions).
InOrder(s, h) ==
    LET anchorPoc == Of(s, {"anchor"}) IN
    CASE h.kind \in {"CRA", "GDR"} -> Above({h.poc}, Used(s))
      [] h.kind = "TRAIL" -> Above({h.poc}, anchorPoc)
      [] h.kind = "RADL"  -> /\ s.anchor \in {"IDR", "CRA"}
                             /\ Of(s, {"trail"}) = {}
                             /\ Above(anchorPoc, {h.poc})
                             /\ Above({h.poc}, Of(s, {"old", "oldAnchor", "rasl"}))
      [] h.kind = "RASL"  -> /\ s.anchor = "CRA"
                             /\ Of(s, {"trail"}) = {}
                             /\ Above(anchorPoc \cup Of(s, {"radl"}), {h.poc})
                             /\ Above({h.poc}, Of(s, {"oldAnchor"}))

-----------------------------------------------------------------------------
\* Bumping (C.5.2): the pictures that wait when all up to POC x are output.
Left(s, x) == {w \in s.waiting : w > x}

\* Before a picture is decoded its buffer must be free and the limits hold.
Room(s, h, x) ==
    /\ Cardinality(Left(s, x)) <= MaxNumReorder
    /\ Cardinality(Left(s, x) \cup h.keep) < MaxDecPicBuffering

LeastOf(S) == CHOOSE x \in S : \A y \in S : x <= y
HighestOf(S) == CHOOSE x \in S : \A y \in S : y <= x

BumpBefore(s, h) ==
    LeastOf({x \in s.waiting \cup {s.horizon} : Room(s, h, x)})

BumpAfter(waiting, horizon) ==
    LeastOf({x \in waiting \cup {horizon} :
               Cardinality({w \in waiting : w > x}) <= MaxNumReorder})

MayFollow(s, h) ==
    /\ h.kind # "GDR" => h.recoveryPocCnt = 0
    /\ s.fresh => h.kind \in Anchors
    /\ StartsCvs(s, h) => h.keep = {}
    /\ ~StartsCvs(s, h) =>
         /\ InOrder(s, h)
         /\ h.poc \notin Used(s)
         /\ h.keep \subseteq s.dpb
         /\ h.kind = "GDR" => h.keep = {}
         /\ h.kind \in Anchors => ~Recovering(s)
         /\ h.kind = "TRAIL" => h.keep \subseteq Usable(s, h)
         /\ ~Undecodable(s, h) =>
              /\ Cardinality(h.keep) < MaxDecPicBuffering
              /\ h.poc > BumpBefore(s, h)
         /\ Undecodable(s, h) => h.poc > s.horizon /\ h.keep = {}

\* The headers of the pictures that may come next.
Followers(s) ==
    {h \in [kind : Kinds, poc : Poc, output : Outputs, keep : SUBSET s.dpb,
            recoveryPocCnt : 0..MaxRecovery] : MayFollow(s, h)}

ClassOf(h) == CASE h.kind \in Anchors -> "anchor"
                [] h.kind = "TRAIL"   -> "trail"
                [] h.kind = "RADL"    -> "radl"
                [] h.kind = "RASL"    -> "rasl"

\* The pictures of the CVS with the new one; a new anchor makes the others old.
PicsWith(s, h) ==
    {<<h.poc, ClassOf(h)>>} \cup
    IF h.kind \in Anchors
    THEN {<<x[1], IF x[2] \in {"anchor", "oldAnchor"} THEN "oldAnchor" ELSE "old">> :
            x \in s.pics}
    ELSE s.pics

FirstPicture(s, h) ==
    LET shown == h.output /\ h.recoveryPocCnt = 0 IN
    [s EXCEPT !.cvs = @ + 1, !.fresh = FALSE, !.anchor = h.kind, !.starts = TRUE,
              !.pics = {<<h.poc, "anchor">>}, !.dpb = {h.poc},
              !.waiting = IF shown /\ MaxNumReorder > 0 THEN {h.poc} ELSE {},
              !.horizon = IF shown /\ MaxNumReorder = 0 THEN h.poc ELSE -1,
              !.recovery = IF h.kind = "GDR" THEN h.poc + h.recoveryPocCnt ELSE 0,
              !.expected = IF shown THEN @ \cup {<<s.cvs + 1, h.poc>>} ELSE @]

FurtherPicture(s, h) ==
    LET shown   == h.output /\ h.poc >= s.recovery
        before  == BumpBefore(s, h)
        waiting == Left(s, before) \cup (IF shown THEN {h.poc} ELSE {})
        after   == BumpAfter(waiting, before)
    IN [s EXCEPT !.anchor = IF h.kind \in Anchors THEN h.kind ELSE @,
                 !.starts = IF h.kind \in Anchors THEN FALSE ELSE @,
                 !.pics = PicsWith(s, h),
                 !.dpb = h.keep \cup {h.poc},
                 !.waiting = {w \in waiting : w > after},
                 !.horizon = after,
                 !.expected = IF shown THEN @ \cup {<<s.cvs, h.poc>>} ELSE @]

\* The stream after picture h.
Coded(s, h) ==
    IF StartsCvs(s, h) THEN FirstPicture(s, h)
    ELSE IF Undecodable(s, h) THEN [s EXCEPT !.pics = PicsWith(s, h)]
    ELSE FurtherPicture(s, h)
=============================================================================
